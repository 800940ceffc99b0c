----------------------------- MODULE QueueTests -----------------------------
(***************************************************************************)
(* The tests of 4/test.c, run against the queue of 4/queue.c.  Every test  *)
(* is a script of the calls that its threads make, with fewer items and    *)
(* threads where the test has many.  The tests run one after the other;    *)
(* since each begins with initQueue, a behaviour is that of one test.      *)
(***************************************************************************)
EXTENDS HandoffQueue, TestCalls

CONSTANT Many   (* stands for the numbers of threads and items, up to 100  *)

Main    == 0
Workers == Threads \ {Main}

ASSUME TestAssumption ==
  /\ Many \in Nat \ {0}
  /\ Threads = 0 .. 2 * Many
  /\ 1 .. 6 \subseteq Items /\ 1 .. Many \subseteq Items

-----------------------------------------------------------------------------
test_destroyQueue == Alone(<<>>)

test_enqueue_dequeue ==
  Alone(Each("enqueue", 5) \o InOrder("dequeue", 5) \o <<<<"size", 0>>>>)

test_tryDequeue ==
  Alone(<<<<"tryDequeue", 0>>, <<"returned", Nothing>>>>
        \o Each("enqueue", 5) \o InOrder("tryDequeue", 5) \o <<<<"size", 0>>>>)

test_size == Alone(Each("enqueue", 3) \o <<<<"size", 3>>>>)

(* It polls until it gets an item.  There are as many as threads, so the   *)
(* branch that sleeps and tries again is not reached, and has no action: a *)
(* poll that found nothing would be a deadlock here.                       *)
dequeue_with_wait == <<<<"poll", 0>>>>

test_waiting ==
  Threaded(Each("enqueue", 3), [i \in 1 .. 3 |-> dequeue_with_wait], <<>>,
           <<<<"size", 0>>, <<"visited", 3>>, <<"waiting", 0>>>>)

(* Two threads enqueue half of the items each; main dequeues them all.     *)
half == 3
enqueueItems(i) == [j \in 1 .. half |-> <<"enqueue", half * (i - 1) + j>>]

test_basic_concurrent_enqueue_dequeue ==
  Threaded(<<>>, [i \in 1 .. 2 |-> enqueueItems(i)],
           Times("dequeue", 2 * half), <<>>)

test_enqueue_tryDequeue ==
  Alone(Each("enqueue", 3) \o InOrder("tryDequeue", 3)
        \o <<<<"tryDequeue", 0>>, <<"returned", Nothing>>>>)

dequeue_with_sleep == <<<<"dequeue", 0>>>>

test_enqueue_dequeue_with_sleep ==
  Threaded(Each("enqueue", 3), [i \in 1 .. 3 |-> dequeue_with_sleep], <<>>,
           <<<<"size", 0>>>>)

consumer_thread == <<<<"dequeue", 0>>>>
producer_thread == Each("enqueue", Many)

(* The last of the threads produces; it is joined first.                   *)
test_fifo_order ==
  [main |-> Between(Each("create", Many + 1) \o <<<<"join", Many + 1>>>>
                    \o Each("join", Many) \o <<<<"in order", Many>>>>),
   threads |-> [i \in 1 .. Many |-> consumer_thread] \o <<producer_thread>>]

dequeue_thread    == <<<<"dequeue", 0>>>>
enqueue_thread(i) == <<<<"enqueue", i>>>>

test_multiconcurrent_enqueue_dequeue ==
  [main |-> Between(Each("create", 2 * Many)
                    \o [i \in 1 .. Many |-> <<"join", Many + i>>]
                    \o Each("join", Many)
                    \o <<<<"size", 0>>, <<"visited", Many>>, <<"waiting", 0>>>>),
   threads |-> [i \in 1 .. Many |-> dequeue_thread]
               \o [i \in 1 .. Many |-> enqueue_thread(i)]]

test_mixed_operations ==
  Alone(<<<<"enqueue", 1>>, <<"tryDequeue", 0>>, <<"enqueue", 2>>,
          <<"enqueue", 3>>, <<"dequeue", 0>>, <<"enqueue", 4>>>>
        \o Times("tryDequeue", 3)
        \o <<<<"enqueue", 5>>, <<"enqueue", 6>>, <<"drain", 0>>>>)

(* test_edge_cases makes no call but initQueue and destroyQueue either.    *)
Tests ==
  {test_destroyQueue, test_enqueue_dequeue, test_tryDequeue, test_size,
   test_waiting, test_basic_concurrent_enqueue_dequeue, test_fifo_order,
   test_multiconcurrent_enqueue_dequeue, test_enqueue_tryDequeue,
   test_enqueue_dequeue_with_sleep, test_mixed_operations}

-----------------------------------------------------------------------------
VARIABLES
  test,   (* the script that runs                                          *)
  at,     (* the number of a thread's call in it, 0 before its creation    *)
  got,    (* history: the items a thread's calls have returned             *)
  turn    (* history: the number of the request a thread made last         *)

testVars == <<vars, test, at, got, turn>>

Calls(t) == IF t = Main THEN test.main
            ELSE IF t <= Len(test.threads) THEN test.threads[t] ELSE <<>>
Created(t) == at[t] > 0
Ended(t) == Created(t) /\ at[t] > Len(Calls(t))
Op(t)  == IF at[t] \in DOMAIN Calls(t) THEN Calls(t)[at[t]][1] ELSE "none"
Arg(t) == Calls(t)[at[t]][2]

TestInit ==
  /\ Init
  /\ test \in Tests
  /\ at = [t \in Threads |-> IF t = Main THEN 1 ELSE 0]
  /\ got = [t \in Threads |-> <<>>]
  /\ turn = [t \in Threads |-> 0]

Advance(t) == at' = [at EXCEPT ![t] = @ + 1]

-----------------------------------------------------------------------------
createThread(t) ==
  /\ Op(t) = "create"
  /\ at' = [at EXCEPT ![t] = @ + 1, ![Arg(t)] = 1]
  /\ UNCHANGED <<vars, test, got, turn>>

joinThread(t) ==
  /\ Op(t) = "join" /\ Ended(Arg(t))
  /\ Advance(t)
  /\ UNCHANGED <<vars, test, got, turn>>

wholeCall(t) ==
  /\ \/ Op(t) = "initQueue" /\ initQueue(t)
     \/ Op(t) = "destroyQueue" /\ destroyQueue(t)
     \/ Op(t) = "tryDequeue" /\ tryDequeueRefuse(t)
  /\ Advance(t)
  /\ UNCHANGED <<test, got, turn>>

beginEnqueue(t) ==
  /\ Op(t) = "enqueue" /\ enqueue(t, Arg(t))
  /\ UNCHANGED <<test, at, got, turn>>

beginDequeue(t) ==
  /\ \/ Op(t) = "dequeue" /\ (takeHead(t) \/ dequeueWait(t))
     \/ Op(t) = "drain" /\ qSize > 0 /\ (takeHead(t) \/ dequeueWait(t))
     \/ Op(t) \in {"tryDequeue", "poll"} /\ takeHead(t)
  /\ turn' = [turn EXCEPT ![t] = requests']
  /\ UNCHANGED <<test, at, got>>

(* An enqueue, a dequeue and a tryDequeue that found an item go on, and    *)
(* when they return, so does the thread.                                   *)
insideCall(t) ==
  /\ \/ dequeueResume(t) \/ dequeueVisit(t)
  /\ UNCHANGED <<test, at, got, turn>>

endEnqueue(t) ==
  /\ enqueueCount(t) /\ Advance(t)
  /\ UNCHANGED <<test, got, turn>>

endDequeue(t) ==
  /\ dequeueReturn(t)
  /\ got' = [got EXCEPT ![t] = Append(@, local[t])]
  /\ at' = [at EXCEPT ![t] = IF Op(t) = "drain" THEN @ ELSE @ + 1]
  /\ UNCHANGED <<test, turn>>

endDrain(t) ==
  /\ Op(t) = "drain" /\ pc[t] = "idle" /\ qSize = 0
  /\ Advance(t)
  /\ UNCHANGED <<vars, test, got, turn>>

Checks == {"size", "visited", "waiting", "returned", "in order"}

check(t) ==
  /\ Op(t) \in Checks /\ Advance(t)
  /\ UNCHANGED <<vars, test, got, turn>>

ThreadStep(t) ==
  \/ createThread(t) \/ joinThread(t) \/ wholeCall(t) \/ beginEnqueue(t)
  \/ beginDequeue(t) \/ insideCall(t) \/ endEnqueue(t) \/ endDequeue(t)
  \/ endDrain(t) \/ check(t)

TestNext ==
  \/ \E t \in Threads : ThreadStep(t)
  \/ Ended(Main) /\ UNCHANGED testVars

(* No thread stays for ever where it could take a step.  Weak fairness is  *)
(* enough: each thread takes the mutex a bounded number of times, so no    *)
(* competitor can be overtaken for ever.                                   *)
TestSpec ==
  TestInit /\ [][TestNext]_testVars
  /\ \A t \in Threads : WF_testVars(ThreadStep(t))

-----------------------------------------------------------------------------
(* The assertions of the tests (4/test.c:52-113, 175-179, 247-295, 350,    *)
(* 417-421): results come in the order of the items, and after the joins,  *)
(* although no lock is taken, the three counters say what the test         *)
(* expects.  The k-th consumer of test_fifo_order gets the k-th item       *)
(* whenever the consumers asked in the order of their creation, which is   *)
(* what that test's sleeps are for.                                        *)
AssertionsHold ==
  /\ Op(Main) = "returned" => ret[Main] = Arg(Main)
  /\ Op(Main) = "size" => qSize = Arg(Main)
  /\ Op(Main) = "visited" => passingCounter = Arg(Main)
  /\ Op(Main) = "waiting" => dqWaiting = Arg(Main)
  /\ Op(Main) = "in order" =>
       ((\A i \in 1 .. Many : turn[i] = i) => \A i \in 1 .. Many : got[i] = <<i>>)

(* Whoever dequeues frees the item: none is returned twice, to whatever    *)
(* threads, nothing else is returned, and when a test is over every item   *)
(* was returned (test_size leaves its three to destroyQueue).              *)
EveryItemFreedOnce ==
  /\ \A t, u \in Threads : \A i \in DOMAIN got[t], j \in DOMAIN got[u] :
       got[t][i] = got[u][j] => t = u /\ i = j
  /\ \A t \in Threads : Range(got[t]) \subseteq Range(accepted)
  /\ Ended(Main) /\ test # test_size =>
       Range(accepted) = UNION {Range(got[t]) : t \in Threads}

(* Both: a test that passes has also returned each item to one owner, who  *)
(* frees it.                                                               *)
TestsPass == AssertionsHold /\ EveryItemFreedOnce

(* Every test comes to its end, in every order in which the threads run.   *)
TestTerminates == <>Ended(Main)
=============================================================================
