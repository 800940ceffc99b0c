--------------------------- MODULE RecQueueTests ---------------------------
(***************************************************************************)
(* The callers of the queue of 4/rec09_mutex/queue.c: the tests of         *)
(* 4/rec09_mutex/test.c as scripts, with fewer threads and elements, and   *)
(* any program of three threads that call what they like.  Each behaviour  *)
(* is that of one test or of one such program.                             *)
(***************************************************************************)
EXTENDS RecQueue, TestCalls

CONSTANTS
  NumOperations,  (* num_operations of the random operations test          *)
  AnyEnqueues     (* bound: the enqueues of an arbitrary program           *)

Main == 0

ASSUME RecTestsAssumption ==
  NumOperations \in Nat \ {0} /\ AnyEnqueues \in Nat

(* Threads and elements have at least the numbers the scripts use.         *)
NumbersFit ==
  /\ Threads \subseteq Nat /\ 0 .. 4 \subseteq Threads
  /\ 1 .. 6 \subseteq Elems /\ 1 .. NumOperations \subseteq Elems

-----------------------------------------------------------------------------
test_basic_functionality ==
  Alone(Each("enqueue", 3) \o <<<<"size", 3>>>> \o InOrder("dequeue", 3)
        \o <<<<"size", 0>>, <<"visited", 3>>>>)

(* "item == NULL" after a refused tryDequeue reads a variable that nobody  *)
(* has written: only the result is checked here.                           *)
test_edge_cases ==
  Threaded(<<>>, <<<<<<"dequeue", 0>>>>>>,
           <<<<"running", 1>>, <<"enqueue", 1>>>>,
           <<<<"tryDequeue", 0>>, <<"returned", NULL>>, <<"enqueue", 2>>,
             <<"tryDequeue", 0>>, <<"returned", 2>>>>)

(* Two threads enqueue two elements each; two others, created when those   *)
(* were joined, dequeue them.                                              *)
test_concurrency ==
  [main |-> Between(Each("create", 2) \o Each("join", 2)
                    \o <<<<"size", 4>>, <<"create", 3>>, <<"create", 4>>,
                         <<"join", 3>>, <<"join", 4>>, <<"counter", 4>>>>),
   threads |-> <<<<<<"enqueue", 1>>, <<"enqueue", 2>>>>,
                 <<<<"enqueue", 3>>, <<"enqueue", 4>>>>,
                 Times("dequeue", 2), Times("dequeue", 2)>>]

test_visited_count ==
  Alone(Each("enqueue", 2) \o Times("dequeue", 2) \o <<<<"visited", 2>>>>
        \o Each("enqueue", 2) \o Times("dequeue", 2) \o <<<<"visited", 4>>>>)

stress_test ==
  Threaded(<<>>, <<Each("enqueue", 2), Each("enqueue", 2),
                   Times("dequeue", 2), Times("dequeue", 2)>>,
           <<>>, <<<<"counter", 4>>>>)

test_fifo_order == Alone(Each("enqueue", 5) \o InOrder("dequeue", 5))

thread_func == Each("enqueue", 1) \o Times("dequeue", 1)

test_multiple_threads ==
  Threaded(<<>>, [i \in 1 .. 4 |-> thread_func], <<>>, <<<<"counter", 4>>>>)

test_large_data == Alone(Each("enqueue", 6) \o InOrder("dequeue", 6))

test_random_operations ==
  Threaded(<<>>, [i \in 1 .. 2 |-> Each("random", NumOperations)], <<>>, <<>>)

dequeue_and_record == <<<<"dequeue", 0>>, <<"record", 0>>>>

test_thread_wakeup_order ==
  Threaded(<<>>, [i \in 1 .. 3 |-> dequeue_and_record], Each("enqueue", 3),
           <<>>)

(* Not a test: main and two threads, already created, call anything.       *)
AnyProgram ==
  [main |-> <<<<"any", 0>>>>, threads |-> <<<<<<"any", 0>>>>, <<<<"any", 0>>>>>>]

Tests ==
  {test_basic_functionality, test_edge_cases, test_concurrency,
   test_visited_count, stress_test, test_fifo_order, test_multiple_threads,
   test_large_data, test_random_operations, test_thread_wakeup_order}

-----------------------------------------------------------------------------
VARIABLES
  test,          (* the script that runs                                   *)
  at,            (* the number of a thread's call in it, 0 when not created*)
  counter,       (* the dequeues that have returned: counter,              *)
                 (* dequeue_counter                                        *)
  wakeup_order,  (* who recorded itself, in the order of wakeup_index      *)
  turn,          (* history: the number of the request a thread made last  *)
  seen           (* history: the requests that had ended when a thread     *)
                 (* found size() positive, -1 when it did not just do that *)

testVars == <<vars, test, at, counter, wakeup_order, turn, seen>>

Calls(t) == IF t = Main THEN test.main
            ELSE IF t <= Len(test.threads) THEN test.threads[t] ELSE <<>>
Ended(t) == at[t] > Len(Calls(t))
Op(t)  == IF at[t] \in DOMAIN Calls(t) THEN Calls(t)[at[t]][1] ELSE "none"
Arg(t) == Calls(t)[at[t]][2]

RecTestsTypeOK ==
  /\ TypeOK
  /\ test \in Tests \cup {AnyProgram}
  /\ at \in [Threads -> Nat]
  /\ counter \in Nat
  /\ wakeup_order \in Seq(Threads)
  /\ turn \in [Threads -> Nat]
  /\ seen \in [Threads -> Int]

TestInit ==
  /\ Init
  /\ test \in Tests \cup {AnyProgram}
  /\ at = [t \in Threads |-> IF t = Main \/ test = AnyProgram THEN 1 ELSE 0]
  /\ counter = 0 /\ wakeup_order = <<>>
  /\ turn = [t \in Threads |-> 0]
  /\ seen = [t \in Threads |-> -1]

Advance(t) == at' = [at EXCEPT ![t] = @ + 1]

-----------------------------------------------------------------------------
createThread(t) ==
  /\ Op(t) = "create"
  /\ at' = [at EXCEPT ![t] = @ + 1, ![Arg(t)] = 1]
  /\ UNCHANGED <<vars, test, counter, wakeup_order, turn, seen>>

joinThread(t) ==
  /\ Op(t) = "join" /\ at[Arg(t)] > 0 /\ Ended(Arg(t))
  /\ Advance(t)
  /\ UNCHANGED <<vars, test, counter, wakeup_order, turn, seen>>

wholeCall(t) ==
  /\ \/ Op(t) = "initQueue" /\ initQueue(t)
     \/ Op(t) = "destroyQueue" /\ destroyQueue(t)
     \/ Op(t) = "enqueue" /\ enqueue(t, Arg(t))
     \/ Op(t) = "tryDequeue" /\ tryRefuse(t)
  /\ Advance(t)
  /\ UNCHANGED <<test, counter, wakeup_order, turn, seen>>

beginDequeue(t) ==
  /\ \/ Op(t) = "dequeue" /\ (dequeueTake(t) \/ dequeueWait(t))
     \/ Op(t) = "tryDequeue" /\ tryTake(t)
     \/ Op(t) = "random" /\ seen[t] >= 0 /\ (dequeueTake(t) \/ dequeueWait(t))
  /\ turn' = [turn EXCEPT ![t] = requests']
  /\ UNCHANGED <<test, at, counter, wakeup_order, seen>>

insideCall(t) ==
  /\ Op(t) # "any" /\ (resumeLegal(t) \/ dequeueVisit(t))
  /\ UNCHANGED <<test, at, counter, wakeup_order, turn, seen>>

endDequeue(t) ==
  /\ Op(t) # "any" /\ (dequeueEnd(t) \/ tryEnd(t))
  /\ Advance(t)
  /\ counter' = counter + 1
  /\ seen' = [seen EXCEPT ![t] = -1]
  /\ UNCHANGED <<test, wakeup_order, turn>>

(* The lock was released before: others may record themselves first.       *)
record(t) ==
  /\ Op(t) = "record" /\ Advance(t)
  /\ wakeup_order' = Append(wakeup_order, t)
  /\ UNCHANGED <<vars, test, counter, turn, seen>>

(* A round of random_operations: enqueue, or look at size() ...            *)
randomEnqueue(t) ==
  /\ Op(t) = "random" /\ seen[t] < 0 /\ enqueue(t, Arg(t))
  /\ Advance(t)
  /\ UNCHANGED <<test, counter, wakeup_order, turn, seen>>

RequestsEnded == requests - Cardinality({u \in Threads : ticket[u] # 0})

AlwaysTrueBug == TRUE
sizePositive == full_size > 0

(* ... and call dequeue only later, if there was something.                *)
randomSize(t) ==
  /\ Op(t) = "random" /\ seen[t] < 0 /\ pc[t] = "idle"
  /\ \/ sizePositive /\ seen' = [seen EXCEPT ![t] = RequestsEnded]
                     /\ UNCHANGED at
     \/ ~ sizePositive /\ Advance(t) /\ UNCHANGED seen
  /\ UNCHANGED <<vars, test, counter, wakeup_order, turn>>

Checks == {"size", "visited", "returned", "running", "counter"}

check(t) ==
  /\ Op(t) \in Checks /\ Advance(t)
  /\ UNCHANGED <<vars, test, counter, wakeup_order, turn, seen>>

ScriptStep(t) ==
  \/ createThread(t) \/ joinThread(t) \/ wholeCall(t) \/ beginDequeue(t)
  \/ insideCall(t) \/ endDequeue(t) \/ record(t) \/ randomEnqueue(t)
  \/ randomSize(t) \/ check(t)

-----------------------------------------------------------------------------
anyInside(t) ==
  /\ Op(t) = "any" /\ Inside(t)
  /\ UNCHANGED <<test, at, counter, wakeup_order, turn, seen>>

anyCall(t) ==
  /\ Op(t) = "any" /\ Step(t)
  /\ Len(accepted') <= AnyEnqueues /\ Range(accepted') \subseteq {1, 2}
  /\ UNCHANGED <<test, at, counter, wakeup_order, turn, seen>>

TestNext ==
  \/ \E t \in Threads : ScriptStep(t) \/ anyCall(t)
  \/ Ended(Main) /\ UNCHANGED testVars

(* A thread that can run again and again runs: the holder of the mutex     *)
(* goes on, and a signalled thread gets the mutex sooner or later, even if *)
(* others overtake it.  An arbitrary program need not call anything.       *)
TestSpec ==
  /\ TestInit /\ [][TestNext]_testVars
  /\ \A t \in Threads : SF_testVars(ScriptStep(t) \/ anyInside(t))

-----------------------------------------------------------------------------
(* What the tests check before they print PASSED (4/rec09_mutex/test.c:    *)
(* 21-30, 53-68, 112, 125, 143, 153, 203-204, 227, 265, 287): the results  *)
(* come in order, the counters are what the calls so far make them         *)
(* although they are read without the lock, and a dequeue of an empty      *)
(* queue has not returned before something is enqueued.                    *)
TestsPass ==
  /\ Op(Main) = "size" => full_size = Arg(Main)
  /\ Op(Main) = "visited" => visited_elements_num = Arg(Main)
  /\ Op(Main) = "counter" => counter = Arg(Main)
  /\ Op(Main) = "returned" => ret[Main] = Arg(Main)
  /\ Op(Main) = "running" => ~ Ended(Arg(Main))

(* A worker of the random operations test waits in dequeue although it has *)
(* just found size() positive only when another dequeue was under way at   *)
(* that moment, or has begun since: size() alone never misleads it.  When  *)
(* all the others have ended or wait as well, the test hangs here.         *)
WaitsOnlyOnStaleSize ==
  \A t \in Threads : pc[t] = "waiting" /\ seen[t] >= 0 => seen[t] + 1 < turn[t]

(* test_thread_wakeup_order: when a thread has recorded its wake-up, every *)
(* thread that called dequeue before it was woken too.  The records may    *)
(* still come in another order, since the lock is released in between.     *)
NobodyWokenFirst ==
  \A t \in Range(wakeup_order), u \in Threads :
    turn[u] \in 1 .. turn[t] => pc[u] # "waiting"

(* Every test comes to its end, in every order in which the threads run,   *)
(* but for the random operations test, which may hang with some of its     *)
(* workers in dequeue and the others at their end.                         *)
Hangs ==
  /\ test = test_random_operations
  /\ \E t \in {1, 2} : pc[t] = "waiting"
  /\ \A t \in {1, 2} : pc[t] = "waiting" \/ Ended(t)
TestsEnd == <>(test = AnyProgram \/ Ended(Main) \/ Hangs)

(* destroyQueue leaves no thread behind in the queue.                      *)
DestroyReleasesAll == ~ inUse ~> \A t \in Threads : pc[t] = "idle"
=============================================================================
