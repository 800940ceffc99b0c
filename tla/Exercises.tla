----------------------------- MODULE Exercises -----------------------------
(***************************************************************************)
(* The thread exercises of 4/rec08_threads and 4/rec09_mutex.  All have    *)
(* one shape: main creates the threads one after the other, every thread   *)
(* runs its loop over one shared integer and gives a status to thrd_exit,  *)
(* and main joins them in the same order.  Each behaviour is that of the   *)
(* program chosen at the start, with fewer threads and rounds.             *)
(***************************************************************************)
EXTENDS Integers, Sequences, Functions

CONSTANTS
  NUM_THREADS,           (* threads of each program that creates several   *)
  ROUNDS,                (* rounds of mutex_ex1 and mutex_ex2              *)
  TOTAL,                 (* of mutex_ex3                                   *)
  TCOUNT, COUNT_LIMIT,   (* of cond_var_ex1                                *)
  NULL,
  Garbage                (* what a dead frame of the stack may hold        *)

(* As 10 < 12 <= 2 * 10 in cond_var_ex1: neither incrementing thread       *)
(* reaches the limit alone, and both together do.                          *)
ASSUME ExercisesAssumption ==
  /\ NUM_THREADS \in Nat \ {0} /\ ROUNDS \in Nat \ {0}
  /\ TOTAL \in Nat \ {0, 1}
  /\ TCOUNT \in Nat /\ COUNT_LIMIT \in TCOUNT + 1 .. 2 * TCOUNT
  /\ COUNT_LIMIT <= 125
  /\ {NULL, Garbage} \cap Int = {}

Exercise(threads, rounds, initial) ==
  [threads |-> threads, rounds |-> rounds, initial |-> initial]

(* mutex_ex3 and the watcher of cond_var_ex1 do not count their rounds.    *)
Exercises ==
  [simple_thread       |-> Exercise(1, 0, 0),
   return              |-> Exercise(1, 0, 0),
   intermediate_thread |-> Exercise(1, 1, 5),
   hard_thread         |-> Exercise(NUM_THREADS, 0, 0),
   expert_thread       |-> Exercise(NUM_THREADS, 1, 0),
   join_the_creator    |-> Exercise(1, 0, 0),
   mutex_ex1           |-> Exercise(NUM_THREADS, ROUNDS, 0),
   mutex_ex2           |-> Exercise(NUM_THREADS, ROUNDS, 0),
   mutex_ex3           |-> Exercise(NUM_THREADS, 0, 1),
   cond_var_ex1        |-> Exercise(3, TCOUNT, 0)]

Main    == 0
Watcher == 1
Threads == Main .. (IF NUM_THREADS > 3 THEN NUM_THREADS ELSE 3)

VARIABLES
  program,
  created, received,  (* the threads created; the statuses joined so far   *)
  pc,
  i,                  (* the rounds of its loop that a thread has finished *)
  reg,                (* its copy of the shared integer: t, j, *t          *)
  status,             (* what it gave to thrd_exit or returned             *)
  counter,            (* counter, x, *y, count                             *)
  lock,               (* the holder of the mutex, NULL when it is free     *)
  printed             (* the numbers mutex_ex3 called prime, in order      *)

vars == <<program, created, received, pc, i, reg, status, counter, lock,
          printed>>

TypeOK ==
  /\ program \in DOMAIN Exercises
  /\ created \in 0 .. Exercises[program].threads
  /\ Len(received) <= created
  /\ pc \in [Threads -> {"unborn", "create", "start", "locked", "loaded",
                         "stored", "drawn", "watching", "meditating",
                         "signalled", "joins", "done", "killed"}]
  /\ i \in [Threads -> Nat] /\ status \in [Threads -> Nat]
  /\ reg \in [Threads -> Nat \cup {Garbage}]
  /\ counter \in Nat
  /\ lock \in Threads \cup {NULL}
  /\ printed \in Seq(Nat)

Init ==
  /\ program \in DOMAIN Exercises
  /\ created = 0 /\ received = <<>>
  /\ pc = [t \in Threads |-> IF t = Main THEN "create" ELSE "unborn"]
  /\ i = [t \in Threads |-> 0]
  /\ reg = [t \in Threads |-> 0]
  /\ status = [t \in Threads |-> 0]
  /\ counter = Exercises[program].initial
  /\ lock = NULL /\ printed = <<>>

-----------------------------------------------------------------------------
Runs(names) == program \in names
Goto(t, from, to) == pc[t] = from /\ pc' = [pc EXCEPT ![t] = to]
NextRound(t) == i' = [i EXCEPT ![t] = @ + 1]
MoreRounds(t) == i[t] < Exercises[program].rounds
Free == lock = NULL

OneTooManyBug == created <= Exercises[program].threads
moreThreads == created < Exercises[program].threads

createThread ==
  /\ pc[Main] = "create" /\ moreThreads
  /\ created' = created + 1
  /\ pc' = [pc EXCEPT ![created + 1] = "start"]
  /\ UNCHANGED <<program, received, i, reg, status, counter, lock, printed>>

joinThread ==
  /\ pc[Main] = "create" /\ ~ moreThreads
  /\ ~ Runs({"simple_thread", "join_the_creator"})
  /\ Len(received) < created /\ pc[Len(received) + 1] = "done"
  /\ received' = Append(received, status[Len(received) + 1])
  /\ UNCHANGED <<program, created, pc, i, reg, status, counter, lock, printed>>

(* main returns after the last join; simple_thread joins nobody, and the   *)
(* end of main is the end of the process there ...                         *)
returnFromMain ==
  /\ pc[Main] = "create" /\ ~ moreThreads /\ ~ Runs({"join_the_creator"})
  /\ Len(received) = created \/ Runs({"simple_thread"})
  /\ pc' = [t \in Threads |-> IF t = Main THEN "done"
                              ELSE IF pc[t] = "start" THEN "killed" ELSE pc[t]]
  /\ UNCHANGED <<program, created, received, i, reg, status, counter, lock,
                 printed>>

(* ... whereas thrd_exit ends only the thread.                             *)
exitMain ==
  /\ Runs({"join_the_creator"}) /\ ~ moreThreads /\ Goto(Main, "create", "done")
  /\ status' = [status EXCEPT ![Main] = 125]
  /\ UNCHANGED <<program, created, received, i, reg, counter, lock, printed>>

(* thread_func(toWait): the thrd_t is a local variable of main, whose      *)
(* frame is gone and perhaps overwritten when main has left.               *)
readToWait(t) ==
  /\ Runs({"join_the_creator"}) /\ Goto(t, "start", "joins")
  /\ \E id \in {Main} \cup (IF pc[Main] = "done" THEN {Garbage} ELSE {}) :
       reg' = [reg EXCEPT ![t] = id]
  /\ UNCHANGED <<program, created, received, i, status, counter, lock, printed>>

joinCreator(t) ==
  /\ Goto(t, "joins", "done") /\ pc[Main] = "done"
  /\ received' = <<IF reg[t] = Main THEN status[Main] ELSE Garbage>>
  /\ UNCHANGED <<program, created, i, reg, status, counter, lock, printed>>

-----------------------------------------------------------------------------
(* mutex_ex1: ++counter on an atomic_int.                                  *)
incrementAtomic(t) ==
  /\ Runs({"mutex_ex1"}) /\ pc[t] = "start" /\ MoreRounds(t)
  /\ counter' = counter + 1
  /\ NextRound(t)
  /\ UNCHANGED <<program, created, received, pc, reg, status, lock, printed>>

NoLockBug(t) == UNCHANGED lock
mtx_lock(t)  == Free /\ lock' = t

lockToIncrement(t) ==
  /\ Runs({"mutex_ex2", "cond_var_ex1"})
  /\ Runs({"cond_var_ex1"}) => t # Watcher
  /\ MoreRounds(t) /\ Goto(t, "start", "locked") /\ mtx_lock(t)
  /\ UNCHANGED <<program, created, received, i, reg, status, counter, printed>>

(* Without the mutex in expert_thread and intermediate_thread.             *)
load(t) ==
  /\ \/ Goto(t, "locked", "loaded")
     \/ Runs({"expert_thread", "intermediate_thread"})
        /\ MoreRounds(t) /\ Goto(t, "start", "loaded")
  /\ reg' = [reg EXCEPT ![t] = counter]
  /\ UNCHANGED <<program, created, received, i, status, counter, lock, printed>>

store(t) ==
  /\ Goto(t, "loaded", "stored")
  /\ counter' = reg[t] + 1
  /\ UNCHANGED <<program, created, received, i, reg, status, lock, printed>>

(* inc_count signals, with the mutex held, when it reaches the limit.      *)
NeverSignalsBug == FALSE
Signals == Runs({"cond_var_ex1"}) /\ counter = COUNT_LIMIT

endRound(t) ==
  /\ pc[t] = "stored"
  /\ pc' = [u \in Threads |-> IF u = t THEN "start"
                              ELSE IF Signals /\ pc[u] = "meditating"
                              THEN "signalled" ELSE pc[u]]
  /\ lock' = NULL
  /\ NextRound(t)
  /\ UNCHANGED <<program, created, received, reg, status, counter, printed>>

-----------------------------------------------------------------------------
(* mutex_ex3.  is_prime tries the divisors below x / 2, so 4 passes.       *)
BelowTheRootBug(x) == \A d \in 2 .. x : d * d < x => x % d # 0
is_prime(x) == \A d \in 2 .. x \div 2 - 1 : x % d # 0

next_counter(t) ==
  /\ Runs({"mutex_ex3"}) /\ reg[t] < TOTAL /\ Goto(t, "start", "drawn")
  /\ counter' = counter + 1
  /\ reg' = [reg EXCEPT ![t] = counter + 1]
  /\ NextRound(t)
  /\ UNCHANGED <<program, created, received, status, lock, printed>>

prime_print(t) ==
  /\ Goto(t, "drawn", "start")
  /\ printed' = IF is_prime(reg[t]) THEN Append(printed, reg[t]) ELSE printed
  /\ UNCHANGED <<program, created, received, i, reg, status, counter, lock>>

-----------------------------------------------------------------------------
(* watch_count of cond_var_ex1: cnd_wait frees the mutex as it begins to   *)
(* wait, and may return without a signal.                                  *)
mustWait == counter < COUNT_LIMIT

lockToWatch(t) ==
  /\ Runs({"cond_var_ex1"}) /\ t = Watcher
  /\ Goto(t, "start", "watching") /\ mtx_lock(t)
  /\ UNCHANGED <<program, created, received, i, reg, status, counter, printed>>

meditate(t) ==
  /\ mustWait /\ Goto(t, "watching", "meditating") /\ lock' = NULL
  /\ UNCHANGED <<program, created, received, i, reg, status, counter, printed>>

spuriousWakeup(t) ==
  /\ Goto(t, "meditating", "signalled")
  /\ UNCHANGED <<program, created, received, i, reg, status, counter, lock,
                 printed>>

signalReceived(t) ==
  /\ Goto(t, "signalled", "watching") /\ mtx_lock(t)
  /\ counter' = counter + 125
  /\ NextRound(t)
  /\ UNCHANGED <<program, created, received, reg, status, printed>>

stopWatching(t) ==
  /\ ~ mustWait /\ Goto(t, "watching", "done") /\ lock' = NULL
  /\ UNCHANGED <<program, created, received, i, reg, status, counter, printed>>

-----------------------------------------------------------------------------
LoopEnds(t) ==
  /\ ~ Runs({"join_the_creator"})
  /\ Runs({"mutex_ex3"}) => reg[t] >= TOTAL
  /\ Runs({"cond_var_ex1"}) => t # Watcher
  /\ Runs({"mutex_ex2"}) => Free          (* to print the result           *)
  /\ ~ MoreRounds(t)

ExitStatus(t) ==
  CASE Runs({"mutex_ex1", "mutex_ex2"}) -> t - 1
    [] Runs({"mutex_ex3"})              -> i[t]
    [] Runs({"return"})                 -> t + 3
    [] Runs({"intermediate_thread"})    -> counter
    [] OTHER                            -> 0

exitThread(t) ==
  /\ LoopEnds(t) /\ Goto(t, "start", "done")
  /\ status' = [status EXCEPT ![t] = ExitStatus(t)]
  /\ UNCHANGED <<program, created, received, i, reg, counter, lock, printed>>

MainStep == createThread \/ joinThread \/ returnFromMain \/ exitMain

ThreadStep(t) ==
  \/ readToWait(t) \/ joinCreator(t)
  \/ incrementAtomic(t) \/ lockToIncrement(t) \/ load(t) \/ store(t)
  \/ endRound(t)
  \/ next_counter(t) \/ prime_print(t)
  \/ lockToWatch(t) \/ meditate(t) \/ signalReceived(t) \/ stopWatching(t)
  \/ exitThread(t)

Ended == pc[Main] = "done" /\ (Runs({"join_the_creator"}) => pc[1] = "done")

Next ==
  \/ MainStep
  \/ \E t \in Threads \ {Main} : ThreadStep(t) \/ spuriousWakeup(t)
  \/ Ended /\ UNCHANGED vars

(* Every thread that can run does: no loop is endless, so a mutex that is  *)
(* waited for is in the end free for good.  No one promises a spurious     *)
(* wake-up.                                                                *)
FairSpec ==
  /\ Init /\ [][Next]_vars
  /\ WF_vars(MainStep)
  /\ \A t \in Threads \ {Main} : WF_vars(ThreadStep(t))

-----------------------------------------------------------------------------
(* The number a program prints at its end, in whichever order its threads  *)
(* ran: no round is lost with an atomic or with the mutex, mutex_ex3 lets  *)
(* every thread but one draw one number above the limit, the watcher of    *)
(* cond_var_ex1 adds its 125 once or, if it came too late, never, and the  *)
(* unprotected x of expert_thread keeps at least one of the increments.    *)
EndCounts ==
  LET n == Exercises[program].threads IN
  CASE Runs({"mutex_ex1", "mutex_ex2"}) -> {n * ROUNDS}
    [] Runs({"mutex_ex3"})              -> {TOTAL + n - 1}
    [] Runs({"cond_var_ex1"})           ->
         {2 * TCOUNT + 125 * k : k \in {0, 1} \cap {i[Watcher]}}
    [] Runs({"expert_thread"})          -> 1 .. n
    [] Runs({"intermediate_thread"})    -> {6}
    [] OTHER                            -> {0}

FinalCount == Ended => counter \in EndCounts

(* mutex_ex3 draws each number from 2 to the last one exactly once over    *)
(* all its threads, as their statuses say, and prints the primes among     *)
(* them, and 4, once each, in any order.                                   *)
IsPrime(n) == n > 1 /\ \A d \in 2 .. n - 1 : n % d # 0

PrimesPrinted ==
  Ended /\ Runs({"mutex_ex3"}) =>
    /\ SumFunction(received) = counter - 1
    /\ IsInjective(printed)
    /\ Range(printed) = {n \in 2 .. counter : IsPrime(n) \/ n = 4}

(* Every program ends.  The watcher of cond_var_ex1 is not left in         *)
(* cnd_wait, as the comment at cond_var_ex1.c:57-59 promises: the limit is *)
(* tested with the mutex held and reached only once.                       *)
ProgramsEnd == <>Ended
=============================================================================
