-------------------------- MODULE ExercisesProofs --------------------------
(***************************************************************************)
(* The number each thread exercise ends with (4/rec08_threads and          *)
(* 4/rec09_mutex), for any number of threads and rounds: the rounds that   *)
(* were finished are counted, one by one, and compared with the integer    *)
(* that the threads share.  The last part is about the numbers mutex_ex3   *)
(* draws, and those it prints.                                             *)
(***************************************************************************)
EXTENDS Exercises, CommonLemmas

(* The number of threads of the program chosen, and of the rounds of each. *)
N == Exercises[program].threads
R == Exercises[program].rounds

Others  == Threads \ {Main}
Locking == {"mutex_ex2", "cond_var_ex1"}

(* The threads that count their rounds up to R.                            *)
Counting == {t \in 1 .. N : Runs({"cond_var_ex1"}) => t # Watcher}

(* The sizes of the programs.                                              *)
LEMMA Sizes ==
  /\ NUM_THREADS \in Nat \ {0} /\ ROUNDS \in Nat \ {0} /\ TOTAL \in Nat \ {0, 1}
  /\ TCOUNT \in Nat \ {0} /\ COUNT_LIMIT \in Nat \ {0} /\ COUNT_LIMIT <= 125
  /\ NULL \notin Int /\ Garbage \notin Int
  /\ Threads \subseteq Nat /\ 0 \in Threads /\ 1 \in Threads /\ IsFiniteSet(Threads)
<1>1. /\ NUM_THREADS \in Nat \ {0} /\ ROUNDS \in Nat \ {0} /\ TOTAL \in Nat \ {0, 1}
      /\ TCOUNT \in Nat /\ COUNT_LIMIT \in TCOUNT + 1 .. 2 * TCOUNT
      /\ COUNT_LIMIT <= 125
      /\ NULL \notin Int /\ Garbage \notin Int
  BY ExercisesAssumption
<1>2. Threads = 0 .. (IF NUM_THREADS > 3 THEN NUM_THREADS ELSE 3)
  BY DEF Threads, Main
<1>3. IsFiniteSet(Threads)
  BY <1>1, <1>2, FS_Interval
<1> QED BY <1>1, <1>2, <1>3

(* What each program asks for: its threads, its rounds, what its integer   *)
(* starts with.                                                            *)
LEMMA Programs ==
  ASSUME program \in DOMAIN Exercises
  PROVE  /\ N \in Nat \ {0} /\ R \in Nat /\ 1 .. N \subseteq Others
         /\ Runs({"mutex_ex1", "mutex_ex2"}) => N = NUM_THREADS /\ R = ROUNDS
         /\ Runs({"mutex_ex3"}) => N = NUM_THREADS /\ R = 0
         /\ Runs({"cond_var_ex1"}) => N = 3 /\ R = TCOUNT
         /\ Runs({"expert_thread"}) => N = NUM_THREADS /\ R = 1
         /\ Runs({"intermediate_thread"}) => N = 1 /\ R = 1
         /\ Runs({"simple_thread", "return", "hard_thread", "join_the_creator"})
              => R = 0
         /\ Runs({"simple_thread", "join_the_creator"}) => N = 1
         /\ Exercises[program].initial =
              IF Runs({"intermediate_thread"}) THEN 5
              ELSE IF Runs({"mutex_ex3"}) THEN 1 ELSE 0
         /\ program \in {"simple_thread", "return", "intermediate_thread",
                         "hard_thread", "expert_thread", "join_the_creator",
                         "mutex_ex1", "mutex_ex2", "mutex_ex3", "cond_var_ex1"}
<1>1. program \in {"simple_thread", "return", "intermediate_thread",
                   "hard_thread", "expert_thread", "join_the_creator",
                   "mutex_ex1", "mutex_ex2", "mutex_ex3", "cond_var_ex1"}
  BY DEF Exercises
<1>2. /\ N \in {1, 3, NUM_THREADS} /\ R \in Nat
      /\ Runs({"mutex_ex1", "mutex_ex2"}) => N = NUM_THREADS /\ R = ROUNDS
      /\ Runs({"mutex_ex3"}) => N = NUM_THREADS /\ R = 0
      /\ Runs({"cond_var_ex1"}) => N = 3 /\ R = TCOUNT
      /\ Runs({"expert_thread"}) => N = NUM_THREADS /\ R = 1
      /\ Runs({"intermediate_thread"}) => N = 1 /\ R = 1
      /\ Runs({"simple_thread", "return", "hard_thread", "join_the_creator"})
           => R = 0
      /\ Runs({"simple_thread", "join_the_creator"}) => N = 1
      /\ Exercises[program].initial =
           IF Runs({"intermediate_thread"}) THEN 5
           ELSE IF Runs({"mutex_ex3"}) THEN 1 ELSE 0
  BY <1>1, Sizes DEF Exercises, Exercise, N, R, Runs
<1>3. 1 .. N \subseteq Others
  BY <1>2, Sizes DEF Others, Threads, Main
<1> QED BY <1>1, <1>2, <1>3, Sizes

-----------------------------------------------------------------------------
(* Which places a program has, who holds the mutex, who was born.          *)
Places ==
  /\ pc[Main] \in {"create", "done"}
  /\ ~ Runs({"join_the_creator"}) =>
       \A t \in 1 .. Len(received) : pc[t] = "done"
  /\ \A t \in Others :
       /\ pc[t] # "create"
       /\ pc[t] = "unborn" <=> t > created
       /\ pc[t] = "locked" => Runs(Locking)
       /\ pc[t] \in {"locked", "loaded", "stored"} =>
            /\ t \in Counting
            /\ Runs({"mutex_ex2", "cond_var_ex1", "expert_thread",
                     "intermediate_thread"})
       /\ pc[t] = "drawn" => Runs({"mutex_ex3"})
       /\ pc[t] \in {"watching", "meditating", "signalled"} =>
            Runs({"cond_var_ex1"}) /\ t = Watcher
       /\ pc[t] = "joins" => Runs({"join_the_creator"})
       /\ pc[t] = "killed" => Runs({"simple_thread"})

(* Whoever is between mtx_lock and mtx_unlock holds the mutex.             *)
Mutex ==
  Runs(Locking) =>
    \A t \in Others : pc[t] \in {"locked", "loaded", "stored", "watching"} => lock = t

(* Only join_the_creator can have read a dead frame of the stack.          *)
Numbers ==
  /\ received \in Seq(Nat \cup {Garbage})
  /\ ~ Runs({"join_the_creator"}) => \A t \in Threads : reg[t] \in Nat

Shape == TypeOK /\ Numbers /\ Places /\ Mutex

(* What a program starts with, and its rounds, are numbers.                *)
LEMMA InitialNumber == TypeOK => Exercises[program].initial \in Nat
<1> SUFFICES ASSUME TypeOK PROVE Exercises[program].initial \in Nat
  OBVIOUS
<1>1. program \in DOMAIN Exercises
  BY DEF TypeOK
<1>2. Exercises[program].initial =
        IF Runs({"intermediate_thread"}) THEN 5
        ELSE IF Runs({"mutex_ex3"}) THEN 1 ELSE 0
  BY <1>1, Programs
<1> QED BY <1>2

LEMMA NextRoundNumber ==
  ASSUME TypeOK, NEW t \in Threads, NextRound(t) PROVE i' \in [Threads -> Nat]
<1>1. i \in [Threads -> Nat] /\ i[t] + 1 \in Nat
  BY DEF TypeOK
<1> QED BY <1>1 DEF NextRound

(* A program that has just started has this shape.                         *)
LEMMA ShapeInit == Init => Shape
<1> SUFFICES ASSUME Init PROVE Shape
  OBVIOUS
<1>1. program \in DOMAIN Exercises /\ N \in Nat \ {0} /\ counter \in Nat
  BY Programs DEF Init
<1>2. TypeOK
  <2>1. created = 0 /\ received = <<>> /\ lock = NULL /\ printed = <<>>
    BY DEF Init
  <2>2. pc \in [Threads -> {"unborn", "create", "start", "locked", "loaded",
                            "stored", "drawn", "watching", "meditating",
                            "signalled", "joins", "done", "killed"}]
    BY DEF Init
  <2>3. i \in [Threads -> Nat] /\ status \in [Threads -> Nat]
        /\ reg \in [Threads -> Nat \cup {Garbage}]
    BY DEF Init
  <2> QED BY <1>1, <2>1, <2>2, <2>3 DEF TypeOK, N
<1>3. Numbers
  BY DEF Init, Numbers
<1>4. Places
  BY Sizes DEF Init, Places, Others, Main
<1>5. Mutex
  BY DEF Init, Mutex, Others
<1> QED BY <1>2, <1>3, <1>4, <1>5 DEF Shape

(* The steps of main keep it: thread creation, the joins, and the return   *)
(* that kills what simple_thread left behind.                              *)
LEMMA ShapeMain == ASSUME Shape, MainStep PROVE Shape'
<1>0. /\ N \in Nat \ {0} /\ 1 .. N \subseteq Others /\ created \in 0 .. N
      /\ Threads \subseteq Nat /\ 0 \in Threads /\ pc[Main] \in {"create", "done"}
  BY Programs, Sizes DEF Shape, TypeOK, N, Places
<1>1. CASE createThread
  <2> USE <1>1 DEF createThread, moreThreads
  <2>1. /\ created + 1 \in Others /\ created + 1 \in Threads
        /\ pc[created + 1] = "unborn"
        /\ created + 1 \in 0 .. N /\ created + 1 \in 1 .. N /\ created \in Nat
    BY <1>0 DEF N, Others, Shape, Places
  <2>2. TypeOK'
    BY <2>1 DEF Shape, TypeOK, N
  <2>3. Numbers'
    BY DEF Shape, Numbers, Runs
  <2>4. Places'
    <3>1. \A t \in Others : pc'[t] = (IF t = created + 1 THEN "start" ELSE pc[t])
      BY DEF Shape, TypeOK, Others
    <3>2. pc'[Main] = pc[Main]
      BY <1>0 DEF Shape, TypeOK, Main
    <3>3. \A t \in Others : (t > created + 1) <=> (t > created /\ t # created + 1)
      BY <1>0 DEF Others
    <3>4. \A t \in 1 .. Len(received) : t \in Others /\ t # created + 1
      <4>1. Len(received) \in Nat /\ Len(received) <= created
        BY LenProperties DEF Shape, TypeOK, Numbers
      <4>2. \A t \in 1 .. Len(received) : t \in 1 .. N /\ t # created + 1
        BY <4>1, <1>0, <2>1
      <4> QED BY <4>2, <1>0
    <3> QED BY <3>1, <3>2, <3>3, <3>4, <2>1 DEF Shape, Places, Runs, Counting, N
  <2>5. Mutex'
    BY DEF Shape, TypeOK, Mutex, Runs, Others
  <2> QED BY <2>2, <2>3, <2>4, <2>5 DEF Shape
<1>2. CASE joinThread
  <2> USE <1>2 DEF joinThread
  <2>1. Len(received) + 1 \in Others /\ Len(received) \in Nat
    BY <1>0, LenProperties DEF Shape, Numbers
  <2>2. /\ received' \in Seq(Nat \cup {Garbage})
        /\ Len(received') = Len(received) + 1
    <3>1. status[Len(received) + 1] \in Nat \cup {Garbage}
      BY <2>1 DEF Others, Shape, TypeOK
    <3> QED BY <3>1, AppendElements DEF Shape, Numbers
  <2>3. TypeOK'
    <3>1. created \in Nat /\ Len(received) < created /\ created' = created
      BY <1>0
    <3>2. Len(received') <= created'
      BY <2>1, <2>2, <3>1
    <3> QED BY <3>2 DEF Shape, TypeOK
  <2>4. Numbers'
    BY <2>2 DEF Shape, Numbers, Runs
  <2>5. \A t \in 1 .. Len(received') : t \in 1 .. Len(received) \/ t = Len(received) + 1
    BY <2>1, <2>2
  <2>6. Places' /\ Mutex'
    BY <2>5 DEF Shape, Places, Mutex, Runs, Counting, N
  <2> QED BY <2>3, <2>4, <2>6 DEF Shape
<1>3. CASE returnFromMain
  <2> USE <1>3 DEF returnFromMain
  <2>1. /\ \A t \in Others : pc'[t] = (IF pc[t] = "start" THEN "killed" ELSE pc[t])
        /\ pc'[Main] = "done"
    BY <1>0 DEF Others, Main
  <2>2. TypeOK'
    <3>1. pc' \in [Threads -> {"unborn", "create", "start", "locked", "loaded",
                               "stored", "drawn", "watching", "meditating",
                               "signalled", "joins", "done", "killed"}]
      BY DEF Shape, TypeOK
    <3> QED BY <3>1 DEF Shape, TypeOK
  <2>3. Numbers'
    BY DEF Shape, Numbers, Runs
  <2>4. \A t \in 1 .. Len(received) : t \in Others
    BY <1>0 DEF Shape, TypeOK, Numbers
  <2>5. \A t \in Others : pc[t] = "start" => Runs({"simple_thread"})
    <3> SUFFICES ASSUME NEW t \in Others, pc[t] = "start", ~ Runs({"simple_thread"})
                 PROVE  FALSE
      OBVIOUS
    <3>1. Len(received) = created /\ t \in Nat \ {0} /\ ~ (t > created)
      BY <1>0 DEF Shape, Places, Others, Main
    <3>2. t \in 1 .. Len(received)
      BY <3>1, <1>0
    <3> QED BY <3>2 DEF Shape, Places
  <2>6. Places'
    BY <2>1, <2>4, <2>5 DEF Shape, Places, Runs, Counting, N
  <2>7. Mutex'
    BY <2>1 DEF Shape, Mutex, Runs
  <2> QED BY <2>2, <2>3, <2>6, <2>7 DEF Shape
<1>4. CASE exitMain
  <2> USE <1>4 DEF exitMain, Goto
  <2>1. /\ \A t \in Others : pc'[t] = pc[t]
        /\ pc'[Main] = "done" /\ ~ Runs(Locking)
    BY <1>0 DEF Others, Shape, TypeOK, Runs, Locking, Main
  <2>2. TypeOK'
    BY <1>0 DEF Shape, TypeOK
  <2>3. Numbers'
    BY DEF Shape, Numbers, Runs
  <2>4. Places' /\ Mutex'
    BY <2>1 DEF Shape, Places, Mutex, Runs, Counting, N
  <2> QED BY <2>2, <2>3, <2>4 DEF Shape
<1> QED BY <1>1, <1>2, <1>3, <1>4 DEF MainStep

(* A step of a thread changes the place of that thread, and of one that it *)
(* signals.                                                                *)
LEMMA ShapeThread ==
  ASSUME Shape, NEW t \in Others, ThreadStep(t) \/ spuriousWakeup(t)
  PROVE  Shape'
<1>0. /\ N \in Nat \ {0} /\ 1 .. N \subseteq Others /\ created \in 0 .. N
      /\ Threads \subseteq Nat /\ 0 \in Threads /\ t \in Threads /\ t \in Nat \ {0}
      /\ t # Main /\ Main \in Threads
      /\ program \in DOMAIN Exercises
  BY Programs, Sizes DEF Shape, TypeOK, N, Others, Main
<1>1. UNCHANGED <<program, created>>
  BY DEF ThreadStep, readToWait, joinCreator, incrementAtomic, lockToIncrement, load,
         store, endRound, next_counter, prime_print, lockToWatch, meditate,
         signalReceived, stopWatching, exitThread, spuriousWakeup
<1>2. TypeOK' /\ Numbers'
  <2>1. CASE readToWait(t)
    <3>1. PICK id \in {Main, Garbage} : reg' = [reg EXCEPT ![t] = id]
      BY <2>1 DEF readToWait
    <3>2. id \in Nat \cup {Garbage}
      BY DEF Main
    <3>3. reg' \in [Threads -> Nat \cup {Garbage}] /\ Runs({"join_the_creator"})
      BY <2>1, <3>1, <3>2 DEF Shape, TypeOK, readToWait
    <3>4. TypeOK'
      BY <2>1, <3>3 DEF readToWait, Goto, Shape, TypeOK
    <3> QED BY <2>1, <3>3, <3>4 DEF readToWait, Shape, Numbers, Runs
  <2>2. CASE joinCreator(t)
    <3>1. created >= 1 /\ Runs({"join_the_creator"})
      BY <2>2, <1>0 DEF joinCreator, Goto, Shape, Places
    <3>2. /\ received' \in Seq(Nat \cup {Garbage}) /\ Len(received') = 1
      <4>1. status[Main] \in Nat
        BY <1>0 DEF Shape, TypeOK
      <4> QED BY <2>2, <4>1 DEF joinCreator
    <3>3. TypeOK'
      BY <2>2, <3>1, <3>2, <1>0 DEF joinCreator, Goto, Shape, TypeOK
    <3> QED BY <2>2, <3>1, <3>2, <3>3 DEF joinCreator, Numbers, Runs
  <2>3. CASE incrementAtomic(t)
    <3>0. i' \in [Threads -> Nat]
      BY <2>3, <1>0, NextRoundNumber DEF incrementAtomic, Shape
    <3>1. counter' \in Nat /\ i' \in [Threads -> Nat]
      BY <2>3, <3>0 DEF incrementAtomic, Shape, TypeOK
    <3>2. TypeOK'
      BY <2>3, <3>1 DEF incrementAtomic, Shape, TypeOK
    <3> QED BY <2>3, <3>2 DEF incrementAtomic, Shape, Numbers, Runs
  <2>4. CASE \/ lockToIncrement(t) \/ lockToWatch(t) \/ meditate(t)
             \/ stopWatching(t) \/ spuriousWakeup(t)
    <3>1. TypeOK'
      BY <2>4, <1>0 DEF lockToIncrement, lockToWatch, meditate, stopWatching,
                        spuriousWakeup, mtx_lock, Goto, Shape, TypeOK
    <3> QED BY <2>4, <3>1 DEF lockToIncrement, lockToWatch, meditate, stopWatching,
                              spuriousWakeup, Goto, Shape, Numbers, Runs
  <2>5. CASE load(t)
    <3>1. ~ Runs({"join_the_creator"})
      BY <2>5 DEF load, Goto, Runs, Shape, Places, Locking
    <3>2. TypeOK'
      BY <2>5, <1>0 DEF load, Goto, Shape, TypeOK
    <3>3. reg' = [reg EXCEPT ![t] = counter] /\ counter \in Nat
      BY <2>5 DEF load, Shape, TypeOK
    <3>4. \A u \in Threads : reg'[u] \in Nat
      BY <3>1, <3>3 DEF Shape, Numbers, TypeOK
    <3> QED BY <2>5, <3>2, <3>4 DEF load, Goto, Shape, Numbers, Runs
  <2>6. CASE store(t)
    <3>1. ~ Runs({"join_the_creator"})
      BY <2>6 DEF store, Goto, Runs, Shape, Places
    <3>2. counter' \in Nat
      BY <2>6, <3>1, <1>0 DEF store, Shape, Numbers
    <3>3. TypeOK'
      BY <2>6, <3>2, <1>0 DEF store, Goto, Shape, TypeOK
    <3> QED BY <2>6, <3>3 DEF store, Goto, Shape, Numbers, Runs
  <2>7. CASE endRound(t)
    <3>1. pc' \in [Threads -> {"unborn", "create", "start", "locked", "loaded",
                               "stored", "drawn", "watching", "meditating",
                               "signalled", "joins", "done", "killed"}]
      BY <2>7 DEF endRound, Shape, TypeOK
    <3>2. i' \in [Threads -> Nat]
      BY <2>7, <1>0, NextRoundNumber DEF endRound, Shape
    <3>3. TypeOK'
      BY <2>7, <3>1, <3>2 DEF endRound, Shape, TypeOK
    <3> QED BY <2>7, <3>3 DEF endRound, Shape, Numbers, Runs
  <2>8. CASE next_counter(t)
    <3>9. i' \in [Threads -> Nat]
      BY <2>8, <1>0, NextRoundNumber DEF next_counter, Shape
    <3>0. counter' \in Nat /\ counter + 1 \in Nat /\ i' \in [Threads -> Nat]
      <4>1. counter \in Nat
        BY DEF Shape, TypeOK
      <4> QED BY <2>8, <3>9, <4>1 DEF next_counter
    <3>1. TypeOK'
      BY <2>8, <3>0 DEF next_counter, Goto, Shape, TypeOK
    <3>2. \A u \in Threads : reg'[u] \in Nat
      BY <2>8, <3>0 DEF next_counter, Shape, Numbers, TypeOK, Runs
    <3> QED BY <2>8, <3>1, <3>2 DEF next_counter, Shape, Numbers
  <2>9. CASE prime_print(t)
    <3>1. reg[t] \in Nat
      BY <2>9, <1>0 DEF prime_print, Goto, Shape, Numbers, Places, Runs
    <3>2. printed' \in Seq(Nat)
      BY <2>9, <3>1, AppendElements DEF prime_print, Shape, TypeOK
    <3>3. TypeOK'
      BY <2>9, <3>2 DEF prime_print, Goto, Shape, TypeOK
    <3> QED BY <2>9, <3>3 DEF prime_print, Shape, Numbers, Runs
  <2>10. CASE signalReceived(t)
    <3>0. i' \in [Threads -> Nat]
      BY <2>10, <1>0, NextRoundNumber DEF signalReceived, Shape
    <3>1. counter' \in Nat /\ i' \in [Threads -> Nat]
      BY <2>10, <3>0 DEF signalReceived, Shape, TypeOK
    <3>2. TypeOK'
      BY <2>10, <3>1, <1>0 DEF signalReceived, mtx_lock, Goto, Shape, TypeOK
    <3> QED BY <2>10, <3>2 DEF signalReceived, Shape, Numbers, Runs
  <2>11. CASE exitThread(t)
    <3>1. ExitStatus(t) \in Nat
      <4>1. counter \in Nat /\ i[t] \in Nat /\ t - 1 \in Nat /\ t + 3 \in Nat
        BY <1>0 DEF Shape, TypeOK
      <4> QED BY <4>1 DEF ExitStatus
    <3>2. TypeOK'
      BY <2>11, <3>1 DEF exitThread, Goto, Shape, TypeOK
    <3> QED BY <2>11, <3>2 DEF exitThread, Shape, Numbers, Runs
  <2> QED BY <2>1, <2>2, <2>3, <2>4, <2>5, <2>6, <2>7, <2>8, <2>9, <2>10, <2>11
          DEF ThreadStep
<1>3. Places'
  <2> USE <1>1 DEF Shape, TypeOK, Runs, Others, Counting, N
  <2>1. Len(received') = Len(received) \/ Runs({"join_the_creator"})
    BY DEF Places, ThreadStep, readToWait, joinCreator, incrementAtomic,
           lockToIncrement, load, store, endRound, next_counter, prime_print,
           lockToWatch, meditate, signalReceived, stopWatching, exitThread,
           spuriousWakeup, Goto
  <2>2. pc'[Main] = pc[Main]
    BY <1>0 DEF Places, ThreadStep, readToWait, joinCreator, incrementAtomic,
           lockToIncrement, load, store, endRound, next_counter, prime_print,
           lockToWatch, meditate, signalReceived, stopWatching, exitThread,
           spuriousWakeup, Goto
  <2>3. \A u \in Others : u # t =>
          \/ pc'[u] = pc[u]
          \/ pc[u] = "meditating" /\ pc'[u] = "signalled"
    BY <1>0 DEF ThreadStep, readToWait, joinCreator, incrementAtomic, lockToIncrement,
           load, store, endRound, next_counter, prime_print, lockToWatch, meditate,
           signalReceived, stopWatching, exitThread, spuriousWakeup, Goto
  <2>4. /\ pc[t] # "unborn" /\ pc[t] # "done" /\ pc'[t] # "unborn" /\ pc'[t] # "create"
        /\ pc'[t] # "killed"
    BY DEF ThreadStep, readToWait, joinCreator, incrementAtomic, lockToIncrement,
           load, store, endRound, next_counter, prime_print, lockToWatch, meditate,
           signalReceived, stopWatching, exitThread, spuriousWakeup, Goto
  <2>5. /\ pc'[t] = "locked" => Runs(Locking)
        /\ pc'[t] \in {"locked", "loaded", "stored"} =>
             Runs({"mutex_ex2", "cond_var_ex1", "expert_thread", "intermediate_thread"})
        /\ pc'[t] = "drawn" => Runs({"mutex_ex3"})
        /\ pc'[t] \in {"watching", "meditating", "signalled"} =>
             Runs({"cond_var_ex1"}) /\ t = Watcher
        /\ pc'[t] = "joins" => Runs({"join_the_creator"})
    BY DEF Places, Locking, ThreadStep, readToWait, joinCreator, incrementAtomic,
           lockToIncrement, load, store, endRound, next_counter, prime_print,
           lockToWatch, meditate, signalReceived, stopWatching, exitThread,
           spuriousWakeup, Goto
  <2>6. pc'[t] \in {"locked", "loaded", "stored"} => t \in Counting
    <3>1. t \in 1 .. N
      <4>1. t <= created
        BY <1>0, <2>4 DEF Places
      <4>2. t \in Nat \ {0} /\ created \in 0 .. N /\ N \in Nat
        BY <1>0
      <4> QED BY <4>1, <4>2
    <3> QED
      BY <3>1
      DEF Places, Locking, ThreadStep, readToWait, joinCreator, incrementAtomic,
          lockToIncrement, load, store, endRound, next_counter, prime_print,
          lockToWatch, meditate, signalReceived, stopWatching, exitThread,
          spuriousWakeup, Goto
  <2>7. ASSUME ~ Runs({"join_the_creator"})
        PROVE  \A u \in 1 .. Len(received') : pc'[u] = "done"
    <3>1. Len(received') = Len(received) /\ Len(received) \in Nat
          /\ Len(received) <= created
      BY <2>1, <2>7, LenProperties DEF Numbers
    <3>2. \A u \in 1 .. Len(received) : u \in 1 .. N
      BY <3>1, <1>0
    <3>3. \A u \in 1 .. Len(received) : u \in Others /\ pc[u] = "done" /\ u # t
      BY <3>2, <2>4, <2>7, <1>0 DEF Places
    <3> QED BY <3>1, <3>3, <2>3
  <2>8. \A u \in Others : u # t =>
          /\ pc'[u] # "create"
          /\ pc'[u] = "unborn" <=> u > created
          /\ pc'[u] = "locked" => Runs(Locking)
          /\ pc'[u] \in {"locked", "loaded", "stored"} =>
               /\ u \in Counting
               /\ Runs({"mutex_ex2", "cond_var_ex1", "expert_thread",
                        "intermediate_thread"})
          /\ pc'[u] = "drawn" => Runs({"mutex_ex3"})
          /\ pc'[u] \in {"watching", "meditating", "signalled"} =>
               Runs({"cond_var_ex1"}) /\ u = Watcher
          /\ pc'[u] = "joins" => Runs({"join_the_creator"})
          /\ pc'[u] = "killed" => Runs({"simple_thread"})
    BY <2>3 DEF Places
  <2>9. (pc'[t] = "unborn") <=> (t > created)
    BY <2>4 DEF Places
  <2> QED BY <2>2, <2>4, <2>5, <2>6, <2>7, <2>8, <2>9 DEF Places
<1>4. Mutex'
  <2> USE <1>1 DEF Shape, TypeOK, Runs, Others
  <2>1. SUFFICES ASSUME Runs(Locking)
                 PROVE  \A u \in Others :
                          pc'[u] \in {"locked", "loaded", "stored", "watching"}
                            => lock' = u
    BY DEF Mutex
  <2>2. \A u \in Others :
          pc[u] \in {"locked", "loaded", "stored", "watching"} => lock = u
    BY <2>1 DEF Mutex
  <2>3. \A u \in Others : u # NULL
    BY Sizes
  <2>4. \A u \in Others : u # t =>
          (pc'[u] \in {"locked", "loaded", "stored", "watching"} =>
             pc[u] \in {"locked", "loaded", "stored", "watching"})
    BY <1>0 DEF ThreadStep, readToWait, joinCreator, incrementAtomic, lockToIncrement,
           load, store, endRound, next_counter, prime_print, lockToWatch, meditate,
           signalReceived, stopWatching, exitThread, spuriousWakeup, Goto
  <2>5. \/ lock' = lock
        \/ lock = NULL
        \/ pc[t] \in {"stored", "watching"}
    BY DEF ThreadStep, readToWait, joinCreator, incrementAtomic, lockToIncrement,
           load, store, endRound, next_counter, prime_print, lockToWatch, meditate,
           signalReceived, stopWatching, exitThread, spuriousWakeup, mtx_lock, Free, Goto
  <2>6. \A u \in Others : u # t =>
          (pc[u] \in {"locked", "loaded", "stored", "watching"} => lock' = u)
    BY <2>2, <2>3, <2>5, <1>0
  <2>7. pc'[t] \in {"locked", "loaded", "stored", "watching"} =>
          \/ lock' = t
          \/ lock' = lock /\ pc[t] \in {"locked", "loaded", "stored", "watching"}
    BY <1>0, <2>1 DEF Locking, ThreadStep, readToWait, joinCreator, incrementAtomic,
           lockToIncrement, load, store, endRound, next_counter, prime_print,
           lockToWatch, meditate, signalReceived, stopWatching, exitThread,
           spuriousWakeup, mtx_lock, Goto
  <2> QED BY <2>2, <2>4, <2>6, <2>7, <1>0
<1> QED BY <1>2, <1>3, <1>4 DEF Shape
-----------------------------------------------------------------------------
(* The rounds are not exceeded, a thread that exits has done them, and     *)
(* main returns when it has joined all.                                    *)
Progress ==
  /\ ~ Runs({"mutex_ex3"}) =>
       \A t \in Counting :
         /\ i[t] <= R
         /\ pc[t] \in {"locked", "loaded", "stored"} => i[t] < R
         /\ pc[t] = "done" => i[t] = R
  /\ Runs({"mutex_ex3"}) => \A t \in Others : pc[t] = "done" => reg[t] >= TOTAL
  /\ pc[Main] = "done" /\ ~ Runs({"simple_thread", "join_the_creator"}) =>
       Len(received) = N

(* Every increment that reached the shared integer, as a thread and the    *)
(* number of its round.                                                    *)
Stored(t) == IF pc[t] = "stored" THEN i[t] + 1 ELSE i[t]
Stores == {x \in Counting \X (1 .. R) : x[2] <= Stored(x[1])}

(* The watcher adds its 125 once, when it has waited; the limit is reached *)
(* then, so that it does not wait again.                                   *)
Watched ==
  Runs({"cond_var_ex1"}) =>
    /\ i[Watcher] \in {0, 1}
    /\ pc[Watcher] \in {"unborn", "start", "meditating", "signalled"} =>
         i[Watcher] = 0
    /\ i[Watcher] = 1 => ~ mustWait

(* What the watcher added.                                                 *)
Added == IF Runs({"cond_var_ex1"}) THEN 125 * i[Watcher] ELSE 0

(* Nobody stores over an increment that it has not read ...                *)
Exact ==
  ~ Runs({"expert_thread", "mutex_ex3"}) =>
    /\ counter = Exercises[program].initial + Cardinality(Stores) + Added
    /\ \A t \in Counting : pc[t] = "loaded" => reg[t] = counter

(* ... but in expert_thread, where the first one stays.                    *)
Inexact ==
  Runs({"expert_thread"}) =>
    /\ counter <= Cardinality(Stores)
    /\ Stores # {} => counter >= 1
    /\ \A t \in Counting : pc[t] = "loaded" => reg[t] <= Cardinality(Stores)

(* mutex_ex3: the threads that drew a number above the limit, or the limit *)
(* itself, drew different ones.                                            *)
Drawn == CountIn(1 .. N, reg, {n \in Nat : n >= TOTAL})
Draws ==
  Runs({"mutex_ex3"}) =>
    /\ counter >= 1
    /\ \A t \in 1 .. N : reg[t] <= counter
    /\ Drawn = IF counter < TOTAL THEN 0 ELSE counter - TOTAL + 1

(* The increments are finitely many.                                       *)
LEMMA Numbered ==
  ASSUME Shape
  PROVE  /\ IsFiniteSet(Counting) /\ IsFiniteSet(Counting \X (1 .. R))
         /\ IsFiniteSet(Stores) /\ Cardinality(Stores) \in Nat
         /\ Stores = {} <=> Cardinality(Stores) = 0
         /\ Counting \subseteq Others
         /\ \A t \in Counting : i[t] \in Nat /\ Stored(t) \in Nat
<1>1. /\ N \in Nat \ {0} /\ R \in Nat /\ 1 .. N \subseteq Others
  BY Programs DEF Shape, TypeOK
<1>2. IsFiniteSet(1 .. N) /\ IsFiniteSet(1 .. R)
  BY <1>1, FS_Interval
<1>3. IsFiniteSet(Counting) /\ Counting \subseteq Others
  BY <1>1, <1>2, FS_Subset DEF Counting
<1>4. IsFiniteSet(Counting \X (1 .. R))
  BY <1>2, <1>3, FS_Product
<1>5. IsFiniteSet(Stores)
  BY <1>4, FS_Subset DEF Stores
<1>6. \A t \in Counting : i[t] \in Nat /\ Stored(t) \in Nat
  BY <1>3 DEF Shape, TypeOK, Stored, Others
<1> QED BY <1>3, <1>4, <1>5, <1>6, FS_CardinalityType, FS_EmptySet

(* Steps that store nothing.                                               *)
LEMMA SameStores ==
  ASSUME UNCHANGED program, \A u \in Counting : Stored(u)' = Stored(u)
  PROVE  Stores' = Stores /\ Counting' = Counting /\ N' = N /\ R' = R
<1>1. Counting' = Counting /\ N' = N /\ R' = R
  BY DEF Counting, N, R, Runs
<1>2. Stores' = Stores
  BY <1>1 DEF Stores
<1> QED BY <1>1, <1>2

(* And those that store once more.                                         *)
LEMMA MoreStores ==
  ASSUME Shape, UNCHANGED program, NEW t \in Counting,
         Stored(t) < R, Stored(t)' = Stored(t) + 1,
         \A u \in Counting \ {t} : Stored(u)' = Stored(u)
  PROVE  /\ Cardinality(Stores') = Cardinality(Stores) + 1
         /\ Counting' = Counting /\ N' = N /\ R' = R
<1>1. Counting' = Counting /\ N' = N /\ R' = R
  BY DEF Counting, N, R, Runs
<1>2. PICK s \in Nat : s = Stored(t)
  BY Numbered
<1>3. /\ R \in Nat /\ IsFiniteSet(Stores)
      /\ s + 1 \in 1 .. R
  BY <1>2, Programs, Numbered DEF Shape, TypeOK
<1>4. <<t, s + 1>> \notin Stores
  BY <1>2 DEF Stores
<1>5. Stores' = Stores \cup {<<t, s + 1>>}
  <2>1. Stores' = {x \in Counting \X (1 .. R) : x[2] <= Stored(x[1])'}
    BY <1>1 DEF Stores
  <2>2. ASSUME NEW u \in Counting, NEW r \in 1 .. R
        PROVE  r <= Stored(u)' <=> r <= Stored(u) \/ (u = t /\ r = s + 1)
    <3>1. CASE u = t
      <4>1. r <= s + 1 <=> r <= s \/ r = s + 1
        BY <1>2, <1>3
      <4> QED BY <4>1, <3>1, <1>2
    <3>2. CASE u # t
      BY <3>2
    <3> QED BY <3>1, <3>2
  <2> QED BY <2>1, <2>2, <1>3 DEF Stores
<1> QED BY <1>1, <1>3, <1>4, <1>5, FS_AddElement

(* Together: what every reachable state satisfies.                         *)
IInv == Shape /\ Progress /\ Watched /\ Exact /\ Inexact /\ Draws

(* No program starts with an increment made.                               *)
LEMMA IInvInit == Init => IInv
<1> SUFFICES ASSUME Init PROVE IInv
  OBVIOUS
<1>1. Shape
  BY ShapeInit
<1>2. /\ program \in DOMAIN Exercises /\ N \in Nat \ {0} /\ R \in Nat
      /\ 1 .. N \subseteq Others /\ Others \subseteq Threads /\ Main \in Threads
      /\ Main \notin Others /\ Watcher \in Threads
  BY Programs, Sizes DEF Init, Others, Main, Watcher
<1>3. \A t \in Others : pc[t] = "unborn" /\ i[t] = 0 /\ reg[t] = 0
  BY <1>2 DEF Init
<1>4. pc[Main] = "create" /\ i[Watcher] = 0
  BY <1>2 DEF Init
<1>5. Counting \subseteq Others
  BY <1>1, Numbered
<1>6. Progress
  BY <1>2, <1>3, <1>4, <1>5 DEF Progress
<1>7. Watched
  BY <1>4 DEF Watched
<1>8. Stores = {}
  <2>1. \A t \in Counting : Stored(t) = 0
    BY <1>3, <1>5 DEF Stored
  <2>2. \A r \in 1 .. R : ~ (r <= 0)
    BY <1>2
  <2> QED BY <2>1, <2>2 DEF Stores
<1>9. Cardinality(Stores) = 0
  BY <1>1, <1>8, Numbered
<1>10. counter = Exercises[program].initial /\ counter \in Nat /\ Added = 0
  BY <1>1, <1>4 DEF Init, Added, Shape, TypeOK
<1>11. Exact
  BY <1>3, <1>5, <1>9, <1>10 DEF Exact
<1>12. Inexact
  BY <1>2, <1>3, <1>5, <1>8, <1>9, <1>10, Programs DEF Inexact, Runs
<1>13. Draws
  <2>1. SUFFICES ASSUME Runs({"mutex_ex3"}) PROVE Draws
    BY DEF Draws
  <2>2. counter = 1
    BY <2>1, <1>2, <1>10, Programs DEF Runs
  <2>3. \A t \in 1 .. N : reg[t] = 0 /\ reg[t] \notin {n \in Nat : n >= TOTAL}
    BY <1>2, <1>3, Sizes
  <2>4. Drawn = 0
    <3>1. IsFiniteSet(1 .. N)
      BY <1>2, FS_Interval
    <3>2. CountIn(1 .. N, reg, {n \in Nat : n >= TOTAL}) = 0
      BY <2>3, <3>1, CountInNat
    <3> QED BY <3>2 DEF Drawn
  <2>5. counter < TOTAL
    BY <2>2, Sizes
  <2> QED BY <2>2, <2>3, <2>4, <2>5 DEF Draws
<1> QED BY <1>1, <1>6, <1>7, <1>11, <1>12, <1>13 DEF IInv

-----------------------------------------------------------------------------
(* The steps that touch neither the integer nor the rounds: those of main, *)
(* those that wait, and the thread's exit.                                 *)
Quiet(t) ==
  \/ readToWait(t) \/ joinCreator(t) \/ lockToIncrement(t) \/ lockToWatch(t)
  \/ meditate(t) \/ stopWatching(t) \/ spuriousWakeup(t) \/ prime_print(t)
  \/ exitThread(t)

(* When the shared integer and the counted increments stay, so does what   *)
(* relates the two.                                                        *)
LEMMA SameCounts ==
  ASSUME IInv, Shape', UNCHANGED <<program, counter>>,
         \A u \in Others : Stored(u)' = Stored(u),
         Watched', Added' = Added,
         \A u \in Counting : pc'[u] = "loaded" => pc[u] = "loaded" /\ reg'[u] = reg[u],
         Runs({"mutex_ex3"}) => \A u \in 1 .. N : reg'[u] = reg[u]
  PROVE  Exact' /\ Inexact' /\ Draws'
<1>1. Stores' = Stores /\ Counting' = Counting /\ N' = N /\ R' = R
  BY SameStores, Numbered DEF IInv
<1>2. Exact' /\ Inexact'
  BY <1>1 DEF IInv, Exact, Inexact, Runs
<1>3. Draws'
  <2>1. SUFFICES ASSUME Runs({"mutex_ex3"}) PROVE Draws'
    BY DEF Draws, Runs
  <2>2. {u \in 1 .. N : reg'[u] \in {n \in Nat : n >= TOTAL}} =
        {u \in 1 .. N : reg[u] \in {n \in Nat : n >= TOTAL}}
    BY <2>1
  <2>3. Drawn' = Drawn
    BY <1>1, <2>2 DEF Drawn, CountIn
  <2> QED BY <1>1, <2>1, <2>3 DEF IInv, Draws, Runs
<1> QED BY <1>2, <1>3

(* The steps of main touch neither the integer nor the rounds; main        *)
(* returns from its last join only when it has joined all its threads.     *)
LEMMA IInvMain == ASSUME IInv, MainStep PROVE IInv'
<1>1. Shape' /\ Shape
  BY ShapeMain DEF IInv
<1>2. /\ N \in Nat \ {0} /\ R \in Nat /\ 1 .. N \subseteq Others /\ created \in 0 .. N
      /\ Main \in Threads /\ Main \notin Others /\ Watcher \in Others
      /\ Counting \subseteq Others
  <2>1. Counting \subseteq Others
    BY <1>1, Numbered
  <2>2. N \in Nat \ {0} /\ R \in Nat /\ 1 .. N \subseteq Others /\ created \in 0 .. N
    BY <1>1, Programs DEF Shape, TypeOK, N
  <2> QED BY <2>1, <2>2, Sizes DEF Others, Main, Watcher
<1>3. UNCHANGED <<program, i, reg, counter>> /\ Counting' = Counting /\ N' = N /\ R' = R
  BY DEF MainStep, createThread, joinThread, returnFromMain, exitMain, Counting, N, R,
         Runs
<1>4. \A u \in Others :
        \/ pc'[u] = pc[u]
        \/ pc[u] = "unborn" /\ pc'[u] = "start"
        \/ pc[u] = "start" /\ pc'[u] = "killed"
  <2>1. CASE createThread
    <3>1. pc[created + 1] = "unborn" /\ pc' = [pc EXCEPT ![created + 1] = "start"]
      <4>1. created + 1 \in 1 .. N /\ created + 1 > created
        BY <2>1, <1>2 DEF createThread, moreThreads, N
      <4> QED BY <2>1, <4>1, <1>1, <1>2 DEF createThread, Shape, Places
    <3> QED BY <3>1, <1>1 DEF Shape, TypeOK, Others
  <2>2. CASE joinThread
    BY <2>2 DEF joinThread
  <2>3. CASE returnFromMain
    BY <2>3, <1>2 DEF returnFromMain, Others
  <2>4. CASE exitMain
    BY <2>4, <1>1, <1>2 DEF exitMain, Goto, Shape, TypeOK, Others
  <2> QED BY <2>1, <2>2, <2>3, <2>4 DEF MainStep
<1>5. Progress'
  <2>1. ~ Runs({"mutex_ex3"}) =>
          \A t \in Counting :
            /\ i'[t] <= R
            /\ pc'[t] \in {"locked", "loaded", "stored"} => i'[t] < R
            /\ pc'[t] = "done" => i'[t] = R
    BY <1>2, <1>3, <1>4 DEF IInv, Progress
  <2>2. Runs({"mutex_ex3"}) =>
          \A t \in Others : pc'[t] = "done" => reg'[t] >= TOTAL
    BY <1>3, <1>4 DEF IInv, Progress
  <2>3. ASSUME pc'[Main] = "done", ~ Runs({"simple_thread", "join_the_creator"})
        PROVE  Len(received') = N
    <3>1. CASE pc[Main] = "done"
      <4>1. received' = received
        BY <3>1 DEF MainStep, createThread, joinThread, returnFromMain, exitMain, Goto
      <4> QED BY <3>1, <4>1, <2>3 DEF IInv, Progress
    <3>2. CASE pc[Main] # "done"
      <4>1. returnFromMain
        <5>1. ~ createThread
          <6>1. SUFFICES ASSUME createThread PROVE FALSE
            OBVIOUS
          <6>2. created + 1 # Main
            BY <1>2 DEF Main
          <6> QED BY <6>1, <6>2, <1>1, <1>2, <2>3, <3>2 DEF createThread, Shape, TypeOK
        <5>2. ~ joinThread
          BY <2>3, <3>2 DEF joinThread
        <5>3. ~ exitMain
          BY <2>3 DEF exitMain, Runs
        <5> QED BY <5>1, <5>2, <5>3 DEF MainStep
      <4>2. received' = received /\ Len(received) = created /\ ~ moreThreads
        BY <4>1, <2>3 DEF returnFromMain, Runs
      <4> QED BY <4>2, <1>2 DEF moreThreads, N
    <3> QED BY <3>1, <3>2
  <2> QED BY <2>1, <2>2, <2>3, <1>3 DEF Progress, Runs
<1>6. Watched'
  BY <1>2, <1>3, <1>4 DEF IInv, Watched, Runs, mustWait
<1>7. \A u \in Others : Stored(u)' = Stored(u)
  BY <1>3, <1>4 DEF Stored
<1>8. Exact' /\ Inexact' /\ Draws'
  <2>1. Added' = Added
    BY <1>3 DEF Added, Runs
  <2> QED BY <1>1, <1>2, <1>3, <1>4, <1>6, <1>7, <2>1, SameCounts
<1> QED BY <1>1, <1>5, <1>6, <1>8 DEF IInv

(* The conjuncts of Progress and Watched about one thread ...              *)
Goes(t) ==
  /\ ~ Runs({"mutex_ex3"}) /\ t \in Counting =>
       /\ i[t] <= R
       /\ pc[t] \in {"locked", "loaded", "stored"} => i[t] < R
       /\ pc[t] = "done" => i[t] = R
  /\ Runs({"mutex_ex3"}) => (pc[t] = "done" => reg[t] >= TOTAL)

(* ... are all that a step of that thread can disturb.                     *)
LEMMA ProgressStep ==
  ASSUME IInv, Shape', UNCHANGED program, NEW t \in Others, Goes(t)',
         pc'[Main] = pc[Main],
         received' = received \/ Runs({"join_the_creator"}),
         \A u \in Others \ {t} :
           /\ i'[u] = i[u] /\ reg'[u] = reg[u]
           /\ pc'[u] = pc[u] \/ (pc[u] = "meditating" /\ pc'[u] = "signalled")
  PROVE  Progress'
<1>1. Counting' = Counting /\ N' = N /\ R' = R /\ Counting \subseteq Others
  BY Numbered DEF IInv, Counting, N, R, Runs
<1>2. ~ Runs({"mutex_ex3"}) =>
        \A u \in Counting :
          /\ i'[u] <= R
          /\ pc'[u] \in {"locked", "loaded", "stored"} => i'[u] < R
          /\ pc'[u] = "done" => i'[u] = R
  <2> SUFFICES ASSUME ~ Runs({"mutex_ex3"}), NEW u \in Counting
               PROVE  /\ i'[u] <= R
                      /\ pc'[u] \in {"locked", "loaded", "stored"} => i'[u] < R
                      /\ pc'[u] = "done" => i'[u] = R
    OBVIOUS
  <2>1. CASE u = t
    BY <2>1, <1>1 DEF Goes, Runs
  <2>2. CASE u # t
    BY <2>2, <1>1 DEF IInv, Progress
  <2> QED BY <2>1, <2>2
<1>3. Runs({"mutex_ex3"}) => \A u \in Others : pc'[u] = "done" => reg'[u] >= TOTAL
  <2> SUFFICES ASSUME Runs({"mutex_ex3"}), NEW u \in Others, pc'[u] = "done"
               PROVE  reg'[u] >= TOTAL
    OBVIOUS
  <2>1. CASE u = t
    BY <2>1 DEF Goes, Runs
  <2>2. CASE u # t
    BY <2>2 DEF IInv, Progress
  <2> QED BY <2>1, <2>2
<1>4. pc'[Main] = "done" /\ ~ Runs({"simple_thread", "join_the_creator"}) =>
        Len(received') = N
  BY DEF IInv, Progress, Runs
<1> QED BY <1>1, <1>2, <1>3, <1>4 DEF Progress, Runs

(* So do those of a thread that only waits, prints or exits; a thread      *)
(* exits with its rounds done.                                             *)
LEMMA IInvQuiet == ASSUME IInv, NEW t \in Others, Quiet(t) PROVE IInv'
<1>1. Shape /\ Shape'
  BY ShapeThread DEF IInv, Quiet, ThreadStep
<1>2. /\ R \in Nat /\ t \in Threads /\ t # Main /\ Counting \subseteq Others
      /\ Watcher \in Others /\ Main \in Threads /\ 1 .. N \subseteq Others
      /\ \A u \in Counting : i[u] \in Nat
  <2>1. Counting \subseteq Others /\ \A u \in Counting : i[u] \in Nat
    BY <1>1, Numbered
  <2>2. R \in Nat /\ 1 .. N \subseteq Others
    BY <1>1, Programs DEF Shape, TypeOK
  <2> QED BY <2>1, <2>2, Sizes DEF Others, Main, Watcher
<1>3. UNCHANGED <<program, i, counter>>
  BY DEF Quiet, readToWait, joinCreator, lockToIncrement, lockToWatch, meditate,
         stopWatching, spuriousWakeup, prime_print, exitThread
<1>4. Counting' = Counting /\ N' = N /\ R' = R
  BY <1>3 DEF Counting, N, R, Runs
<1>5. \A u \in Threads \ {t} : pc'[u] = pc[u] /\ reg'[u] = reg[u]
  BY <1>1, <1>2
  DEF Shape, TypeOK, Quiet, readToWait, joinCreator, lockToIncrement, lockToWatch,
      meditate, stopWatching, spuriousWakeup, prime_print, exitThread, Goto
<1>6. reg' = reg \/ Runs({"join_the_creator"})
  BY DEF Quiet, readToWait, joinCreator, lockToIncrement, lockToWatch,
         meditate, stopWatching, spuriousWakeup, prime_print, exitThread
<1>7. /\ pc[t] # "stored" /\ pc'[t] # "stored" /\ pc'[t] # "loaded"
      /\ received' = received \/ Runs({"join_the_creator"})
  <2>1. pc[t] # "stored" /\ pc'[t] # "stored" /\ pc'[t] # "loaded"
    <3>1. pc \in [Threads -> {"unborn", "create", "start", "locked", "loaded",
                              "stored", "drawn", "watching", "meditating",
                              "signalled", "joins", "done", "killed"}]
      BY <1>1 DEF Shape, TypeOK
    <3> QED
      BY <1>2, <3>1
      DEF Quiet, readToWait, joinCreator, lockToIncrement, lockToWatch, meditate,
          stopWatching, spuriousWakeup, prime_print, exitThread, Goto
  <2>2. joinCreator(t) => Runs({"join_the_creator"})
    BY <1>1 DEF joinCreator, Goto, Shape, Places
  <2>3. ~ joinCreator(t) => received' = received
    BY DEF Quiet, readToWait, lockToIncrement, lockToWatch, meditate, stopWatching,
           spuriousWakeup, prime_print, exitThread
  <2> QED BY <2>1, <2>2, <2>3
<1>8. Goes(t)'
  <2>1. ASSUME ~ Runs({"mutex_ex3"}), t \in Counting
        PROVE  /\ i[t] <= R
               /\ pc'[t] \in {"locked", "loaded", "stored"} => i[t] < R
               /\ pc'[t] = "done" => i[t] = R
    <3>1. i[t] <= R /\ i[t] \in Nat
      BY <2>1, <1>2 DEF IInv, Progress
    <3>2. pc'[t] = "locked" => i[t] < R
      BY <1>1, <1>2
      DEF Shape, TypeOK, Quiet, readToWait, joinCreator, lockToIncrement, lockToWatch,
          meditate, stopWatching, spuriousWakeup, prime_print, exitThread, Goto,
          MoreRounds, R
    <3>3. ASSUME pc'[t] = "done" PROVE i[t] = R
      <4>1. joinCreator(t) \/ stopWatching(t) \/ exitThread(t)
        BY <3>3, <1>1, <1>2
        DEF Shape, TypeOK, Quiet, readToWait, lockToIncrement, lockToWatch, meditate,
            spuriousWakeup, prime_print, Goto
      <4>2. CASE joinCreator(t)
        <5>1. Runs({"join_the_creator"})
          BY <4>2, <1>1 DEF joinCreator, Goto, Shape, Places
        <5>2. R = 0
          BY <5>1, <1>1, Programs DEF Shape, TypeOK, Runs
        <5> QED BY <5>2, <3>1
      <4>3. CASE stopWatching(t)
        BY <4>3, <2>1, <1>1 DEF stopWatching, Goto, Shape, Places, Counting
      <4>4. CASE exitThread(t)
        BY <4>4, <3>1, <1>2 DEF exitThread, LoopEnds, MoreRounds, R
      <4> QED BY <4>1, <4>2, <4>3, <4>4
    <3> QED BY <3>1, <3>2, <3>3, <1>7
  <2>2. ASSUME Runs({"mutex_ex3"}), pc'[t] = "done" PROVE reg'[t] >= TOTAL
    <3>1. exitThread(t)
      BY <2>2, <1>1, <1>2
      DEF Shape, TypeOK, Places, Quiet, readToWait, joinCreator, lockToIncrement,
          lockToWatch, meditate, stopWatching, spuriousWakeup, prime_print, Goto, Runs
    <3> QED BY <3>1, <2>2 DEF exitThread, LoopEnds
  <2> QED BY <2>1, <2>2, <1>3, <1>4 DEF Goes, Runs
<1>9. Progress'
  <2>1. \A u \in Others \ {t} :
          /\ i'[u] = i[u] /\ reg'[u] = reg[u]
          /\ pc'[u] = pc[u]
    BY <1>3, <1>5 DEF Others
  <2>2. pc'[Main] = pc[Main]
    BY <1>2, <1>5
  <2> QED BY <1>1, <1>3, <1>7, <1>8, <2>1, <2>2, ProgressStep
<1>10. Watched'
  <2>1. SUFFICES ASSUME Runs({"cond_var_ex1"}),
                        pc'[Watcher] \in {"unborn", "start", "meditating", "signalled"}
                 PROVE  i[Watcher] = 0
    BY <1>3 DEF IInv, Watched, Runs, mustWait
  <2>2. CASE Watcher # t
    BY <2>1, <2>2, <1>2, <1>5 DEF IInv, Watched, Others
  <2>3. CASE Watcher = t
    <3>1. meditate(t) \/ spuriousWakeup(t)
      <4>1. pc'[t] \in {"unborn", "start", "meditating", "signalled"}
        BY <2>1, <2>3
      <4>2. ~ prime_print(t)
        BY <2>1, <1>1 DEF prime_print, Goto, Shape, Places, Runs
      <4>3. pc \in [Threads -> {"unborn", "create", "start", "locked", "loaded",
                                "stored", "drawn", "watching", "meditating",
                                "signalled", "joins", "done", "killed"}]
        BY <1>1 DEF Shape, TypeOK
      <4> QED
        BY <1>2, <4>1, <4>2, <4>3
        DEF Quiet, readToWait, joinCreator, lockToIncrement, lockToWatch,
            stopWatching, exitThread, Goto
    <3> QED BY <3>1, <2>1, <2>3 DEF IInv, Watched, meditate, spuriousWakeup, Goto
  <2> QED BY <2>2, <2>3
<1>11. \A u \in Others : Stored(u)' = Stored(u)
  BY <1>3, <1>5, <1>7 DEF Stored, Others
<1>12. Added' = Added
  BY <1>3 DEF Added, Runs
<1>13. \A u \in Counting : pc'[u] = "loaded" => pc[u] = "loaded" /\ reg'[u] = reg[u]
  BY <1>2, <1>5, <1>7 DEF Others
<1>14. Runs({"mutex_ex3"}) => \A u \in 1 .. N : reg'[u] = reg[u]
  BY <1>6 DEF Runs
<1>15. Exact' /\ Inexact' /\ Draws'
  BY <1>1, <1>3, <1>10, <1>11, <1>12, <1>13, <1>14, SameCounts
<1> QED BY <1>1, <1>9, <1>10, <1>15 DEF IInv

(* Of the threads that count without losing anything, one at a time is     *)
(* between its load and the end of its round.                              *)
LEMMA Alone ==
  ASSUME Shape, ~ Runs({"expert_thread"}),
         NEW t \in Others, pc[t] \in {"loaded", "stored"},
         NEW u \in Others, pc[u] \in {"locked", "loaded", "stored", "watching"}
  PROVE  t = u
<1>1. Runs({"mutex_ex2", "cond_var_ex1", "intermediate_thread"}) /\ t \in Counting
  BY DEF Shape, Places, Runs
<1>2. CASE Runs({"mutex_ex2", "cond_var_ex1"})
  BY <1>2 DEF Shape, Mutex, Locking
<1>3. CASE Runs({"intermediate_thread"})
  <2>1. N = 1
    BY <1>3, Programs DEF Shape, TypeOK
  <2>2. u \in Counting
    BY <1>3 DEF Shape, Places, Runs, Locking
  <2> QED BY <2>1, <2>2, <1>1 DEF Counting
<1> QED BY <1>1, <1>2, <1>3 DEF Runs

(* A load reads what is there, so that no count changes.                   *)
LEMMA IInvLoad == ASSUME IInv, NEW t \in Others, load(t) PROVE IInv'
<1>1. Shape /\ Shape'
  BY ShapeThread DEF IInv, ThreadStep
<1>2. /\ t \in Threads /\ t # Main /\ Counting \subseteq Others
      /\ Watcher \in Others /\ Main \in Threads
      /\ Cardinality(Stores) \in Nat
  BY <1>1, Numbered, Sizes DEF Others, Main, Watcher
<1>3. UNCHANGED <<program, i, counter, received>> /\ reg' = [reg EXCEPT ![t] = counter]
  BY DEF load
<1>4. Counting' = Counting /\ N' = N /\ R' = R
  BY <1>3 DEF Counting, N, R, Runs
<1>5. /\ \A u \in Threads \ {t} : pc'[u] = pc[u] /\ reg'[u] = reg[u]
      /\ pc'[t] = "loaded" /\ reg'[t] = counter
      /\ pc[t] \in {"locked", "start"}
      /\ pc[t] = "start" => i[t] < R
  BY <1>1, <1>2, <1>3 DEF Shape, TypeOK, load, Goto, MoreRounds, R
<1>6. t \in Counting /\ ~ Runs({"mutex_ex3"})
  <2>1. t \in Counting' /\ ~ Runs({"mutex_ex3"})'
    BY <1>1, <1>5 DEF Shape, Places, Runs
  <2> QED BY <2>1, <1>3, <1>4 DEF Runs
<1>7. Progress'
  <2>1. Goes(t)'
    BY <1>3, <1>4, <1>5, <1>6 DEF Goes, IInv, Progress, Runs
  <2>2. \A u \in Others \ {t} : i'[u] = i[u] /\ reg'[u] = reg[u] /\ pc'[u] = pc[u]
    BY <1>3, <1>5 DEF Others
  <2>3. pc'[Main] = pc[Main]
    BY <1>2, <1>5
  <2> QED BY <1>1, <1>3, <2>1, <2>2, <2>3, ProgressStep
<1>8. Watched'
  BY <1>2, <1>3, <1>5, <1>6 DEF IInv, Watched, Runs, mustWait, Counting, Others
<1>9. Stores' = Stores
  <2>1. \A u \in Counting : Stored(u)' = Stored(u)
    BY <1>2, <1>3, <1>5 DEF Stored, Others
  <2> QED BY <2>1, <1>3, SameStores
<1>10. Exact'
  <2>1. ASSUME ~ Runs({"expert_thread", "mutex_ex3"})
        PROVE  counter = Exercises[program].initial + Cardinality(Stores) + Added
    BY <2>1 DEF IInv, Exact
  <2>2. ASSUME ~ Runs({"expert_thread", "mutex_ex3"}), NEW u \in Counting,
               pc'[u] = "loaded"
        PROVE  reg'[u] = counter
    BY <2>2, <1>2, <1>5 DEF IInv, Exact, Others
  <2>3. Added' = Added
    BY <1>3 DEF Added, Runs
  <2> QED BY <2>1, <2>2, <2>3, <1>3, <1>4, <1>9 DEF Exact, Runs
<1>11. Inexact'
  <2>1. ASSUME Runs({"expert_thread"}), NEW u \in Counting, pc'[u] = "loaded"
        PROVE  reg'[u] <= Cardinality(Stores)
    BY <2>1, <1>2, <1>5 DEF IInv, Inexact, Others
  <2> QED BY <2>1, <1>3, <1>4, <1>9 DEF IInv, Inexact, Runs
<1>12. Draws'
  BY <1>3, <1>6 DEF Draws, Runs
<1> QED BY <1>1, <1>7, <1>8, <1>10, <1>11, <1>12 DEF IInv

(* A store makes one increment: with the mutex it adds one to the integer, *)
(* without it the integer may even drop, but not to 0.                     *)
LEMMA IInvStore == ASSUME IInv, NEW t \in Others, store(t) PROVE IInv'
<1>1. Shape /\ Shape'
  BY ShapeThread DEF IInv, ThreadStep
<1>2. /\ t \in Threads /\ t # Main /\ Counting \subseteq Others
      /\ Watcher \in Others /\ Main \in Threads
      /\ Cardinality(Stores) \in Nat /\ counter \in Nat /\ COUNT_LIMIT \in Nat
  <2>1. Cardinality(Stores) \in Nat /\ Counting \subseteq Others
    BY <1>1, Numbered
  <2>2. counter \in Nat
    BY <1>1 DEF Shape, TypeOK
  <2> QED BY <2>1, <2>2, Sizes DEF Others, Main, Watcher
<1>3. UNCHANGED <<program, i, reg, received>> /\ counter' = reg[t] + 1
      /\ pc[t] = "loaded"
  BY DEF store, Goto
<1>4. \A u \in Threads \ {t} : pc'[u] = pc[u]
  BY <1>2 DEF store, Goto
<1>5. pc'[t] = "stored"
  BY <1>1, <1>2 DEF store, Goto, Shape, TypeOK
<1>6. t \in Counting /\ ~ Runs({"mutex_ex3"}) /\ i[t] < R /\ i[t] \in Nat
  <2>1. t \in Counting /\ ~ Runs({"mutex_ex3"})
    BY <1>1, <1>3 DEF Shape, Places, Runs
  <2> QED BY <2>1, <1>1, <1>3, Numbered DEF IInv, Progress
<1>7. Cardinality(Stores') = Cardinality(Stores) + 1 /\ Counting' = Counting
      /\ N' = N /\ R' = R
  <2>1. Stored(t) = i[t] /\ Stored(t)' = i[t] + 1
    BY <1>3, <1>5 DEF Stored
  <2>2. \A u \in Counting \ {t} : Stored(u)' = Stored(u)
    BY <1>2, <1>3, <1>4 DEF Stored, Others
  <2> QED BY <2>1, <2>2, <1>1, <1>3, <1>6, MoreStores
<1>8. Progress'
  <2>1. Goes(t)'
    BY <1>3, <1>5, <1>6, <1>7 DEF Goes, IInv, Progress, Runs
  <2>2. \A u \in Others \ {t} : i'[u] = i[u] /\ reg'[u] = reg[u] /\ pc'[u] = pc[u]
    BY <1>3, <1>4 DEF Others
  <2>3. pc'[Main] = pc[Main]
    BY <1>2, <1>4
  <2> QED BY <1>1, <1>3, <2>1, <2>2, <2>3, ProgressStep
<1>9. ASSUME ~ Runs({"expert_thread"}) PROVE reg[t] = counter
  BY <1>3, <1>6, <1>9 DEF IInv, Exact, Runs
<1>10. Watched'
  <2>1. SUFFICES ASSUME Runs({"cond_var_ex1"}) PROVE Watched'
    BY <1>3 DEF Watched, Runs
  <2>2. Watcher # t /\ counter' = counter + 1
    BY <2>1, <1>3, <1>6, <1>9 DEF Counting, Runs
  <2>3. pc'[Watcher] = pc[Watcher]
    BY <2>2, <1>2, <1>4 DEF Others
  <2>4. ~ mustWait => ~ mustWait'
    BY <2>2, <1>2 DEF mustWait
  <2> QED BY <2>1, <2>3, <2>4, <1>3 DEF IInv, Watched, Runs
<1>11. Exact'
  <2>1. SUFFICES ASSUME ~ Runs({"expert_thread", "mutex_ex3"}) PROVE Exact'
    BY <1>3 DEF Exact, Runs
  <2>2. Added' = Added
    BY <1>3 DEF Added, Runs
  <2>3. Added \in Nat /\ Exercises[program].initial \in Nat
    <3>1. Exercises[program].initial \in Nat
      BY <1>1, InitialNumber DEF Shape
    <3>2. i[Watcher] \in Nat
      BY <1>1, <1>2 DEF Shape, TypeOK, Others
    <3> QED BY <3>1, <3>2 DEF Added
  <2>4. counter = Exercises[program].initial + Cardinality(Stores) + Added
    BY <2>1 DEF IInv, Exact
  <2>5. reg[t] = counter
    BY <2>1, <1>9 DEF Runs
  <2>6. counter' = Exercises[program].initial + Cardinality(Stores') + Added
    BY <2>3, <2>4, <2>5, <1>2, <1>3, <1>7
  <2>7. \A u \in Counting : pc'[u] # "loaded"
    <3> SUFFICES ASSUME NEW u \in Counting, pc'[u] = "loaded" PROVE FALSE
      OBVIOUS
    <3>1. u # t /\ pc[u] = "loaded" /\ u \in Others
      BY <1>2, <1>4, <1>5 DEF Others
    <3> QED BY <3>1, <2>1, <1>1, <1>3, Alone DEF Runs
  <2> QED BY <2>2, <2>6, <2>7, <1>3, <1>7 DEF Exact
<1>12. Inexact'
  <2>1. SUFFICES ASSUME Runs({"expert_thread"}) PROVE Inexact'
    BY <1>3 DEF Inexact, Runs
  <2>2. \A u \in Counting : pc[u] = "loaded" =>
          reg[u] \in Nat /\ reg[u] <= Cardinality(Stores)
    BY <2>1, <1>1, <1>2 DEF IInv, Inexact, Shape, Numbers, Runs, Others
  <2>3. counter' <= Cardinality(Stores') /\ counter' >= 1
    BY <2>2, <1>2, <1>3, <1>6, <1>7
  <2>4. \A u \in Counting : pc'[u] = "loaded" => reg[u] <= Cardinality(Stores')
    <3>1. \A u \in Counting : pc'[u] = "loaded" => pc[u] = "loaded"
      BY <1>2, <1>4, <1>5 DEF Others
    <3> QED BY <3>1, <2>2, <1>2, <1>7
  <2> QED BY <2>3, <2>4, <1>3, <1>7 DEF Inexact
<1>13. Draws'
  BY <1>3, <1>6 DEF Draws, Runs
<1> QED BY <1>1, <1>8, <1>10, <1>11, <1>12, <1>13 DEF IInv

(* The end of a round counts it; the increment was made before.            *)
LEMMA IInvRound == ASSUME IInv, NEW t \in Others, endRound(t) PROVE IInv'
<1>1. Shape /\ Shape'
  BY ShapeThread DEF IInv, ThreadStep
<1>2. /\ t \in Threads /\ t # Main /\ Counting \subseteq Others
      /\ Watcher \in Others /\ Main \in Threads /\ R \in Nat
  <2>1. Counting \subseteq Others /\ R \in Nat
    BY <1>1, Numbered, Programs DEF Shape, TypeOK
  <2> QED BY <2>1, Sizes DEF Others, Main, Watcher
<1>3. UNCHANGED <<program, reg, counter, received>> /\ pc[t] = "stored"
      /\ i' = [i EXCEPT ![t] = i[t] + 1]
  BY DEF endRound, NextRound
<1>4. /\ \A u \in Threads \ {t} :
           /\ pc'[u] = pc[u] \/ (pc[u] = "meditating" /\ pc'[u] = "signalled")
           /\ i'[u] = i[u]
      /\ pc'[t] = "start" /\ i'[t] = i[t] + 1
  BY <1>1, <1>2, <1>3 DEF endRound, Shape, TypeOK
<1>5. t \in Counting /\ ~ Runs({"mutex_ex3"}) /\ i[t] < R /\ i[t] \in Nat
  <2>1. t \in Counting /\ ~ Runs({"mutex_ex3"})
    BY <1>1, <1>3 DEF Shape, Places, Runs
  <2> QED BY <2>1, <1>1, <1>3, Numbered DEF IInv, Progress
<1>6. Counting' = Counting /\ N' = N /\ R' = R
  BY <1>3 DEF Counting, N, R, Runs
<1>7. Progress'
  <2>1. Goes(t)'
    BY <1>2, <1>3, <1>4, <1>5, <1>6 DEF Goes, Runs
  <2>2. \A u \in Others \ {t} :
          /\ i'[u] = i[u] /\ reg'[u] = reg[u]
          /\ pc'[u] = pc[u] \/ (pc[u] = "meditating" /\ pc'[u] = "signalled")
    BY <1>3, <1>4 DEF Others
  <2>3. pc'[Main] = pc[Main]
    BY <1>1, <1>2, <1>4 DEF Shape, Places
  <2> QED BY <1>1, <1>3, <2>1, <2>2, <2>3, ProgressStep
<1>8. Runs({"cond_var_ex1"}) => Watcher # t /\ i'[Watcher] = i[Watcher]
  BY <1>2, <1>4, <1>5 DEF Counting, Others
<1>9. Watched'
  BY <1>2, <1>3, <1>4, <1>8 DEF IInv, Watched, Runs, mustWait, Others
<1>10. Added' = Added
  BY <1>3, <1>8 DEF Added, Runs
<1>11. \A u \in Others : Stored(u)' = Stored(u)
  BY <1>3, <1>4 DEF Stored, Others
<1>12. \A u \in Counting : pc'[u] = "loaded" => pc[u] = "loaded" /\ reg'[u] = reg[u]
  BY <1>2, <1>3, <1>4 DEF Others
<1>13. Exact' /\ Inexact' /\ Draws'
  BY <1>1, <1>3, <1>9, <1>10, <1>11, <1>12, SameCounts
<1> QED BY <1>1, <1>7, <1>9, <1>13 DEF IInv

(* An atomic increment is a load and a store at once.                      *)
LEMMA IInvAtomic == ASSUME IInv, NEW t \in Others, incrementAtomic(t) PROVE IInv'
<1>1. Shape /\ Shape'
  BY ShapeThread DEF IInv, ThreadStep
<1>2. /\ t \in Threads /\ t # Main /\ Counting \subseteq Others /\ Main \in Threads
      /\ Cardinality(Stores) \in Nat /\ created \in 0 .. N /\ t \in Nat \ {0}
  <2>1. Counting \subseteq Others /\ Cardinality(Stores) \in Nat
    BY <1>1, Numbered
  <2>2. created \in 0 .. N
    BY <1>1 DEF Shape, TypeOK, N
  <2> QED BY <2>1, <2>2, Sizes DEF Others, Main
<1>3. /\ UNCHANGED <<program, pc, reg, received>> /\ counter' = counter + 1
      /\ i' = [i EXCEPT ![t] = i[t] + 1]
      /\ Runs({"mutex_ex1"}) /\ pc[t] = "start" /\ i[t] < R
  BY DEF incrementAtomic, NextRound, MoreRounds, R
<1>4. i'[t] = i[t] + 1 /\ i[t] \in Nat /\ \A u \in Threads \ {t} : i'[u] = i[u]
  BY <1>1, <1>2, <1>3 DEF Shape, TypeOK
<1>5. t \in Counting /\ R \in Nat /\ Exercises[program].initial = 0
  <2>1. t \in 1 .. N
    <3>1. ~ (t > created)
      BY <1>1, <1>3 DEF Shape, Places
    <3>2. N \in Nat
      BY <1>1, Programs DEF Shape, TypeOK
    <3> QED BY <3>1, <3>2, <1>2
  <2> QED BY <2>1, <1>1, <1>3, Programs DEF Counting, Runs, Shape, TypeOK
<1>6. Cardinality(Stores') = Cardinality(Stores) + 1 /\ Counting' = Counting
      /\ N' = N /\ R' = R
  <2>1. Stored(t) = i[t] /\ Stored(t)' = i[t] + 1
    BY <1>3, <1>4 DEF Stored
  <2>2. \A u \in Counting \ {t} : Stored(u)' = Stored(u)
    BY <1>2, <1>3, <1>4 DEF Stored, Others
  <2> QED BY <2>1, <2>2, <1>1, <1>3, <1>5, MoreStores
<1>7. Progress'
  <2>1. Goes(t)'
    BY <1>3, <1>4, <1>5, <1>6 DEF Goes, Runs
  <2>2. \A u \in Others \ {t} : i'[u] = i[u] /\ reg'[u] = reg[u] /\ pc'[u] = pc[u]
    BY <1>3, <1>4 DEF Others
  <2> QED BY <1>1, <1>3, <2>1, <2>2, ProgressStep
<1>8. Watched' /\ Inexact' /\ Draws'
  BY <1>3 DEF Watched, Inexact, Draws, Runs
<1>9. Exact'
  <2>1. counter = Cardinality(Stores)
    BY <1>2, <1>3, <1>5 DEF IInv, Exact, Added, Runs
  <2>2. counter' = Cardinality(Stores')
    BY <2>1, <1>3, <1>6
  <2>3. \A u \in Counting : pc[u] # "loaded"
    BY <1>1, <1>2, <1>3 DEF Shape, Places, Runs
  <2>4. Added' = 0 /\ Exercises[program]'.initial = 0
    BY <1>3, <1>5 DEF Added, Runs
  <2>5. Cardinality(Stores') \in Nat
    BY <1>2, <1>6
  <2> QED BY <2>2, <2>3, <2>4, <2>5, <1>3, <1>6 DEF Exact
<1> QED BY <1>1, <1>7, <1>8, <1>9 DEF IInv

(* A draw takes the next number, and as the thread still had a number      *)
(* below TOTAL, it joins those above the limit at most once.               *)
LEMMA IInvDraw == ASSUME IInv, NEW t \in Others, next_counter(t) PROVE IInv'
<1>1. Shape /\ Shape'
  BY ShapeThread DEF IInv, ThreadStep
<1>2. /\ t \in Threads /\ t # Main /\ Main \in Threads /\ t \in Nat \ {0}
      /\ TOTAL \in Nat \ {0, 1} /\ Threads \subseteq Nat
  BY Sizes DEF Others, Main
<1>3. /\ UNCHANGED <<program, received>> /\ counter' = counter + 1
      /\ i' = [i EXCEPT ![t] = i[t] + 1] /\ reg' = [reg EXCEPT ![t] = counter + 1]
      /\ Runs({"mutex_ex3"}) /\ pc[t] = "start" /\ reg[t] < TOTAL
      /\ pc' = [pc EXCEPT ![t] = "drawn"]
  BY DEF next_counter, NextRound, Goto
<1>4. /\ reg'[t] = counter + 1 /\ pc'[t] = "drawn"
      /\ \A u \in Threads \ {t} : i'[u] = i[u] /\ reg'[u] = reg[u] /\ pc'[u] = pc[u]
      /\ counter \in Nat
  BY <1>1, <1>2, <1>3 DEF Shape, TypeOK
<1>5. /\ t \in 1 .. N /\ N' = N /\ N \in Nat /\ 1 .. N \subseteq Others
      /\ \A u \in Others : reg[u] \in Nat
  <2>1. /\ N \in Nat /\ 1 .. N \subseteq Others /\ created \in 0 .. N
    BY <1>1, Programs DEF Shape, TypeOK, N
  <2>2. ~ (t > created)
    BY <1>1, <1>3 DEF Shape, Places
  <2>3. \A u \in Others : reg[u] \in Nat
    BY <1>1, <1>3 DEF Shape, Numbers, Runs, Others
  <2>4. t \in 1 .. N
    BY <2>1, <2>2, <1>2
  <2> QED BY <2>1, <2>3, <2>4, <1>3 DEF N
<1>6. Progress'
  <2>1. Goes(t)'
    BY <1>3, <1>4 DEF Goes, Runs
  <2>2. \A u \in Others \ {t} : i'[u] = i[u] /\ reg'[u] = reg[u] /\ pc'[u] = pc[u]
    BY <1>4 DEF Others
  <2>3. pc'[Main] = pc[Main]
    BY <1>2, <1>4
  <2> QED BY <1>1, <1>3, <2>1, <2>2, <2>3, ProgressStep
<1>7. Watched' /\ Exact' /\ Inexact'
  BY <1>3 DEF Watched, Exact, Inexact, Runs
<1>8. Draws'
  <2> DEFINE L == {n \in Nat : n >= TOTAL}
  <2>1. /\ counter >= 1
        /\ \A u \in 1 .. N : reg[u] <= counter
        /\ Drawn = IF counter < TOTAL THEN 0 ELSE counter - TOTAL + 1
    BY <1>3 DEF IInv, Draws
  <2>2. IsFiniteSet(1 .. N)
    BY <1>5, FS_Interval
  <2>3. \A u \in (1 .. N) \ {t} : reg'[u] = reg[u]
    BY <1>4, <1>5 DEF Others
  <2>4. PICK g : g = reg'
    OBVIOUS
  <2>5. /\ Drawn' + OneIf(reg[t], L) = Drawn + OneIf(g[t], L)
        /\ Drawn \in Nat /\ Drawn' \in Nat
    <3>1. Drawn = CountIn(1 .. N, reg, L) /\ Drawn' = CountIn(1 .. N, g, L)
      BY <1>5, <2>4 DEF Drawn, CountIn
    <3>2. \A u \in (1 .. N) \ {t} : g[u] = reg[u]
      BY <2>3, <2>4
    <3> HIDE DEF L
    <3>3. CountIn(1 .. N, g, L) + OneIf(reg[t], L) =
          CountIn(1 .. N, reg, L) + OneIf(g[t], L)
      <4>1. PICK T : T = 1 .. N
        OBVIOUS
      <4>2. IsFiniteSet(T) /\ t \in T /\ \A u \in T \ {t} : g[u] = reg[u]
        BY <4>1, <2>2, <3>2, <1>5
      <4>3. PICK f, M : f = reg /\ M = L
        OBVIOUS
      <4>4. CountIn(T, g, M) + OneIf(f[t], M) = CountIn(T, f, M) + OneIf(g[t], M)
        BY <4>2, <4>3, OneMoves
      <4> QED BY <4>1, <4>3, <4>4
    <3>4. CountIn(1 .. N, reg, L) \in Nat /\ CountIn(1 .. N, g, L) \in Nat
      BY <2>2, CountInNat
    <3> QED BY <3>1, <3>3, <3>4
  <2>6. OneIf(reg[t], L) = 0
    BY <1>2, <1>3, <1>5 DEF OneIf
  <2>7. Drawn' = IF counter' < TOTAL THEN 0 ELSE counter' - TOTAL + 1
    <3>1. counter' = counter + 1 /\ counter \in Nat /\ TOTAL \in Nat
      BY <1>2, <1>3, <1>4
    <3>2. Drawn = IF counter < TOTAL THEN 0 ELSE counter - TOTAL + 1
      BY <2>1
    <3>3. CASE counter + 1 < TOTAL
      <4>1. OneIf(g[t], L) = 0
        BY <2>4, <3>1, <3>3, <1>4 DEF OneIf
      <4>2. Drawn' = Drawn
        BY <4>1, <2>5, <2>6
      <4> QED BY <4>2, <3>1, <3>2, <3>3
    <3>4. CASE counter + 1 >= TOTAL
      <4>1. OneIf(g[t], L) = 1
        BY <2>4, <3>1, <3>4, <1>4 DEF OneIf
      <4>2. Drawn' = Drawn + 1
        BY <4>1, <2>5, <2>6
      <4> QED BY <4>2, <3>1, <3>2, <3>4
    <3> QED BY <3>1, <3>3, <3>4
  <2>8. \A u \in 1 .. N : reg'[u] <= counter'
    <3> SUFFICES ASSUME NEW u \in 1 .. N PROVE reg'[u] <= counter'
      OBVIOUS
    <3>1. CASE u = t
      BY <3>1, <1>3, <1>4
    <3>2. CASE u # t
      BY <3>2, <2>1, <2>3, <1>3, <1>4, <1>5
    <3> QED BY <3>1, <3>2
  <2>9. counter' >= 1
    BY <1>3, <1>4
  <2> QED BY <2>7, <2>8, <2>9, <1>5 DEF Draws
<1> QED BY <1>1, <1>6, <1>7, <1>8 DEF IInv

(* The watcher adds its 125 when it is woken, with the mutex, so that      *)
(* nobody has loaded a number from before.                                 *)
LEMMA IInvSignal == ASSUME IInv, NEW t \in Others, signalReceived(t) PROVE IInv'
<1>1. Shape /\ Shape'
  BY ShapeThread DEF IInv, ThreadStep
<1>2. /\ t \in Threads /\ t # Main /\ Counting \subseteq Others /\ Main \in Threads
      /\ Watcher \in Others /\ counter \in Nat /\ COUNT_LIMIT \in Nat
      /\ COUNT_LIMIT <= 125 /\ Cardinality(Stores) \in Nat
  <2>1. Counting \subseteq Others /\ Cardinality(Stores) \in Nat
    BY <1>1, Numbered
  <2>2. counter \in Nat
    BY <1>1 DEF Shape, TypeOK
  <2> QED BY <2>1, <2>2, Sizes DEF Others, Main, Watcher
<1>3. /\ UNCHANGED <<program, reg, received>> /\ counter' = counter + 125
      /\ i' = [i EXCEPT ![t] = i[t] + 1]
      /\ pc[t] = "signalled" /\ pc' = [pc EXCEPT ![t] = "watching"] /\ lock = NULL
  BY DEF signalReceived, NextRound, Goto, mtx_lock, Free
<1>4. /\ i'[t] = i[t] + 1 /\ pc'[t] = "watching"
      /\ \A u \in Threads \ {t} : i'[u] = i[u] /\ pc'[u] = pc[u]
  BY <1>1, <1>2, <1>3 DEF Shape, TypeOK
<1>5. Runs({"cond_var_ex1"}) /\ t = Watcher /\ t \notin Counting
  BY <1>1, <1>3 DEF Shape, Places, Counting
<1>6. i[t] = 0
  BY <1>3, <1>5 DEF IInv, Watched
<1>7. Stores' = Stores /\ Counting' = Counting /\ N' = N /\ R' = R
  <2>1. \A u \in Counting : Stored(u)' = Stored(u)
    BY <1>2, <1>4, <1>5 DEF Stored, Others
  <2> QED BY <2>1, <1>3, SameStores
<1>8. Progress'
  <2>1. Goes(t)'
    BY <1>3, <1>5, <1>7 DEF Goes, Runs
  <2>2. \A u \in Others \ {t} : i'[u] = i[u] /\ reg'[u] = reg[u] /\ pc'[u] = pc[u]
    BY <1>3, <1>4 DEF Others
  <2>3. pc'[Main] = pc[Main]
    BY <1>2, <1>4
  <2> QED BY <1>1, <1>3, <2>1, <2>2, <2>3, ProgressStep
<1>9. Watched'
  <2>1. ~ mustWait'
    BY <1>2, <1>3 DEF mustWait
  <2> QED BY <2>1, <1>4, <1>5, <1>6 DEF Watched
<1>10. Inexact' /\ Draws'
  BY <1>3, <1>5 DEF Inexact, Draws, Runs
<1>11. Exact'
  <2>1. counter = Exercises[program].initial + Cardinality(Stores) + Added /\ Added = 0
    BY <1>5, <1>6 DEF IInv, Exact, Added, Runs
  <2>2. Added' = 125
    BY <1>3, <1>4, <1>5, <1>6 DEF Added, Runs
  <2>3. Exercises[program].initial \in Nat
    BY <1>1, InitialNumber DEF Shape
  <2>4. counter' = Exercises[program].initial + Cardinality(Stores') + Added'
    BY <2>1, <2>2, <2>3, <1>2, <1>3, <1>7
  <2>5. \A u \in Counting : pc'[u] # "loaded"
    <3> SUFFICES ASSUME NEW u \in Counting, pc[u] = "loaded" PROVE FALSE
      BY <1>2, <1>4, <1>5 DEF Others
    <3>1. lock = u /\ u \in Threads
      BY <1>1, <1>2, <1>5 DEF Shape, Mutex, Locking, Runs, Others
    <3> QED BY <3>1, <1>3, Sizes
  <2> QED BY <2>4, <2>5, <1>3, <1>7 DEF Exact
<1> QED BY <1>1, <1>8, <1>9, <1>10, <1>11 DEF IInv

-----------------------------------------------------------------------------
(* Every step is one of these.                                             *)
LEMMA IInvStep == ASSUME IInv, [Next]_vars PROVE IInv'
<1>1. CASE MainStep
  BY <1>1, IInvMain
<1>2. CASE \E t \in Threads \ {Main} : ThreadStep(t) \/ spuriousWakeup(t)
  <2>1. PICK t \in Others : ThreadStep(t) \/ spuriousWakeup(t)
    BY <1>2 DEF Others
  <2> QED BY <2>1, IInvQuiet, IInvLoad, IInvStore, IInvRound, IInvAtomic, IInvDraw,
             IInvSignal DEF ThreadStep, Quiet
<1>3. CASE UNCHANGED vars
  <2>1. Shape' /\ Progress'
    BY <1>3 DEF vars, IInv, Shape, TypeOK, Numbers, Places, Mutex, Progress, Counting,
                N, R, Runs
  <2>2. Stores' = Stores /\ Drawn' = Drawn /\ Added' = Added
    BY <1>3 DEF vars, Stores, Stored, Drawn, CountIn, Added, Counting, N, R, Runs
  <2>3. Watched' /\ Exact' /\ Inexact' /\ Draws'
    BY <1>3, <2>2 DEF vars, IInv, Watched, Exact, Inexact, Draws, Counting, N, R, Runs,
                      mustWait
  <2> QED BY <2>1, <2>3 DEF IInv
<1> QED BY <1>1, <1>2, <1>3 DEF Next

(* Invariance of IInv, and with it of its first part, the types.           *)
LEMMA Invariance == FairSpec => []IInv
<1>1. FairSpec => Init /\ [][Next]_vars
  BY PTL DEF FairSpec
<1> QED BY <1>1, IInvInit, IInvStep, PTL

(* The state of the thread exercises keeps its types: no thread is created *)
(* or joined too often, and the mutex is free or held by a thread.         *)
THEOREM TypeCorrect == FairSpec => []TypeOK
<1>1. IInv => TypeOK
  BY DEF IInv, Shape
<1> QED BY <1>1, Invariance, PTL

(* Main has returned only when every thread it joined was done.            *)
LEMMA AllDone ==
  ASSUME IInv, Ended, ~ Runs({"simple_thread", "join_the_creator"})
  PROVE  \A t \in 1 .. N : pc[t] = "done"
BY DEF IInv, Ended, Progress, Shape, Places, Runs

(* All the increments that there are have then been made.                  *)
LEMMA AllStored ==
  ASSUME IInv, Ended, ~ Runs({"simple_thread", "join_the_creator", "mutex_ex3"})
  PROVE  /\ Stores = Counting \X (1 .. R)
         /\ Cardinality(Stores) = Cardinality(Counting) * R
<1>1. /\ N \in Nat /\ R \in Nat /\ IsFiniteSet(Counting)
  BY Programs, Numbered DEF IInv, Shape, TypeOK
<1>2. \A t \in Counting : Stored(t) = R
  BY AllDone DEF IInv, Progress, Runs, Counting, Stored
<1>3. Stores = Counting \X (1 .. R)
  BY <1>1, <1>2 DEF Stores
<1>4. IsFiniteSet(1 .. R) /\ Cardinality(1 .. R) = R
  BY <1>1, FS_Interval
<1>5. Cardinality(Counting \X (1 .. R)) = Cardinality(Counting) * Cardinality(1 .. R)
  BY <1>1, <1>4, FS_Product
<1> QED BY <1>3, <1>4, <1>5

(* Nothing is counted by a program without rounds.                         *)
LEMMA NoRounds == ASSUME IInv, R = 0 PROVE Cardinality(Stores) = 0
<1>1. Stores = {}
  BY DEF Stores
<1> QED BY <1>1, Numbered DEF IInv

(* Who counts.                                                             *)
LEMMA Counters ==
  ASSUME IInv
  PROVE  Cardinality(Counting) = IF Runs({"cond_var_ex1"}) THEN 2 ELSE N
<1>1. N \in Nat /\ (Runs({"cond_var_ex1"}) => N = 3)
  BY Programs DEF IInv, Shape, TypeOK
<1>2. CASE Runs({"cond_var_ex1"})
  <2>1. Counting = 2 .. 3
    BY <1>1, <1>2 DEF Counting, Watcher
  <2>2. Cardinality(2 .. 3) = IF 2 > 3 THEN 0 ELSE 3 - 2 + 1
    <3>1. 2 \in Int /\ 3 \in Int
      OBVIOUS
    <3> QED BY ONLY <3>1, FS_Interval, Zenon
  <2> QED BY <1>2, <2>1, <2>2
<1>3. CASE ~ Runs({"cond_var_ex1"})
  <2>1. Counting = 1 .. N
    BY <1>3 DEF Counting
  <2>2. Cardinality(1 .. N) = N
    BY <1>1, FS_Interval
  <2> QED BY <1>3, <2>1, <2>2
<1> QED BY <1>2, <1>3

(* Whatever the interleaving, a program ends with the number it should:    *)
(* mutex_ex1 and mutex_ex2 with all the increments, cond_var_ex1 with all  *)
(* of them and perhaps the 125 of the watcher, mutex_ex3 with one number   *)
(* above the limit for every thread but one, expert_thread with at least   *)
(* one of its increments and intermediate_thread with 6.                   *)
THEOREM CountsAreRight == FairSpec => []FinalCount
<1>1. IInv => FinalCount
  <2> SUFFICES ASSUME IInv, Ended PROVE counter \in EndCounts
    BY DEF FinalCount
  <2>1. /\ Shape /\ program \in DOMAIN Exercises /\ counter \in Nat
        /\ i[Watcher] \in Nat
    BY Sizes DEF IInv, Shape, TypeOK, Watcher
  <2>2. /\ N \in Nat \ {0} /\ R \in Nat /\ NUM_THREADS \in Nat \ {0} /\ ROUNDS \in Nat
        /\ TOTAL \in Nat \ {0, 1} /\ TCOUNT \in Nat
    BY <2>1, Programs, Sizes
  <2>3. CASE Runs({"mutex_ex1", "mutex_ex2"})
    <3>1. counter = Cardinality(Stores) /\ Cardinality(Stores) = N * ROUNDS
      <4>1. Cardinality(Stores) = Cardinality(Counting) * R
        BY <2>3, AllStored DEF Runs
      <4>2. Cardinality(Counting) = N /\ R = ROUNDS
        BY <2>1, <2>3, Counters, Programs DEF Runs
      <4>3. counter = Cardinality(Stores)
        BY <2>1, <2>3, Programs, Numbered DEF IInv, Exact, Added, Runs
      <4> QED BY <4>1, <4>2, <4>3
    <3> QED BY <3>1, <2>3 DEF EndCounts, N, Runs
  <2>4. CASE Runs({"mutex_ex3"})
    <3>1. {t \in 1 .. N : reg[t] \in {n \in Nat : n >= TOTAL}} = 1 .. N
      <4>1. \A t \in 1 .. N : reg[t] >= TOTAL /\ reg[t] \in Nat
        <5>1. 1 .. N \subseteq Others
          BY <2>1, Programs
        <5>2. \A t \in 1 .. N : pc[t] = "done"
          BY <2>4, AllDone DEF Runs
        <5> QED BY <5>1, <5>2, <2>4 DEF IInv, Progress, Shape, Numbers, Runs, Others
      <4> QED BY <4>1
    <3>2. Drawn = N
      <4>1. Cardinality(1 .. N) = N
        BY <2>2, FS_Interval
      <4> QED BY <3>1, <4>1 DEF Drawn, CountIn
    <3>3. N = IF counter < TOTAL THEN 0 ELSE counter - TOTAL + 1
      BY <3>2, <2>4 DEF IInv, Draws
    <3>4. counter = TOTAL + N - 1
      BY <3>3, <2>1, <2>2
    <3> QED BY <3>4, <2>4 DEF EndCounts, N, Runs
  <2>5. CASE Runs({"cond_var_ex1"})
    <3>1. Cardinality(Stores) = 2 * TCOUNT
      <4>1. Cardinality(Stores) = Cardinality(Counting) * R
        BY <2>5, AllStored DEF Runs
      <4>2. Cardinality(Counting) = 2 /\ R = TCOUNT
        BY <2>1, <2>5, Counters, Programs
      <4> QED BY <4>1, <4>2
    <3>2. Exercises[program].initial = 0
      BY <2>1, <2>5, Programs DEF Runs
    <3>3. counter = 2 * TCOUNT + 125 * i[Watcher] /\ i[Watcher] \in {0, 1}
      BY <3>1, <3>2, <2>2, <2>5 DEF IInv, Exact, Added, Watched, Runs
    <3> QED BY <3>3, <2>5 DEF EndCounts, Runs
  <2>6. CASE Runs({"expert_thread"})
    <3>1. Cardinality(Stores) = N /\ N \in Nat \ {0}
      <4>1. Cardinality(Stores) = Cardinality(Counting) * R
        BY <2>6, AllStored DEF Runs
      <4>2. Cardinality(Counting) = N /\ R = 1
        BY <2>1, <2>6, Counters, Programs DEF Runs
      <4> QED BY <4>1, <4>2, <2>2
    <3>2. Stores # {}
      BY <3>1, <2>1, Numbered
    <3>3. counter \in 1 .. N
      BY <3>1, <3>2, <2>1, <2>6 DEF IInv, Inexact
    <3> QED BY <3>3, <2>6 DEF EndCounts, N, Runs
  <2>7. CASE Runs({"intermediate_thread"})
    <3>1. Cardinality(Stores) = 1
      <4>1. Cardinality(Stores) = Cardinality(Counting) * R
        BY <2>7, AllStored DEF Runs
      <4>2. Cardinality(Counting) = 1 /\ R = 1
        BY <2>1, <2>7, Counters, Programs DEF Runs
      <4> QED BY <4>1, <4>2
    <3>2. counter = 6
      BY <3>1, <2>1, <2>7, Programs DEF IInv, Exact, Added, Runs
    <3> QED BY <3>2, <2>7 DEF EndCounts, Runs
  <2>8. CASE Runs({"simple_thread", "return", "hard_thread", "join_the_creator"})
    <3>1. Cardinality(Stores) = 0 /\ Exercises[program].initial = 0
      BY <2>1, <2>8, NoRounds, Programs DEF Runs
    <3>2. counter = 0
      BY <3>1, <2>8 DEF IInv, Exact, Added, Runs
    <3> QED BY <3>2, <2>8 DEF EndCounts, Runs
  <2> QED BY <2>1, <2>3, <2>4, <2>5, <2>6, <2>7, <2>8, Programs DEF Runs
<1> QED BY <1>1, Invariance, PTL

-----------------------------------------------------------------------------
(* The test of mutex_ex3 passes the primes and 4: of a number that is not  *)
(* prime, either a divisor is below its half or 2 is one, and 2 is below   *)
(* the half of every even number from 6 on.                                *)
LEMMA PrimeTest ==
  ASSUME NEW n \in Nat, n > 1
  PROVE  is_prime(n) <=> IsPrime(n) \/ n = 4
<1>1. ASSUME IsPrime(n) PROVE is_prime(n)
  <2>1. \A d \in 2 .. n \div 2 - 1 : d \in 2 .. n - 1
    OBVIOUS
  <2> QED BY <1>1, <2>1 DEF IsPrime, is_prime
<1>2. ASSUME n = 4 PROVE is_prime(n)
  <2>1. 2 .. n \div 2 - 1 = {}
    BY <1>2
  <2> QED BY <2>1 DEF is_prime
<1>3. ASSUME is_prime(n), n # 4, NEW d \in 2 .. n - 1, n % d = 0 PROVE FALSE
  <2>1. PICK q \in Nat : n = d * q
    <3>1. n \in Int /\ d \in Int /\ d > 1
      OBVIOUS
    <3>2. n = d * (n \div d)
      BY ONLY <3>1, <1>3, SMT
    <3>3. n \div d \in Int
      BY <3>1
    <3>4. n \div d \in Nat
      BY <3>1, <3>2, <3>3
    <3> QED BY <3>2, <3>4
  <2>2. q # 0 /\ q # 1
    BY <2>1
  <2>3. d > n \div 2 - 1
    BY <1>3 DEF is_prime
  <2>4. CASE q = 2
    <3>1. n = d + d /\ d >= 3
      BY <2>1, <2>4, <1>3
    <3>2. 2 \in 2 .. n \div 2 - 1 /\ n % 2 = 0
      BY <3>1
    <3> QED BY <3>2, <1>3 DEF is_prime
  <2>5. CASE q >= 3
    <3>1. n >= 3 * d
      <4>1. PICK r \in Nat : q = r + 3
        BY <2>5
      <4>2. d * q = d * r + 3 * d /\ d * r \in Nat
        BY <4>1
      <4> QED BY <2>1, <4>2
    <3>2. n \div 2 <= d
      BY <2>3
    <3> QED BY <3>1, <3>2
  <2> QED BY <2>2, <2>4, <2>5
<1> QED BY <1>1, <1>2, <1>3 DEF IsPrime

-----------------------------------------------------------------------------
(* The units of which the values of f at the elements of S consist.        *)
Units(f, S) == {x \in S \X Nat : x[2] \in 1 .. f[x[1]]}

(* They are the units of one element and those of the others.              *)
LEMMA AddUnits ==
  ASSUME NEW f, NEW S, NEW x \in S, f[x] \in Nat, IsFiniteSet(Units(f, S \ {x}))
  PROVE  /\ IsFiniteSet(Units(f, S))
         /\ Cardinality(Units(f, S)) = f[x] + Cardinality(Units(f, S \ {x}))
<1> DEFINE A == Units(f, S \ {x})
           B == {x} \X (1 .. f[x])
<1>1. /\ IsFiniteSet(1 .. f[x]) /\ Cardinality(1 .. f[x]) = f[x]
      /\ IsFiniteSet({x}) /\ Cardinality({x}) = 1
  <2>1. PICK m \in Nat : m = f[x]
    OBVIOUS
  <2>2. IsFiniteSet(1 .. m) /\ Cardinality(1 .. m) = m
    BY FS_Interval
  <2> QED BY <2>1, <2>2, FS_Singleton
<1>2. IsFiniteSet(B) /\ Cardinality(B) = f[x]
  <2>1. IsFiniteSet(B) /\ Cardinality(B) = Cardinality({x}) * Cardinality(1 .. f[x])
    BY <1>1, FS_Product
  <2> QED BY <1>1, <2>1
<1>3. Units(f, S) = A \cup B
  BY DEF Units
<1>4. A \cap B = {}
  BY DEF Units
<1> HIDE DEF B
<1>5. /\ IsFiniteSet(A \cup B) 
      /\ Cardinality(A \cup B) = Cardinality(A) + Cardinality(B) - Cardinality(A \cap B)
  BY <1>2, FS_Union
<1>6. Cardinality(A \cap B) = 0 /\ Cardinality(A) \in Nat
  BY <1>4, FS_EmptySet, FS_CardinalityType
<1> QED BY <1>2, <1>3, <1>5, <1>6

(* Finitely many elements have finitely many.                              *)
LEMMA UnitsFinite ==
  ASSUME NEW f, NEW D, IsFiniteSet(D), \A x \in D : f[x] \in Nat, NEW S \in SUBSET D
  PROVE  IsFiniteSet(Units(f, S)) /\ Cardinality(Units(f, S)) \in Nat
<1> DEFINE Good == {n \in Nat : \A s \in SUBSET D :
                                  Cardinality(s) = n => IsFiniteSet(Units(f, s))}
<1>1. ASSUME NEW s \in SUBSET D PROVE IsFiniteSet(s) /\ Cardinality(s) \in Nat
  BY FS_Subset, FS_CardinalityType
<1>2. 0 \in Good
  <2>1. ASSUME NEW s \in SUBSET D, Cardinality(s) = 0 PROVE IsFiniteSet(Units(f, s))
    <3>1. s = {}
      BY <1>1, <2>1, FS_EmptySet
    <3>2. Units(f, s) = {}
      BY <3>1 DEF Units
    <3> QED BY <3>2, FS_EmptySet
  <2> QED BY <2>1
<1>3. ASSUME NEW n \in Nat \ {0}, n - 1 \in Good PROVE n \in Good
  <2>1. ASSUME NEW s \in SUBSET D, Cardinality(s) = n PROVE IsFiniteSet(Units(f, s))
    <3>1. s # {}
      BY <1>1, <2>1, FS_EmptySet
    <3>2. PICK x \in s : TRUE
      BY <3>1
    <3>3. Cardinality(s \ {x}) = n - 1 /\ s \ {x} \in SUBSET D
      BY <1>1, <2>1, FS_RemoveElement
    <3>4. IsFiniteSet(Units(f, s \ {x}))
      BY <3>3, <1>3
    <3> QED BY <3>4, AddUnits
  <2> QED BY <2>1
<1>4. Cardinality(S) \in Good
  <2> HIDE DEF Good
  <2>1. 0 .. Cardinality(S) \subseteq Good
    <3>1. \A n \in 1 .. Cardinality(S) : n - 1 \in Good => n \in Good
      BY <1>3
    <3> QED BY <1>1, <1>2, <3>1, UpTo
  <2>2. Cardinality(S) \in 0 .. Cardinality(S)
    BY <1>1
  <2> QED BY <2>1, <2>2
<1>5. IsFiniteSet(Units(f, S))
  BY <1>4
<1> QED BY <1>5, FS_CardinalityType

(* SumFunction of the community modules takes the elements off one after   *)
(* the other, in the order CHOOSE gives.                                   *)
Summed(f, h, s) ==
  IF s = {} THEN 0
  ELSE f[CHOOSE x \in s : TRUE] + h[s \ {CHOOSE x \in s : TRUE}]
Fold(f, D) == CHOOSE h : h = [s \in SUBSET D |-> Summed(f, h, s)]

LEMMA SumIsFold ==
  ASSUME NEW f PROVE SumFunction(f) = Fold(f, DOMAIN f)[DOMAIN f]
BY DEF SumFunction, SumFunctionOnSet, FoldFunctionOnSet, MapThenFoldSet, Fold, Summed

(* Counting units satisfies its equation, so that it exists, and any two   *)
(* functions that satisfy it agree: the sum of f is the number of units.   *)
LEMMA SumOfUnits ==
  ASSUME NEW f, IsFiniteSet(DOMAIN f), \A x \in DOMAIN f : f[x] \in Nat
  PROVE  SumFunction(f) = Cardinality(Units(f, DOMAIN f))
<1> DEFINE D == DOMAIN f
           g == [s \in SUBSET D |-> Cardinality(Units(f, s))]
           h == Fold(f, D)
<1>1. ASSUME NEW s \in SUBSET D PROVE IsFiniteSet(s) /\ Cardinality(s) \in Nat
  BY FS_Subset, FS_CardinalityType
<1>2. ASSUME NEW s \in SUBSET D, s # {}, NEW x \in s
      PROVE  g[s] = f[x] + g[s \ {x}]
  <2>1. s \ {x} \in SUBSET D /\ f[x] \in Nat
    OBVIOUS
  <2>2. IsFiniteSet(Units(f, s \ {x}))
    BY <2>1, UnitsFinite
  <2> QED BY <2>1, <2>2, AddUnits
<1>3. g[{}] = 0
  <2>1. Units(f, {}) = {}
    BY DEF Units
  <2> QED BY <2>1, FS_EmptySet
<1>4. \A s \in SUBSET D : g[s] = Summed(f, g, s)
  BY <1>2, <1>3 DEF Summed
<1>5. g = [s \in SUBSET D |-> Summed(f, g, s)]
  BY <1>4
<1>6. h = [s \in SUBSET D |-> Summed(f, h, s)]
  <2> HIDE DEF g
  <2> QED BY <1>5 DEF Fold
<1> DEFINE Good == {n \in Nat : \A s \in SUBSET D : Cardinality(s) = n => h[s] = g[s]}
<1> HIDE DEF g, h
<1>7. 0 \in Good
  <2>1. ASSUME NEW s \in SUBSET D, Cardinality(s) = 0 PROVE h[s] = g[s]
    <3>1. s = {}
      BY <1>1, <2>1, FS_EmptySet
    <3> QED BY <3>1, <1>4, <1>6 DEF Summed
  <2> QED BY <2>1
<1>8. ASSUME NEW n \in Nat \ {0}, n - 1 \in Good PROVE n \in Good
  <2>1. ASSUME NEW s \in SUBSET D, Cardinality(s) = n PROVE h[s] = g[s]
    <3>1. s # {}
      BY <1>1, <2>1, FS_EmptySet
    <3>2. PICK x : x = (CHOOSE y \in s : TRUE) /\ x \in s
      BY <3>1
    <3>3. Cardinality(s \ {x}) = n - 1 /\ s \ {x} \in SUBSET D
      BY <1>1, <2>1, <3>2, FS_RemoveElement
    <3>4. h[s \ {x}] = g[s \ {x}]
      BY <3>3, <1>8
    <3>5. h[s] = f[x] + h[s \ {x}] /\ g[s] = f[x] + g[s \ {x}]
      BY <3>1, <3>2, <1>4, <1>6 DEF Summed
    <3> QED BY <3>4, <3>5
  <2> QED BY <2>1
<1>9. Cardinality(D) \in Good
  <2> HIDE DEF Good
  <2>1. 0 .. Cardinality(D) \subseteq Good
    <3>1. \A n \in 1 .. Cardinality(D) : n - 1 \in Good => n \in Good
      BY <1>8
    <3> QED BY <1>1, <1>7, <3>1, UpTo
  <2>2. Cardinality(D) \in 0 .. Cardinality(D)
    BY <1>1
  <2> QED BY <2>1, <2>2
<1>10. h[D] = g[D]
  BY <1>9
<1> QED BY <1>10, SumIsFold DEF g, h

-----------------------------------------------------------------------------
(* The threads that drew a number and have not printed it, and what they   *)
(* drew.                                                                   *)
Holding == {t \in Others : pc[t] = "drawn"}
Held    == {reg[t] : t \in Holding}

(* Each number drawn is counted by one thread, which says so when it       *)
(* exits, and main adds up what they say.                                  *)
Answers ==
  Runs({"mutex_ex3"}) =>
    /\ \A t \in Others : pc[t] = "done" => status[t] = i[t]
    /\ \A k \in 1 .. Len(received) : received[k] = i[k]
    /\ Cardinality(Units(i, 1 .. N)) = counter - 1

(* Each number drawn is with one thread, or was tested and, if it passed,  *)
(* printed once.                                                           *)
Checked ==
  Runs({"mutex_ex3"}) =>
    /\ Held \subseteq 2 .. counter
    /\ \A t \in Holding, u \in Holding : reg[t] = reg[u] => t = u
    /\ IsInjective(printed)
    /\ Range(printed) = {n \in (2 .. counter) \ Held : is_prime(n)}

(* One more round of one thread is one more unit.                          *)
LEMMA MoreUnits ==
  ASSUME NEW T, IsFiniteSet(T), NEW f, NEW g, NEW t \in T, \A u \in T : f[u] \in Nat,
         g[t] = f[t] + 1, \A u \in T \ {t} : g[u] = f[u]
  PROVE  Cardinality(Units(g, T)) = Cardinality(Units(f, T)) + 1
<1>1. Units(g, T \ {t}) = Units(f, T \ {t})
  BY DEF Units
<1>2. /\ IsFiniteSet(Units(f, T \ {t})) /\ Cardinality(Units(f, T \ {t})) \in Nat
  <2>1. T \ {t} \in SUBSET T
    OBVIOUS
  <2> QED BY <2>1, UnitsFinite
<1>3. f[t] \in Nat /\ g[t] \in Nat
  OBVIOUS
<1>4. Cardinality(Units(f, T)) = f[t] + Cardinality(Units(f, T \ {t}))
  BY <1>2, <1>3, AddUnits
<1>5. Cardinality(Units(g, T)) = g[t] + Cardinality(Units(g, T \ {t}))
  <2>1. IsFiniteSet(Units(g, T \ {t}))
    BY <1>1, <1>2
  <2> QED BY <2>1, <1>3, AddUnits
<1> QED BY <1>1, <1>2, <1>3, <1>4, <1>5

(* The steps of mutex_ex3.                                                 *)
LEMMA PrimeSteps ==
  ASSUME IInv, Runs({"mutex_ex3"}), [Next]_vars
  PROVE  \/ createThread \/ joinThread \/ returnFromMain
         \/ \E t \in Others : next_counter(t) \/ prime_print(t) \/ exitThread(t)
         \/ UNCHANGED vars
<1>1. CASE MainStep
  BY <1>1 DEF MainStep, exitMain, Runs
<1>2. ASSUME NEW t \in Others, ThreadStep(t) \/ spuriousWakeup(t)
      PROVE  next_counter(t) \/ prime_print(t) \/ exitThread(t)
  <2>1. pc[t] \notin {"locked", "loaded", "stored", "watching", "meditating",
                     "signalled", "joins"}
    BY DEF IInv, Shape, Places, Runs, Locking
  <2>2. ~ Runs({"mutex_ex1", "mutex_ex2", "cond_var_ex1", "expert_thread",
                "intermediate_thread", "join_the_creator"})
    BY DEF Runs
  <2> QED BY <1>2, <2>1, <2>2
          DEF ThreadStep, readToWait, joinCreator, incrementAtomic, lockToIncrement,
              load, store, endRound, lockToWatch, meditate, signalReceived,
              stopWatching, spuriousWakeup, Goto, Runs
<1> QED BY <1>1, <1>2 DEF Next, Others

(* What is known of every state of mutex_ex3.                              *)
LEMMA Known ==
  ASSUME IInv
  PROVE  /\ N \in Nat \ {0} /\ 1 .. N \subseteq Others /\ IsFiniteSet(1 .. N)
         /\ created \in 0 .. N /\ Len(received) \in 0 .. created
         /\ received \in Seq(Nat \cup {Garbage})
         /\ Main \in Threads /\ Main \notin Others /\ Others \subseteq Threads
         /\ i \in [Threads -> Nat] /\ status \in [Threads -> Nat]
         /\ counter \in Nat /\ printed \in Seq(Nat)
<1>1. N \in Nat \ {0} /\ 1 .. N \subseteq Others /\ created \in 0 .. N
  BY Programs DEF IInv, Shape, TypeOK, N
<1>2. IsFiniteSet(1 .. N)
  BY <1>1, FS_Interval
<1>3. Len(received) \in 0 .. created /\ received \in Seq(Nat \cup {Garbage})
  BY LenProperties, <1>1 DEF IInv, Shape, TypeOK, Numbers
<1> QED BY <1>1, <1>2, <1>3, Sizes DEF IInv, Shape, TypeOK, Others, Main

(* The statuses say how many numbers were drawn.                           *)
LEMMA AnswersStep == ASSUME IInv, Answers, [Next]_vars PROVE Answers'
<1>0. SUFFICES ASSUME Runs({"mutex_ex3"}) PROVE Answers'
  <2>1. program' = program
    BY DEF Next, vars, MainStep, createThread, joinThread, returnFromMain, exitMain,
           ThreadStep, readToWait, joinCreator, incrementAtomic, lockToIncrement, load,
           store, endRound, next_counter, prime_print, lockToWatch, meditate,
           signalReceived, stopWatching, exitThread, spuriousWakeup
  <2> QED BY <2>1 DEF Answers, Runs
<1>1. /\ \A t \in Others : pc[t] = "done" => status[t] = i[t]
      /\ \A k \in 1 .. Len(received) : received[k] = i[k]
      /\ Cardinality(Units(i, 1 .. N)) = counter - 1
  BY <1>0 DEF Answers
<1>2. pc \in [Threads -> {"unborn", "create", "start", "locked", "loaded",
                         "stored", "drawn", "watching", "meditating",
                         "signalled", "joins", "done", "killed"}]
  BY DEF IInv, Shape, TypeOK
<1>3. \A k \in 1 .. Len(received) : pc[k] = "done"
  BY <1>0 DEF IInv, Shape, Places, Runs
<1>4. CASE createThread
  <2>1. N' = N /\ UNCHANGED <<i, status, received, counter>>
        /\ pc' = [pc EXCEPT ![created + 1] = "start"]
    BY <1>4 DEF createThread, N
  <2>2. \A t \in Others : pc'[t] = "done" => pc[t] = "done"
    BY <2>1, <1>2 DEF Others
  <2> QED BY <1>1, <2>1, <2>2 DEF Answers
<1>5. CASE joinThread
  <2>1. /\ N' = N /\ UNCHANGED <<i, status, pc, counter>>
        /\ received' = Append(received, status[Len(received) + 1])
        /\ pc[Len(received) + 1] = "done" /\ Len(received) < created
    BY <1>5 DEF joinThread, N
  <2>2. Len(received) + 1 \in Others /\ Len(received) \in Nat
    BY <2>1, Known
  <2>3. status[Len(received) + 1] = i[Len(received) + 1]
        /\ status[Len(received) + 1] \in Nat \cup {Garbage}
    BY <2>1, <2>2, <1>1, Known
  <2>4. /\ Len(received') = Len(received) + 1
        /\ \A k \in 1 .. Len(received) : received'[k] = received[k]
        /\ received'[Len(received) + 1] = status[Len(received) + 1]
    BY <2>1, <2>3, Known, AppendElements
  <2>5. \A k \in 1 .. Len(received') : received'[k] = i[k]
    <3>1. \A k \in 1 .. Len(received') : k \in 1 .. Len(received) \/ k = Len(received) + 1
      BY <2>2, <2>4
    <3> QED BY <3>1, <2>3, <2>4, <1>1
  <2> QED BY <1>1, <2>1, <2>5 DEF Answers
<1>6. CASE returnFromMain
  <2>1. N' = N /\ UNCHANGED <<i, status, received, counter>>
    BY <1>6 DEF returnFromMain, N
  <2>2. \A t \in Others : pc'[t] = "done" => pc[t] = "done"
    BY <1>6 DEF returnFromMain, Others
  <2> QED BY <1>1, <2>1, <2>2 DEF Answers
<1>7. ASSUME NEW t \in Others, next_counter(t) PROVE Answers'
  <2>1. /\ N' = N /\ UNCHANGED <<status, received>> /\ counter' = counter + 1
        /\ pc[t] = "start" /\ pc' = [pc EXCEPT ![t] = "drawn"]
        /\ i' = [i EXCEPT ![t] = i[t] + 1]
    BY <1>7 DEF next_counter, Goto, NextRound, N
  <2>2. t \in 1 .. N
    <3>1. ~ (t > created)
      BY <2>1 DEF IInv, Shape, Places
    <3>2. t \in Nat \ {0}
      BY Sizes DEF Others, Main
    <3> QED BY <3>1, <3>2, Known
  <2>3. i'[t] = i[t] + 1 /\ \A u \in Threads \ {t} : i'[u] = i[u] /\ pc'[u] = pc[u]
    BY <2>1, <1>2, Known DEF Others
  <2>4. Cardinality(Units(i', 1 .. N)) = Cardinality(Units(i, 1 .. N)) + 1
    <3>1. PICK T, f, g : T = 1 .. N /\ f = i /\ g = i'
      OBVIOUS
    <3>2. /\ IsFiniteSet(T) /\ t \in T /\ \A u \in T : f[u] \in Nat
          /\ g[t] = f[t] + 1 /\ \A u \in T \ {t} : g[u] = f[u]
      BY <3>1, <2>2, <2>3, Known
    <3>3. Cardinality(Units(g, T)) = Cardinality(Units(f, T)) + 1
      BY <3>2, MoreUnits
    <3> QED BY <3>1, <3>3
  <2>5. Cardinality(Units(i, 1 .. N)') = counter' - 1
    <3>1. Units(i, 1 .. N)' = Units(i', 1 .. N)
      BY <2>1 DEF Units
    <3> QED BY <3>1, <2>1, <2>4, <1>1, Known
  <2>6. \A u \in Others : pc'[u] = "done" => status'[u] = i'[u]
    <3>1. pc'[t] = "drawn"
      BY <2>1, <1>2, Known
    <3> QED BY <3>1, <2>1, <2>3, <1>1, Known
  <2>7. \A k \in 1 .. Len(received') : received'[k] = i'[k]
    <3>1. \A k \in 1 .. Len(received) : k # t
      BY <1>3, <2>1
    <3>2. 1 .. Len(received) \subseteq 1 .. N
      BY Known
    <3>3. 1 .. N \subseteq Threads
      BY Known
    <3> QED BY <3>1, <3>2, <3>3, <2>1, <2>3, <1>1
  <2> QED BY <2>5, <2>6, <2>7 DEF Answers
<1>8. ASSUME NEW t \in Others, prime_print(t) PROVE Answers'
  <2>1. N' = N /\ UNCHANGED <<i, status, received, counter>>
        /\ pc' = [pc EXCEPT ![t] = "start"]
    BY <1>8 DEF prime_print, Goto, N
  <2>2. \A u \in Others : pc'[u] = "done" => pc[u] = "done"
    BY <2>1, <1>2 DEF Others
  <2> QED BY <1>1, <2>1, <2>2 DEF Answers
<1>9. ASSUME NEW t \in Others, exitThread(t) PROVE Answers'
  <2>1. /\ N' = N /\ UNCHANGED <<i, received, counter>>
        /\ pc' = [pc EXCEPT ![t] = "done"] /\ status' = [status EXCEPT ![t] = i[t]]
    BY <1>9, <1>0 DEF exitThread, Goto, N, ExitStatus, Runs
  <2>2. \A u \in Others : pc'[u] = "done" => status'[u] = i[u]
    BY <2>1, <1>1, <1>2, Known
  <2> QED BY <1>1, <2>1, <2>2 DEF Answers
<1>10. CASE UNCHANGED vars
  BY <1>1, <1>10 DEF vars, Answers, N
<1> QED BY <1>0, <1>4, <1>5, <1>6, <1>7, <1>8, <1>9, <1>10, PrimeSteps

(* Steps that neither draw nor print.                                      *)
LEMMA CheckedSame ==
  ASSUME Runs({"mutex_ex3"}), Checked, UNCHANGED <<counter, printed, reg>>,
         Holding' = Holding
  PROVE  Checked'
<1>1. Held' = Held
  BY DEF Held
<1>2. Range(printed)' = Range(printed)
  OBVIOUS
<1>3. /\ Held \subseteq 2 .. counter
      /\ \A t \in Holding, u \in Holding : reg[t] = reg[u] => t = u
      /\ IsInjective(printed)
      /\ Range(printed) = {n \in (2 .. counter) \ Held : is_prime(n)}
  BY DEF Checked
<1> QED BY <1>1, <1>2, <1>3 DEF Checked

(* A number drawn is tested once, by the thread that drew it.              *)
LEMMA CheckedStep == ASSUME IInv, Checked, [Next]_vars PROVE Checked'
<1>0. SUFFICES ASSUME Runs({"mutex_ex3"}) PROVE Checked'
  <2>1. program' = program
    BY DEF Next, vars, MainStep, createThread, joinThread, returnFromMain, exitMain,
           ThreadStep, readToWait, joinCreator, incrementAtomic, lockToIncrement, load,
           store, endRound, next_counter, prime_print, lockToWatch, meditate,
           signalReceived, stopWatching, exitThread, spuriousWakeup
  <2> QED BY <2>1 DEF Checked, Runs
<1>1. /\ Held \subseteq 2 .. counter
      /\ \A t \in Holding, u \in Holding : reg[t] = reg[u] => t = u
      /\ IsInjective(printed)
      /\ Range(printed) = {n \in (2 .. counter) \ Held : is_prime(n)}
  BY <1>0 DEF Checked
<1>2. /\ pc \in [Threads -> {"unborn", "create", "start", "locked", "loaded",
                            "stored", "drawn", "watching", "meditating",
                            "signalled", "joins", "done", "killed"}]
      /\ reg \in [Threads -> Nat \cup {Garbage}]
      /\ counter \in Nat /\ counter >= 1
  BY <1>0 DEF IInv, Shape, TypeOK, Draws
<1>3. CASE createThread
  <2>1. UNCHANGED <<counter, printed, reg>> /\ created + 1 \in Others
        /\ pc' = [pc EXCEPT ![created + 1] = "start"]
    <3>1. UNCHANGED <<counter, printed, reg>> /\ created < N
          /\ pc' = [pc EXCEPT ![created + 1] = "start"]
      BY <1>3 DEF createThread, moreThreads, N
    <3>2. created \in 0 .. N /\ N \in Nat /\ 1 .. N \subseteq Others
      BY Known
    <3>3. created + 1 \in 1 .. N
      BY <3>1, <3>2
    <3> QED BY <3>1, <3>2, <3>3
  <2>2. pc[created + 1] = "unborn"
    BY <2>1, Known DEF IInv, Shape, Places
  <2>3. Holding' = Holding
    BY <2>1, <2>2, <1>2, Known DEF Holding
  <2> QED BY <1>0, <2>1, <2>3, CheckedSame
<1>4. CASE joinThread
  <2>1. UNCHANGED <<counter, printed, reg>> /\ Holding' = Holding
    BY <1>4 DEF joinThread, Holding
  <2> QED BY <1>0, <2>1, CheckedSame
<1>5. CASE returnFromMain
  <2>1. UNCHANGED <<counter, printed, reg>>
    BY <1>5 DEF returnFromMain
  <2>2. Holding' = Holding
    BY <1>5, Known DEF returnFromMain, Holding
  <2> QED BY <1>0, <2>1, <2>2, CheckedSame
<1>6. ASSUME NEW t \in Others, next_counter(t) PROVE Checked'
  <2>1. /\ printed' = printed /\ counter' = counter + 1 /\ pc[t] = "start"
        /\ pc' = [pc EXCEPT ![t] = "drawn"] /\ reg' = [reg EXCEPT ![t] = counter + 1]
    BY <1>6 DEF next_counter, Goto
  <2>2. /\ reg'[t] = counter + 1 /\ pc'[t] = "drawn" /\ t \notin Holding
        /\ \A u \in Others \ {t} : reg'[u] = reg[u] /\ pc'[u] = pc[u]
    BY <2>1, <1>2, Known DEF Holding
  <2>3. Holding' = Holding \cup {t}
    BY <2>2 DEF Holding
  <2>4. \A u \in Holding : u # t /\ reg'[u] = reg[u] /\ reg[u] \in Held
    BY <2>2 DEF Holding, Held
  <2>5. Held' = Held \cup {counter + 1}
    <3>1. Held' = {reg'[u] : u \in Holding'}
      BY DEF Held
    <3>2. {reg'[u] : u \in Holding} = Held
      BY <2>4 DEF Held
    <3> QED BY <3>1, <3>2, <2>2, <2>3
  <2>6. counter + 1 \notin Held
    BY <1>1, <1>2
  <2>7. Held' \subseteq 2 .. counter'
    BY <2>1, <2>5, <1>1, <1>2
  <2>8. \A u \in Holding', v \in Holding' : reg'[u] = reg'[v] => u = v
    BY <2>2, <2>3, <2>4, <2>6, <1>1
  <2>9. (2 .. counter') \ Held' = (2 .. counter) \ Held
    BY <2>1, <2>5, <1>2
  <2> QED BY <2>1, <2>7, <2>8, <2>9, <1>1 DEF Checked
<1>7. ASSUME NEW t \in Others, prime_print(t) PROVE Checked'
  <2>1. /\ counter' = counter /\ reg' = reg /\ pc[t] = "drawn"
        /\ pc' = [pc EXCEPT ![t] = "start"]
        /\ printed' = IF is_prime(reg[t]) THEN Append(printed, reg[t]) ELSE printed
    BY <1>7 DEF prime_print, Goto
  <2>2. t \in Holding /\ Holding' = Holding \ {t}
    BY <2>1, <1>2, Known DEF Holding
  <2>3. Held' = Held \ {reg[t]}
    <3>1. Held' = {reg[u] : u \in Holding \ {t}}
      BY <2>1, <2>2 DEF Held
    <3>2. \A u \in Holding \ {t} : reg[u] # reg[t]
      BY <2>2, <1>1
    <3> QED BY <3>1, <3>2, <2>2 DEF Held
  <2>4. reg[t] \in 2 .. counter /\ reg[t] \in Held
    BY <2>2, <1>1 DEF Held
  <2>5. (2 .. counter) \ Held' = ((2 .. counter) \ Held) \cup {reg[t]}
    BY <2>3, <2>4
  <2>6. reg[t] \notin Range(printed)
    BY <2>4, <1>1
  <2>7. Range(printed') = {n \in (2 .. counter) \ Held' : is_prime(n)}
        /\ IsInjective(printed')
    <3>1. CASE is_prime(reg[t])
      <4>1. printed' = Append(printed, reg[t]) /\ reg[t] \in Nat
        BY <2>1, <2>4, <3>1, <1>2
      <4>2. PICK p, x : p = printed /\ x = reg[t]
        OBVIOUS
      <4>3. /\ p \in Seq(Nat) /\ x \in Nat /\ IsInjective(p) /\ x \notin Range(p)
        BY <4>1, <4>2, <2>6, <1>1, Known
      <4>4. /\ Range(Append(p, x)) = Range(p) \cup {x}
            /\ Append(p, x) \in Seq(Nat)
            /\ Len(Append(p, x)) = Len(p) + 1
            /\ \A k \in 1 .. Len(p) : Append(p, x)[k] = p[k]
            /\ Append(p, x)[Len(p) + 1] = x
        BY <4>3, AppendElements
      <4>5. IsInjective(Append(p, x))
        <5>1. /\ DOMAIN p = 1 .. Len(p) /\ Len(p) \in Nat
              /\ DOMAIN Append(p, x) = 1 .. Len(p) + 1
          BY <4>3, <4>4, LenProperties
        <5>2. \A k \in 1 .. Len(p) + 1 : k \in 1 .. Len(p) \/ k = Len(p) + 1
          BY <5>1
        <5>3. \A k \in 1 .. Len(p) : p[k] # x
          BY <4>3, <5>1 DEF Range
        <5> QED BY <4>3, <4>4, <5>1, <5>2, <5>3 DEF IsInjective
      <4>6. Range(Append(p, x)) = {n \in (2 .. counter) \ Held' : is_prime(n)}
        BY <4>2, <4>4, <2>5, <3>1, <1>1
      <4> QED BY <4>1, <4>2, <4>5, <4>6
    <3>2. CASE ~ is_prime(reg[t])
      BY <3>2, <2>1, <2>5, <1>1
    <3> QED BY <3>1, <3>2
  <2>8. Held' \subseteq 2 .. counter'
    BY <2>1, <2>3, <1>1
  <2>9. \A u \in Holding', v \in Holding' : reg'[u] = reg'[v] => u = v
    BY <2>1, <2>2, <1>1
  <2> QED BY <2>1, <2>7, <2>8, <2>9 DEF Checked
<1>8. ASSUME NEW t \in Others, exitThread(t) PROVE Checked'
  <2>1. UNCHANGED <<counter, printed, reg>> /\ pc[t] = "start"
        /\ pc' = [pc EXCEPT ![t] = "done"]
    BY <1>8 DEF exitThread, Goto
  <2>2. Holding' = Holding
    BY <2>1, <1>2, Known DEF Holding
  <2> QED BY <1>0, <2>1, <2>2, CheckedSame
<1>9. CASE UNCHANGED vars
  BY <1>0, <1>9, CheckedSame DEF vars, Holding
<1> QED BY <1>0, <1>3, <1>4, <1>5, <1>6, <1>7, <1>8, <1>9, PrimeSteps

(* Nothing is drawn at the start.                                          *)
LEMMA NothingDrawn == Init => Answers /\ Checked
<1> SUFFICES ASSUME Init, Runs({"mutex_ex3"}) PROVE Answers /\ Checked
  BY DEF Answers, Checked
<1>1. IInv
  BY IInvInit
<1>2. counter = 1
  BY Programs DEF Init, Runs
<1>3. received = <<>> /\ printed = <<>> /\ \A t \in Others : pc[t] = "unborn" /\ i[t] = 0
  BY <1>1, Known DEF Init
<1>4. Cardinality(Units(i, 1 .. N)) = 0
  <2>1. \A t \in 1 .. N : i[t] = 0
    BY <1>1, <1>3, Known
  <2>2. Units(i, 1 .. N) = {}
    BY <2>1 DEF Units
  <2> QED BY <2>2, FS_EmptySet
<1>5. Answers
  BY <1>2, <1>3, <1>4 DEF Answers
<1>6. Holding = {} /\ Held = {}
  BY <1>3 DEF Holding, Held
<1>7. IsInjective(printed) /\ Range(printed) = {}
  BY <1>3 DEF IsInjective, Range
<1>8. Checked
  BY <1>2, <1>6, <1>7 DEF Checked
<1> QED BY <1>5, <1>8

(* Whatever the interleaving, mutex_ex3 draws each number from 2 to its    *)
(* last one once, as the statuses of its threads say, and prints the       *)
(* primes among them, and 4, which its test takes for one, once each.      *)
THEOREM PrimesAreRight == FairSpec => []PrimesPrinted
<1>1. ASSUME IInv, Answers, Checked PROVE PrimesPrinted
  <2> SUFFICES ASSUME Ended, Runs({"mutex_ex3"})
               PROVE  /\ SumFunction(received) = counter - 1
                      /\ IsInjective(printed)
                      /\ Range(printed) = {n \in 2 .. counter : IsPrime(n) \/ n = 4}
    BY DEF PrimesPrinted
  <2>1. \A t \in 1 .. N : pc[t] = "done"
    BY <1>1, AllDone DEF Runs
  <2>2. Len(received) = N
    BY <1>1 DEF IInv, Progress, Ended, Runs
  <2>3. SumFunction(received) = counter - 1
    <3>1. DOMAIN received = 1 .. N
      BY <1>1, <2>2, Known, LenProperties
    <3>2. \A k \in 1 .. N : received[k] = i[k] /\ i[k] \in Nat
      BY <1>1, <2>2, Known DEF Answers
    <3>3. SumFunction(received) = Cardinality(Units(received, 1 .. N))
      BY <1>1, <3>1, <3>2, Known, SumOfUnits
    <3>4. Units(received, 1 .. N) = Units(i, 1 .. N)
      BY <3>2 DEF Units
    <3> QED BY <1>1, <3>3, <3>4 DEF Answers
  <2>4. Holding = {}
    <3>1. \A t \in Others : t > created => pc[t] = "unborn"
      BY <1>1 DEF IInv, Shape, Places
    <3>2. \A t \in Others : t \in Nat \ {0}
      BY Sizes DEF Others, Main
    <3>3. created \in 0 .. N /\ N \in Nat
      BY <1>1, Known
    <3>4. \A t \in Others : t > created \/ t \in 1 .. N
      BY <3>2, <3>3
    <3> QED BY <3>1, <3>4, <2>1 DEF Holding
  <2>5. Held = {}
    BY <2>4 DEF Held
  <2>6. IsInjective(printed) /\ Range(printed) = {n \in 2 .. counter : is_prime(n)}
    BY <1>1, <2>5 DEF Checked
  <2>7. \A n \in 2 .. counter : is_prime(n) <=> IsPrime(n) \/ n = 4
    <3>1. counter \in Nat
      BY <1>1, Known
    <3>2. \A n \in 2 .. counter : n \in Nat /\ n > 1
      BY <3>1
    <3> QED BY <3>2, PrimeTest
  <2> QED BY <2>3, <2>6, <2>7
<1>2. FairSpec => Init /\ [][Next]_vars
  BY PTL DEF FairSpec
<1>3. IInv /\ Answers /\ Checked /\ [Next]_vars => Answers' /\ Checked'
  BY AnswersStep, CheckedStep
<1> QED BY <1>1, <1>2, <1>3, NothingDrawn, Invariance, PTL
=============================================================================
