--------------------------- MODULE RecQueueProofs ---------------------------
(***************************************************************************)
(* For any number of threads, elements and enqueues: RecQueue keeps its    *)
(* types, its counters are exact, and it implements CancelQueue.  The      *)
(* callers of RecQueueTests use it as specified, are woken in the order    *)
(* they came, and are misled by size() only when it is out of date.        *)
(***************************************************************************)
EXTENDS RecQueueTests, CommonLemmas

(* What TypeOK leaves out: the types of the history.                       *)
Types ==
  /\ TypeOK
  /\ accepted \in Seq(Elems)
  /\ requests \in Nat
  /\ ticket \in [Threads -> Nat]

(* The inductive invariant.  Its first part numbers elements and requests, *)
(* as in HandoffQueueProofs: the elements in the queue are those after the *)
(* last request, the waiting threads have the numbers after the last       *)
(* element, and any other request has the element with its own number in   *)
(* hand, or was cancelled.                                                 *)
Mutex == \A t \in Threads : pc[t] \in {"took", "visited", "tried"} => q_lock = t

Numbers ==
  /\ Len(accepted) + Len(waiting_threads_q) = requests + Len(main_q)
  /\ \A i \in 1 .. Len(main_q) : main_q[i] = accepted[requests + i]

Waiting ==
  \A i \in 1 .. Len(waiting_threads_q) :
    /\ pc[waiting_threads_q[i]] = "waiting"
    /\ ticket[waiting_threads_q[i]] = Len(accepted) + i

HasElem(t, e) == ticket[t] \in 1 .. Len(accepted) /\ e = accepted[ticket[t]]

InHand(t) ==
  /\ pc[t] = "idle" => ticket[t] = 0
  /\ pc[t] = "waiting" => \E i \in 1 .. Len(waiting_threads_q) :
                            waiting_threads_q[i] = t
  /\ pc[t] = "signalled" => IF legal[t] THEN HasElem(t, elem[t])
                                        ELSE ticket[t] = 0 /\ elem[t] = NULL
  /\ pc[t] \in {"took", "visited", "tried"} => HasElem(t, dequeued_elem[t])

Numbered ==
  /\ main_q = <<>> \/ waiting_threads_q = <<>>
  /\ inUse => Numbers
  /\ ~ inUse => main_q = <<>> /\ waiting_threads_q = <<>>
  /\ Waiting
  /\ \A t \in Threads : InHand(t)

(* Its second part counts threads by where they are: a thread that was     *)
(* signalled by destroyQueue is in a place of its own.  What remains of    *)
(* the counts after destroyQueue are the lower bounds.                     *)
Place(p, l) == [t \in Threads |-> IF p[t] = "signalled" /\ ~ l[t]
                                  THEN "cancelled" ELSE p[t]]
Count(f, L) == CountIn(Threads, f, L)

Owing     == {"signalled", "took", "visited"}
Signalled == {"signalled"}
Visited   == {"visited"}
Tried     == {"tried"}

Counting ==
  /\ inUse =>
       /\ full_size = Len(main_q) + Count(Place(pc, legal), Owing)
       /\ waiting_threads_num = Len(waiting_threads_q) + Count(Place(pc, legal), Signalled)
       /\ full_size + visited_elements_num + Count(Place(pc, legal), Tried)
            = Len(accepted) + Count(Place(pc, legal), Visited)
  /\ full_size >= Count(Place(pc, legal), Owing)
  /\ waiting_threads_num >= Count(Place(pc, legal), Signalled)

IInv == Types /\ Mutex /\ Numbered /\ Counting

-----------------------------------------------------------------------------
(* The elements and the waiting threads are sequences of known length.     *)
LEMMA Lists ==
  ASSUME Types
  PROVE  /\ Len(main_q) \in Nat /\ Len(waiting_threads_q) \in Nat
         /\ Len(accepted) \in Nat /\ requests \in Nat
         /\ \A i \in 1 .. Len(waiting_threads_q) : waiting_threads_q[i] \in Threads
         /\ Waiters = {waiting_threads_q[i] : i \in 1 .. Len(waiting_threads_q)}
         /\ \A t \in Threads : ticket[t] \in Nat
<1>1. waiting_threads_q \in Seq(Threads)
  BY DEF Types, TypeOK
<1>2. /\ Len(waiting_threads_q) \in Nat
      /\ Waiters = {waiting_threads_q[i] : i \in 1 .. Len(waiting_threads_q)}
      /\ Waiters \subseteq Threads
  BY <1>1, LenProperties, RangeEquality, RangeOfSeq DEF Waiters
<1> QED BY <1>2, LenProperties DEF Types, TypeOK

(* A thread that does not wait is in no place of the list.                 *)
LEMMA NotLinked ==
  ASSUME Types, Numbered, NEW t \in Threads, pc[t] # "waiting"
  PROVE  \A i \in 1 .. Len(waiting_threads_q) : waiting_threads_q[i] # t
BY DEF Numbered, Waiting

(* A program that has not called initQueue has everything in order.        *)
LEMMA InitNumbered == Init => Types /\ Mutex /\ Numbered
<1> SUFFICES ASSUME Init PROVE Types /\ Mutex /\ Numbered
  OBVIOUS
<1>1. main_q \in Seq(Elems) /\ waiting_threads_q \in Seq(Threads) /\ accepted \in Seq(Elems)
  BY EmptySeq DEF Init
<1>2. inUse \in BOOLEAN /\ legal \in [Threads -> BOOLEAN]
  BY Zenon DEF Init
<1>3. /\ q_lock \in Threads \cup {NULL}
      /\ full_size \in Nat /\ visited_elements_num \in Nat /\ waiting_threads_num \in Nat
      /\ requests \in Nat /\ ticket \in [Threads -> Nat]
      /\ pc \in [Threads -> {"idle", "waiting", "signalled", "took", "visited", "tried"}]
  BY DEF Init
<1>4. /\ elem \in [Threads -> Elems \cup {NULL, Garbage}]
      /\ dequeued_elem \in [Threads -> Elems \cup {NULL}]
      /\ ret \in [Threads -> Elems \cup {NULL}]
  BY DEF Init
<1>5. Types
  BY <1>1, <1>2, <1>3, <1>4, Zenon DEF Types, TypeOK
<1>6. \A t \in Threads : InHand(t) /\ pc[t] = "idle"
  BY DEF Init, InHand
<1>7. Len(waiting_threads_q) = 0 /\ inUse = FALSE /\ main_q = <<>>
      /\ waiting_threads_q = <<>>
  BY EmptySeq DEF Init
<1>8. Waiting
  BY <1>7 DEF Waiting
<1> QED BY <1>5, <1>6, <1>7, <1>8, Zenon DEF Mutex, Numbered

-----------------------------------------------------------------------------
(* A step of one thread that is not waiting and does not start to wait,    *)
(* and that leaves the lists and the numbers of all others alone.          *)
LEMMA NumberedQuiet ==
  ASSUME Types, Numbered, NEW t \in Threads, pc[t] # "waiting",
         UNCHANGED <<inUse, queues, accepted, requests>>,
         \A u \in Threads \ {t} :
           /\ pc'[u] = pc[u] /\ ticket'[u] = ticket[u] /\ elem'[u] = elem[u]
           /\ legal'[u] = legal[u] /\ dequeued_elem'[u] = dequeued_elem[u],
         InHand(t)'
  PROVE  Numbered'
<1>1. \A i \in 1 .. Len(waiting_threads_q) : waiting_threads_q[i] \in Threads \ {t}
  BY Lists, NotLinked
<1>2. Waiting'
  BY <1>1 DEF Waiting, Numbered, queues
<1>3. \A u \in Threads \ {t} : InHand(u)'
  BY DEF Numbered, InHand, HasElem, queues
<1> QED BY <1>2, <1>3 DEF Numbered, Numbers, queues

(* dequeue of an element that is there, and tryDequeue, take the element   *)
(* with the number of the new request.                                     *)
LEMMA NumberedTake ==
  ASSUME Types, Numbered, NEW t \in Threads, pc[t] = "idle", inUse,
         pop_from_main_q(t), NewTicket(t),
         UNCHANGED <<inUse, waiting_threads_q, node>>,
         NEW l \in {"visited", "tried"}, pc' = [pc EXCEPT ![t] = l]
  PROVE  Numbered'
<1>1. /\ waiting_threads_q = <<>> /\ waiting_threads_q' = <<>>
      /\ Len(waiting_threads_q) = 0
  BY EmptySeq DEF pop_from_main_q, Numbered
<1>2. /\ Len(main_q) >= 1 /\ Len(main_q') = Len(main_q) - 1
      /\ Head(main_q) = main_q[1] /\ Head(main_q) \in Elems
      /\ \A i \in 1 .. Len(main_q') : main_q'[i] = main_q[i + 1]
      /\ dequeued_elem' = [dequeued_elem EXCEPT ![t] = Head(main_q)]
  BY TailElements DEF pop_from_main_q, Types, TypeOK
<1>3. /\ requests' = requests + 1 /\ accepted' = accepted
      /\ ticket' = [ticket EXCEPT ![t] = requests + 1]
  BY DEF NewTicket
<1>4. /\ Len(main_q) \in Nat /\ requests \in Nat /\ Len(accepted) \in Nat
      /\ Len(accepted) = requests + Len(main_q)
      /\ \A i \in 1 .. Len(main_q) : main_q[i] = accepted[requests + i]
  BY <1>1, Lists DEF Numbered, Numbers
<1>5. Numbers'
  <2>1. ASSUME NEW i \in 1 .. Len(main_q')
        PROVE  main_q'[i] = accepted'[requests' + i]
    <3>1. i + 1 \in 1 .. Len(main_q) /\ requests + (i + 1) = (requests + 1) + i
      <4>1. Len(main_q') = Len(main_q) - 1 /\ Len(main_q) \in Nat /\ requests \in Nat
        BY <1>2, <1>4
      <4> QED BY <4>1
    <3> QED BY <1>2, <1>3, <1>4, <3>1
  <2>2. Len(accepted') + Len(waiting_threads_q') = requests' + Len(main_q')
    BY <1>1, <1>2, <1>3, <1>4
  <2> QED BY <2>1, <2>2 DEF Numbers
<1>6. ASSUME NEW u \in Threads PROVE InHand(u)'
  <2>1. CASE u = t
    <3>1. pc'[t] = l /\ ticket'[t] = requests + 1 /\ dequeued_elem'[t] = main_q[1]
      BY <1>2, <1>3 DEF Types, TypeOK
    <3>2. 1 \in 1 .. Len(main_q) /\ requests + 1 \in 1 .. Len(accepted)
      BY <1>2, <1>4
    <3> QED BY <1>3, <1>4, <2>1, <3>1, <3>2 DEF InHand, HasElem
  <2>2. CASE u # t
    <3>1. /\ pc'[u] = pc[u] /\ ticket'[u] = ticket[u] /\ elem'[u] = elem[u]
          /\ legal'[u] = legal[u] /\ dequeued_elem'[u] = dequeued_elem[u]
      BY <1>2, <1>3, <2>2 DEF Types, TypeOK, node
    <3> QED BY <1>3, <3>1 DEF Numbered, InHand, HasElem
  <2> QED BY <2>1, <2>2
<1> QED BY <1>1, <1>5, <1>6 DEF Numbered, Waiting

(* A dequeue that has to wait is linked behind all the others.             *)
LEMMA NumberedWait ==
  ASSUME Types, Numbered, NEW t \in Threads, dequeueWait(t)
  PROVE  Numbered'
<1>1. /\ inUse /\ inUse' /\ pc[t] = "idle" /\ main_q = <<>> /\ main_q' = main_q
      /\ Len(main_q) = 0 /\ accepted' = accepted /\ requests' = requests + 1
      /\ ticket' = [ticket EXCEPT ![t] = requests + 1]
      /\ pc' = [pc EXCEPT ![t] = "waiting"]
      /\ dequeued_elem' = dequeued_elem
      /\ \A u \in Threads \ {t} : elem'[u] = elem[u] /\ legal'[u] = legal[u]
  BY EmptySeq DEF dequeueWait, Enter, Goto, NewTicket, Types, TypeOK
<1>2. /\ Len(waiting_threads_q') = Len(waiting_threads_q) + 1
      /\ \A i \in 1 .. Len(waiting_threads_q) :
           waiting_threads_q'[i] = waiting_threads_q[i]
      /\ waiting_threads_q'[Len(waiting_threads_q) + 1] = t
  BY AppendElements DEF dequeueWait, insert_to_threads_q, Types, TypeOK
<1>3. /\ Len(waiting_threads_q) \in Nat /\ requests \in Nat /\ Len(accepted) \in Nat
      /\ requests = Len(accepted) + Len(waiting_threads_q)
  BY <1>1, Lists DEF Numbered, Numbers
<1>4. Numbers'
  BY <1>1, <1>2, <1>3 DEF Numbers
<1>5. Waiting'
  <2> SUFFICES ASSUME NEW i \in 1 .. Len(waiting_threads_q')
               PROVE  /\ pc'[waiting_threads_q'[i]] = "waiting"
                      /\ ticket'[waiting_threads_q'[i]] = Len(accepted') + i
    BY DEF Waiting
  <2>1. CASE i = Len(waiting_threads_q) + 1
    BY <1>1, <1>2, <1>3, <2>1 DEF Types, TypeOK
  <2>2. CASE i \in 1 .. Len(waiting_threads_q)
    <3>1. waiting_threads_q[i] \in Threads \ {t}
      BY <1>1, <2>2, Lists, NotLinked
    <3> QED BY <1>1, <1>2, <2>2, <3>1 DEF Types, TypeOK, Numbered, Waiting
  <2> QED BY <1>2, <1>3, <2>1, <2>2
<1>6. ASSUME NEW u \in Threads PROVE InHand(u)'
  <2>1. CASE u = t
    <3>1. pc'[t] = "waiting" /\ Len(waiting_threads_q) + 1 \in 1 .. Len(waiting_threads_q')
      BY <1>1, <1>2, <1>3 DEF Types, TypeOK
    <3> QED BY <1>2, <2>1, <3>1 DEF InHand
  <2>2. CASE u # t
    <3>1. pc'[u] = pc[u] /\ ticket'[u] = ticket[u]
      BY <1>1, <2>2 DEF Types, TypeOK
    <3>2. \A i \in 1 .. Len(waiting_threads_q) :
             i \in 1 .. Len(waiting_threads_q') /\ waiting_threads_q'[i] = waiting_threads_q[i]
      BY <1>2, <1>3
    <3> QED BY <1>1, <2>2, <3>1, <3>2 DEF Numbered, InHand, HasElem
  <2> QED BY <2>1, <2>2
<1> QED BY <1>1, <1>4, <1>5, <1>6 DEF Numbered

(* enqueue gives its element the next number, which is that of the thread  *)
(* it unlinks, if there is one.                                            *)
LEMMA NumberedEnqueue ==
  ASSUME Types, Numbered, NEW t \in Threads, NEW e \in Elems, enqueue(t, e)
  PROVE  Numbered'
<1>1. /\ inUse /\ inUse' /\ requests' = requests /\ ticket' = ticket
      /\ dequeued_elem' = dequeued_elem
      /\ Len(accepted') = Len(accepted) + 1
      /\ \A i \in 1 .. Len(accepted) : accepted'[i] = accepted[i]
      /\ accepted'[Len(accepted) + 1] = e
  BY AppendElements DEF enqueue, Enter, Types
<1>2. /\ Len(main_q) \in Nat /\ Len(waiting_threads_q) \in Nat
      /\ Len(accepted) \in Nat /\ requests \in Nat
      /\ Len(accepted) + Len(waiting_threads_q) = requests + Len(main_q)
      /\ \A i \in 1 .. Len(main_q) : main_q[i] = accepted[requests + i]
  BY <1>1, Lists DEF Numbered, Numbers
<1>3. ASSUME NEW u \in Threads, NEW x, HasElem(u, x)
      PROVE  ticket'[u] \in 1 .. Len(accepted') /\ x = accepted'[ticket'[u]]
  BY <1>1, <1>2, <1>3 DEF HasElem
<1>4. CASE waiting_threads_q # <<>>
  <2> DEFINE w == Head(waiting_threads_q)
  <2>1. /\ w \in Threads /\ w = waiting_threads_q[1]
        /\ Len(waiting_threads_q) >= 1
        /\ Len(waiting_threads_q') = Len(waiting_threads_q) - 1
        /\ \A i \in 1 .. Len(waiting_threads_q') :
             waiting_threads_q'[i] = waiting_threads_q[i + 1]
    <3>1. waiting_threads_q' = Tail(waiting_threads_q)
      BY <1>4 DEF enqueue
    <3>2. waiting_threads_q \in Seq(Threads)
      BY DEF Types, TypeOK
    <3>3. /\ w \in Threads /\ w = waiting_threads_q[1]
          /\ Len(waiting_threads_q) \in Nat \ {0}
          /\ Len(waiting_threads_q') = Len(waiting_threads_q) - 1
          /\ \A i \in 1 .. Len(waiting_threads_q') :
               waiting_threads_q'[i] = waiting_threads_q[i + 1]
      BY <1>4, <3>1, <3>2, TailElements
    <3> QED BY <3>3
  <2>2. /\ main_q = <<>> /\ main_q' = main_q /\ Len(main_q) = 0
        /\ elem' = [elem EXCEPT ![w] = e] /\ legal' = [legal EXCEPT ![w] = TRUE]
        /\ pc' = [pc EXCEPT ![w] = "signalled"]
    BY <1>4, EmptySeq DEF enqueue, Goto, Numbered
  <2>3. pc[w] = "waiting" /\ ticket[w] = Len(accepted) + 1
    <3>1. 1 \in 1 .. Len(waiting_threads_q)
      BY <1>2, <2>1
    <3> QED BY <2>1, <3>1 DEF Numbered, Waiting
  <2> HIDE DEF w
  <2>4. Numbers'
    <3>1. Len(accepted') + Len(waiting_threads_q') = requests' + Len(main_q')
      <4>1. /\ Len(accepted') = Len(accepted) + 1
            /\ Len(waiting_threads_q') = Len(waiting_threads_q) - 1
            /\ requests' = requests /\ Len(main_q') = Len(main_q)
        BY <1>1, <2>1, <2>2
      <4>2. /\ Len(main_q) \in Int /\ Len(waiting_threads_q) \in Int
            /\ Len(accepted) \in Int /\ requests \in Int
            /\ Len(accepted) + Len(waiting_threads_q) = requests + Len(main_q)
        BY <1>2
      <4> QED BY <4>1, <4>2
    <3> QED BY <2>2, <3>1 DEF Numbers
  <2>5. ASSUME NEW i \in 1 .. Len(waiting_threads_q')
        PROVE  /\ i + 1 \in 1 .. Len(waiting_threads_q)
               /\ waiting_threads_q'[i] = waiting_threads_q[i + 1]
               /\ waiting_threads_q[i + 1] \in Threads \ {w}
               /\ ticket[waiting_threads_q[i + 1]] = Len(accepted) + (i + 1)
               /\ pc[waiting_threads_q[i + 1]] = "waiting"
    <3>1. i + 1 \in 1 .. Len(waiting_threads_q) /\ i + 1 # 1
      BY <1>2, <2>1
    <3>2. /\ ticket[waiting_threads_q[i + 1]] = Len(accepted) + (i + 1)
          /\ pc[waiting_threads_q[i + 1]] = "waiting"
      BY <3>1 DEF Numbered, Waiting
    <3>3. waiting_threads_q[i + 1] # w
      BY <1>2, <2>3, <3>1, <3>2
    <3> QED BY <2>1, <3>1, <3>2, <3>3, Lists
  <2>6. Waiting'
    <3> SUFFICES ASSUME NEW i \in 1 .. Len(waiting_threads_q')
                 PROVE  /\ pc'[waiting_threads_q'[i]] = "waiting"
                        /\ ticket'[waiting_threads_q'[i]] = Len(accepted') + i
      BY DEF Waiting
    <3>1. pc'[waiting_threads_q'[i]] = "waiting"
      BY <2>2, <2>5 DEF Types, TypeOK
    <3>2. Len(accepted) + (i + 1) = Len(accepted') + i
      BY <1>1, <1>2, <2>1
    <3> QED BY <1>1, <2>5, <3>1, <3>2
  <2>7. ASSUME NEW u \in Threads PROVE InHand(u)'
    <3>1. CASE u = w
      <4>1. pc'[w] = "signalled" /\ elem'[w] = e /\ legal'[w] = TRUE
        BY <2>1, <2>2 DEF Types, TypeOK
      <4>2. ticket'[w] \in 1 .. Len(accepted') /\ e = accepted'[ticket'[w]]
        <5>1. ticket'[w] = Len(accepted) + 1 /\ Len(accepted) + 1 \in 1 .. Len(accepted')
          BY <1>1, <1>2, <2>3
        <5> QED BY <1>1, <5>1
      <4> QED BY <3>1, <4>1, <4>2 DEF InHand, HasElem
    <3>2. CASE u # w
      <4>1. /\ pc'[u] = pc[u] /\ elem'[u] = elem[u] /\ legal'[u] = legal[u]
            /\ InHand(u)
        BY <2>2, <3>2 DEF Types, TypeOK, Numbered
      <4>2. pc[u] = "waiting" => \E i \in 1 .. Len(waiting_threads_q') :
                                   waiting_threads_q'[i] = u
        <5> SUFFICES ASSUME pc[u] = "waiting"
                     PROVE  \E i \in 1 .. Len(waiting_threads_q') :
                              waiting_threads_q'[i] = u
          OBVIOUS
        <5>1. PICK i \in 1 .. Len(waiting_threads_q) : waiting_threads_q[i] = u
          BY <4>1 DEF InHand
        <5>2. i # 1
          BY <2>1, <3>2, <5>1
        <5>3. i - 1 \in 1 .. Len(waiting_threads_q') /\ (i - 1) + 1 = i
          BY <1>2, <2>1, <5>2
        <5> QED BY <2>1, <5>1, <5>3
      <4> QED BY <1>1, <1>3, <4>1, <4>2 DEF InHand, HasElem
    <3> QED BY <3>1, <3>2
  <2> QED BY <1>1, <2>2, <2>4, <2>6, <2>7 DEF Numbered
<1>5. CASE waiting_threads_q = <<>>
  <2>1. /\ waiting_threads_q' = <<>> /\ Len(waiting_threads_q) = 0
        /\ Len(waiting_threads_q') = 0
        /\ pc' = pc /\ elem' = elem /\ legal' = legal
    BY <1>5, EmptySeq DEF enqueue, node
  <2>2. /\ Len(main_q') = Len(main_q) + 1
        /\ \A i \in 1 .. Len(main_q) : main_q'[i] = main_q[i]
        /\ main_q'[Len(main_q) + 1] = e
    BY <1>5, AppendElements DEF enqueue, Types, TypeOK
  <2>3. ASSUME NEW i \in 1 .. Len(main_q')
        PROVE  main_q'[i] = accepted'[requests + i]
    <3>1. CASE i \in 1 .. Len(main_q)
      <4>1. requests + i \in 1 .. Len(accepted)
        BY <1>2, <2>1, <3>1
      <4> QED BY <1>1, <1>2, <2>2, <3>1, <4>1
    <3>2. CASE i = Len(main_q) + 1
      BY <1>1, <1>2, <2>1, <2>2, <3>2
    <3> QED BY <1>2, <2>2, <3>1, <3>2
  <2>4. Numbers'
    BY <1>1, <1>2, <2>1, <2>2, <2>3 DEF Numbers
  <2>5. ASSUME NEW u \in Threads PROVE InHand(u)'
    <3>1. InHand(u)
      BY DEF Numbered
    <3> QED BY <1>1, <1>3, <2>1, <3>1 DEF InHand, HasElem
  <2> QED BY <1>1, <2>1, <2>4, <2>5 DEF Numbered, Waiting
<1> QED BY <1>4, <1>5

(* destroyQueue cancels the requests of exactly the threads that wait.     *)
LEMMA NumberedDestroy ==
  ASSUME Types, Numbered, NEW t \in Threads, destroyQueue(t)
  PROVE  Numbered' /\ Waiters = {u \in Threads : pc[u] = "waiting"}
<1>1. /\ ~ inUse' /\ main_q' = <<>> /\ waiting_threads_q' = <<>>
      /\ Len(waiting_threads_q') = 0
      /\ accepted' = accepted /\ dequeued_elem' = dequeued_elem
      /\ \A u \in Threads :
           IF u \in Waiters
           THEN pc'[u] = "signalled" /\ legal'[u] = FALSE /\ elem'[u] = NULL
                /\ ticket'[u] = 0
           ELSE pc'[u] = pc[u] /\ legal'[u] = legal[u] /\ elem'[u] = elem[u]
                /\ ticket'[u] = ticket[u]
  BY EmptySeq DEF destroyQueue, signalWaiters, Types, TypeOK
<1>2. Waiters = {u \in Threads : pc[u] = "waiting"}
  <2>1. \A u \in Threads : pc[u] = "waiting" =>
          \E i \in 1 .. Len(waiting_threads_q) : waiting_threads_q[i] = u
    BY DEF Numbered, InHand
  <2>2. \A i \in 1 .. Len(waiting_threads_q) :
          waiting_threads_q[i] \in Threads /\ pc[waiting_threads_q[i]] = "waiting"
    BY Lists DEF Numbered, Waiting
  <2>3. Waiters = {waiting_threads_q[i] : i \in 1 .. Len(waiting_threads_q)}
    BY Lists
  <2> QED BY <2>1, <2>2, <2>3
<1>3. ASSUME NEW u \in Threads PROVE InHand(u)'
  <2>1. CASE u \in Waiters
    BY <1>1, <2>1 DEF InHand
  <2>2. CASE u \notin Waiters
    BY <1>1, <1>2, <2>2 DEF Numbered, InHand, HasElem
  <2> QED BY <2>1, <2>2
<1> QED BY <1>1, <1>2, <1>3 DEF Numbered, Waiting

(* Every operation keeps the numbering, and the mutex excludes.            *)
LEMMA NumberedStep == Types /\ Mutex /\ Numbered /\ [Next]_vars => Numbered'
<1> SUFFICES ASSUME Types, Mutex, Numbered, [Next]_vars PROVE Numbered'
  OBVIOUS
<1>1. ASSUME NEW t \in Threads, initQueue(t) PROVE Numbered'
  <2>1. /\ inUse' /\ main_q' = <<>> /\ waiting_threads_q' = <<>> /\ accepted' = <<>>
        /\ requests' = 0 /\ ticket' = ticket /\ pc' = pc
        /\ \A u \in Threads : pc[u] = "idle"
    BY <1>1 DEF initQueue
  <2>2. Len(main_q') = 0 /\ Len(waiting_threads_q') = 0 /\ Len(accepted') = 0
    BY <2>1, EmptySeq
  <2>3. Numbers' /\ Waiting'
    BY <2>1, <2>2 DEF Numbers, Waiting
  <2>4. \A u \in Threads : InHand(u)'
    BY <2>1 DEF Numbered, InHand
  <2> QED BY <2>1, <2>3, <2>4 DEF Numbered
<1>2. ASSUME NEW t \in Threads, destroyQueue(t) PROVE Numbered'
  BY <1>2, NumberedDestroy
<1>3. ASSUME NEW t \in Threads, NEW e \in Elems, enqueue(t, e) PROVE Numbered'
  BY <1>3, NumberedEnqueue
<1>4. ASSUME NEW t \in Threads, dequeueTake(t) PROVE Numbered'
  BY <1>4, NumberedTake DEF dequeueTake, Enter, Goto
<1>5. ASSUME NEW t \in Threads, tryTake(t) PROVE Numbered'
  BY <1>5, NumberedTake DEF tryTake, Enter, Goto
<1>6. ASSUME NEW t \in Threads, dequeueWait(t) PROVE Numbered'
  BY <1>6, NumberedWait
<1>7. ASSUME NEW t \in Threads, resumeLegal(t) PROVE Numbered'
  <2>1. InHand(t)'
    BY <1>7 DEF resumeLegal, Goto, history, Numbered, InHand, HasElem, Types, TypeOK
  <2> QED BY <1>7, <2>1, NumberedQuiet DEF resumeLegal, Goto, history, Types, TypeOK
<1>8. ASSUME NEW t \in Threads, resumeCancelled(t) PROVE Numbered'
  <2>1. InHand(t)'
    BY <1>8 DEF resumeCancelled, Goto, Result, InHand, Types, TypeOK
  <2> QED BY <1>8, <2>1, NumberedQuiet
          DEF resumeCancelled, Goto, Result, node, Types, TypeOK
<1>9. ASSUME NEW t \in Threads, dequeueVisit(t) PROVE Numbered'
  <2>1. InHand(t)'
    BY <1>9 DEF dequeueVisit, Goto, history, Numbered, InHand, HasElem, Types, TypeOK
  <2> QED BY <1>9, <2>1, NumberedQuiet
          DEF dequeueVisit, Goto, history, node, Types, TypeOK
<1>10. ASSUME NEW t \in Threads, dequeueEnd(t) \/ tryEnd(t) PROVE Numbered'
  <2>1. InHand(t)'
    BY <1>10 DEF dequeueEnd, tryEnd, Goto, Result, InHand, Types, TypeOK
  <2> QED BY <1>10, <2>1, NumberedQuiet
          DEF dequeueEnd, tryEnd, Goto, Result, node, Types, TypeOK
<1>11. CASE (\E t \in Threads : tryRefuse(t)) \/ UNCHANGED vars
  <2>1. UNCHANGED <<inUse, main_q, waiting_threads_q, accepted, requests, ticket,
                    pc, elem, legal, dequeued_elem>>
    BY <1>11 DEF tryRefuse, vars, queues, node, history
  <2> QED BY <2>1 DEF Numbered, Numbers, Waiting, InHand, HasElem
<1> QED BY <1>1, <1>2, <1>3, <1>4, <1>5, <1>6, <1>7, <1>8, <1>9, <1>10, <1>11
        DEF Next, Step, Inside

(* Only the holder of the mutex is between the two counters of a dequeue.  *)
LEMMA MutexStep == Types /\ Mutex /\ Numbered /\ [Next]_vars => Mutex'
<1> SUFFICES ASSUME Types, Mutex, Numbered, [Next]_vars PROVE Mutex'
  OBVIOUS
<1>0. NULL \notin Threads /\ DOMAIN pc = Threads
  BY RecAssumption DEF Types, TypeOK
<1>1. ASSUME NEW t \in Threads, initQueue(t) \/ destroyQueue(t) PROVE Mutex'
  BY <1>0, <1>1 DEF initQueue, destroyQueue, signalWaiters, Mutex
<1>2. ASSUME NEW t \in Threads, NEW e \in Elems, enqueue(t, e) PROVE Mutex'
  <2>1. /\ q_lock' = q_lock
        /\ \A u \in Threads : pc'[u] = pc[u] \/ pc'[u] = "signalled"
    BY <1>0, <1>2 DEF enqueue, Goto
  <2> QED BY <2>1 DEF Mutex
<1>3. ASSUME NEW t \in Threads, dequeueTake(t) \/ tryTake(t) \/ resumeLegal(t)
      PROVE  Mutex'
  BY <1>0, <1>3 DEF dequeueTake, tryTake, resumeLegal, Lock, Free, Goto, Mutex
<1>4. ASSUME NEW t \in Threads,
             dequeueWait(t) \/ resumeCancelled(t) \/ dequeueVisit(t)
      PROVE  Mutex'
  BY <1>0, <1>4 DEF dequeueWait, resumeCancelled, dequeueVisit, Goto, Mutex
<1>5. ASSUME NEW t \in Threads, dequeueEnd(t) \/ tryEnd(t) PROVE Mutex'
  BY <1>0, <1>5 DEF dequeueEnd, tryEnd, Unlock, Goto, Mutex
<1>6. CASE (\E t \in Threads : tryRefuse(t)) \/ UNCHANGED vars
  BY <1>6 DEF tryRefuse, vars, Mutex
<1> QED BY <1>1, <1>2, <1>3, <1>4, <1>5, <1>6 DEF Next, Step, Inside

-----------------------------------------------------------------------------
(* f and g put the threads at the same places, but t, which is at l in g.  *)
Moves(f, g, t, l) == g[t] = l /\ \A u \in Threads \ {t} : g[u] = f[u]

(* How the number of threads at a set of places changes when one of them   *)
(* moves.                                                                  *)
LEMMA OneThreadMoves ==
  ASSUME NEW f, NEW g, NEW t \in Threads, NEW l, Moves(f, g, t, l)
  PROVE  \A L : /\ Count(f, L) \in Nat /\ Count(g, L) \in Nat
                /\ Count(g, L) + OneIf(f[t], L) = Count(f, L) + OneIf(l, L)
                /\ Count(f, L) >= OneIf(f[t], L)
<1> SUFFICES ASSUME NEW L
             PROVE  /\ Count(f, L) \in Nat /\ Count(g, L) \in Nat
                    /\ Count(g, L) + OneIf(f[t], L) = Count(f, L) + OneIf(l, L)
                    /\ Count(f, L) >= OneIf(f[t], L)
  OBVIOUS
<1>1. IsFiniteSet(Threads) /\ g[t] = l /\ \A u \in Threads \ {t} : g[u] = f[u]
  BY RecAssumption DEF Moves
<1>2. /\ CountIn(Threads, g, L) + OneIf(f[t], L)
           = CountIn(Threads, f, L) + OneIf(g[t], L)
      /\ CountIn(Threads, f, L) >= OneIf(f[t], L)
  BY <1>1, OneMoves
<1>3. CountIn(Threads, f, L) \in Nat /\ CountIn(Threads, g, L) \in Nat
  BY <1>1, CountInNat
<1> QED BY <1>1, <1>2, <1>3 DEF Count

(* The row of a place: whether it is in each of the four counted sets.     *)
Row(l, o, s, v, r) ==
  /\ OneIf(l, Owing) = o /\ OneIf(l, Signalled) = s
  /\ OneIf(l, Visited) = v /\ OneIf(l, Tried) = r

(* Which of the four sets each place belongs to.                           *)
LEMMA Places ==
  /\ Row("idle", 0, 0, 0, 0)
  /\ Row("waiting", 0, 0, 0, 0)
  /\ Row("cancelled", 0, 0, 0, 0)
  /\ Row("signalled", 1, 1, 0, 0)
  /\ Row("took", 1, 0, 0, 0)
  /\ Row("visited", 1, 0, 1, 0)
  /\ Row("tried", 0, 0, 0, 1)
BY DEF Row, OneIf, Owing, Signalled, Visited, Tried

Shift(f, g, o, s, v, r) ==
  /\ Count(g, Owing) = Count(f, Owing) + o
  /\ Count(g, Signalled) = Count(f, Signalled) + s
  /\ Count(g, Visited) = Count(f, Visited) + v
  /\ Count(g, Tried) = Count(f, Tried) + r

(* How the four numbers shift when one thread moves between two places of  *)
(* known rows.                                                             *)
LEMMA CountsMove ==
  ASSUME NEW f, NEW g, NEW t \in Threads, NEW l, Moves(f, g, t, l),
         NEW o \in Int, NEW s \in Int, NEW v \in Int, NEW r \in Int,
         NEW oo \in Int, NEW ss \in Int, NEW vv \in Int, NEW rr \in Int,
         Row(f[t], o, s, v, r), Row(l, oo, ss, vv, rr)
  PROVE  /\ Shift(f, g, oo - o, ss - s, vv - v, rr - r)
         /\ Count(f, Owing) >= o /\ Count(f, Signalled) >= s
<1>1. \A L : /\ Count(f, L) \in Nat /\ Count(g, L) \in Nat
             /\ Count(g, L) + OneIf(f[t], L) = Count(f, L) + OneIf(l, L)
             /\ Count(f, L) >= OneIf(f[t], L)
  BY OneThreadMoves
<1>2. Count(g, Owing) = Count(f, Owing) + (oo - o) /\ Count(f, Owing) >= o
  BY <1>1 DEF Row
<1>3. Count(g, Signalled) = Count(f, Signalled) + (ss - s) /\ Count(f, Signalled) >= s
  BY <1>1 DEF Row
<1>4. Count(g, Visited) = Count(f, Visited) + (vv - v)
  BY <1>1 DEF Row
<1>5. Count(g, Tried) = Count(f, Tried) + (rr - r)
  BY <1>1 DEF Row
<1> QED BY <1>2, <1>3, <1>4, <1>5 DEF Shift

(* The shifts of the moves that the operations make.                       *)
LEMMA EveryMove ==
  ASSUME NEW f, NEW g, NEW t \in Threads, NEW l, Moves(f, g, t, l)
  PROVE  /\ f[t] = "idle" /\ l = "visited" => Shift(f, g, 1, 0, 1, 0)
         /\ f[t] = "idle" /\ l = "tried" => Shift(f, g, 0, 0, 0, 1)
         /\ f[t] = "idle" /\ l = "waiting" => Shift(f, g, 0, 0, 0, 0)
         /\ f[t] = "waiting" /\ l = "signalled" => Shift(f, g, 1, 1, 0, 0)
         /\ f[t] = "signalled" /\ l = "took" =>
              Shift(f, g, 0, -1, 0, 0) /\ Count(f, Signalled) >= 1
         /\ f[t] = "cancelled" /\ l = "idle" => Shift(f, g, 0, 0, 0, 0)
         /\ f[t] = "took" /\ l = "visited" => Shift(f, g, 0, 0, 1, 0)
         /\ f[t] = "visited" /\ l = "idle" =>
              Shift(f, g, -1, 0, -1, 0) /\ Count(f, Owing) >= 1
         /\ f[t] = "tried" /\ l = "idle" => Shift(f, g, 0, 0, 0, -1)
<1>1. ASSUME NEW o \in Int, NEW s \in Int, NEW v \in Int, NEW r \in Int,
             NEW oo \in Int, NEW ss \in Int, NEW vv \in Int, NEW rr \in Int,
             Row(f[t], o, s, v, r), Row(l, oo, ss, vv, rr)
      PROVE  /\ Shift(f, g, oo - o, ss - s, vv - v, rr - r)
             /\ Count(f, Owing) >= o /\ Count(f, Signalled) >= s
  BY <1>1, CountsMove
<1>2. f[t] = "idle" /\ l = "visited" => Shift(f, g, 1 - 0, 0 - 0, 1 - 0, 0 - 0)
  BY <1>1, Places
<1>3. f[t] = "idle" /\ l = "tried" => Shift(f, g, 0 - 0, 0 - 0, 0 - 0, 1 - 0)
  BY <1>1, Places
<1>4. f[t] = "idle" /\ l = "waiting" => Shift(f, g, 0 - 0, 0 - 0, 0 - 0, 0 - 0)
  BY <1>1, Places
<1>5. f[t] = "waiting" /\ l = "signalled" => Shift(f, g, 1 - 0, 1 - 0, 0 - 0, 0 - 0)
  BY <1>1, Places
<1>6. f[t] = "signalled" /\ l = "took" =>
        Shift(f, g, 1 - 1, 0 - 1, 0 - 0, 0 - 0) /\ Count(f, Signalled) >= 1
  BY <1>1, Places
<1>7. f[t] = "cancelled" /\ l = "idle" => Shift(f, g, 0 - 0, 0 - 0, 0 - 0, 0 - 0)
  BY <1>1, Places
<1>8. f[t] = "took" /\ l = "visited" => Shift(f, g, 1 - 1, 0 - 0, 1 - 0, 0 - 0)
  BY <1>1, Places
<1>9. f[t] = "visited" /\ l = "idle" =>
        Shift(f, g, 0 - 1, 0 - 0, 0 - 1, 0 - 0) /\ Count(f, Owing) >= 1
  BY <1>1, Places
<1>10. f[t] = "tried" /\ l = "idle" => Shift(f, g, 0 - 0, 0 - 0, 0 - 0, 0 - 1)
  BY <1>1, Places
<1> QED BY <1>2, <1>3, <1>4, <1>5, <1>6, <1>7, <1>8, <1>9, <1>10

(* When threads only go from waiting to cancelled the counts stay.         *)
LEMMA NoMove ==
  ASSUME NEW f, NEW g,
         \A u \in Threads : \/ g[u] = f[u]
                            \/ f[u] = "waiting" /\ g[u] = "cancelled"
  PROVE  Shift(f, g, 0, 0, 0, 0)
<1>1. ASSUME NEW L, "waiting" \notin L, "cancelled" \notin L
      PROVE  Count(g, L) = Count(f, L) /\ Count(f, L) \in Nat
  <2>1. {u \in Threads : g[u] \in L} = {u \in Threads : f[u] \in L}
    BY <1>1
  <2>2. Count(g, L) = Count(f, L)
    BY <2>1 DEF Count, CountIn
  <2>3. Count(f, L) \in Nat
    BY CountInNat, RecAssumption DEF Count
  <2> QED BY <2>2, <2>3
<1>2. Count(g, Owing) = Count(f, Owing) + 0
  BY <1>1 DEF Owing
<1>3. Count(g, Signalled) = Count(f, Signalled) + 0
  BY <1>1 DEF Signalled
<1>4. Count(g, Visited) = Count(f, Visited) + 0
  BY <1>1 DEF Visited
<1>5. Count(g, Tried) = Count(f, Tried) + 0
  BY <1>1 DEF Tried
<1> QED BY <1>2, <1>3, <1>4, <1>5 DEF Shift

(* When every thread is idle nobody is counted.                            *)
LEMMA NobodyThere ==
  ASSUME NEW f, \A u \in Threads : f[u] = "idle"
  PROVE  /\ Count(f, Owing) = 0 /\ Count(f, Signalled) = 0
         /\ Count(f, Visited) = 0 /\ Count(f, Tried) = 0
<1>1. ASSUME NEW L, "idle" \notin L PROVE Count(f, L) = 0
  BY <1>1, CountInNat, RecAssumption DEF Count
<1> QED BY <1>1 DEF Owing, Signalled, Visited, Tried

(* What Counting adds up are numbers.                                      *)
LEMMA Sums ==
  ASSUME Types
  PROVE  /\ full_size \in Int /\ visited_elements_num \in Int
         /\ waiting_threads_num \in Int
         /\ Len(main_q) \in Nat /\ Len(waiting_threads_q) \in Nat
         /\ Len(accepted) \in Nat
         /\ \A f, L : Count(f, L) \in Nat
BY CountInNat, RecAssumption, Lists DEF Count, Types, TypeOK

(* A step that changes the counters, and the lists.                        *)
Change(fs, w, v, m, q, a) ==
  /\ full_size' = full_size + fs
  /\ waiting_threads_num' = waiting_threads_num + w
  /\ visited_elements_num' = visited_elements_num + v
  /\ Len(main_q') = Len(main_q) + m
  /\ Len(waiting_threads_q') = Len(waiting_threads_q) + q
  /\ Len(accepted') = Len(accepted) + a

(* The changes of the counters and of what they count balance.             *)
Balanced(o, s, c, r, fs, w, v, m, q, a) ==
  /\ {o, s, c, r, fs, w, v, m, q, a} \subseteq Int
  /\ Shift(Place(pc, legal), Place(pc', legal'), o, s, c, r)
  /\ Change(fs, w, v, m, q, a)
  /\ inUse' => fs = m + o /\ w = q + s /\ (fs + v) + r = a + c
  /\ inUse' \/ (fs >= o /\ w >= s)

(* A balanced step keeps Counting.                                         *)
LEMMA CountingKept ==
  ASSUME Types, Counting, inUse' => inUse,
         inUse' => Len(main_q') \in Nat /\ Len(waiting_threads_q') \in Nat,
         NEW o, NEW s, NEW c, NEW r, NEW fs, NEW w, NEW v, NEW m, NEW q, NEW a,
         Balanced(o, s, c, r, fs, w, v, m, q, a)
  PROVE  Counting'
<1>1. /\ full_size \in Int /\ visited_elements_num \in Int
      /\ waiting_threads_num \in Int
      /\ Len(main_q) \in Nat /\ Len(waiting_threads_q) \in Nat
      /\ Len(accepted) \in Nat
      /\ \A f, L : Count(f, L) \in Nat
  BY Sums
<1>2. /\ full_size' = full_size + fs
      /\ waiting_threads_num' = waiting_threads_num + w
      /\ visited_elements_num' = visited_elements_num + v
      /\ Len(main_q') = Len(main_q) + m
      /\ Len(waiting_threads_q') = Len(waiting_threads_q) + q
      /\ Len(accepted') = Len(accepted) + a
      /\ Count(Place(pc', legal'), Owing) = Count(Place(pc, legal), Owing) + o
      /\ Count(Place(pc', legal'), Signalled) = Count(Place(pc, legal), Signalled) + s
      /\ Count(Place(pc', legal'), Visited) = Count(Place(pc, legal), Visited) + c
      /\ Count(Place(pc', legal'), Tried) = Count(Place(pc, legal), Tried) + r
  BY DEF Balanced, Shift, Change
<1>b. /\ o \in Int /\ s \in Int /\ c \in Int /\ r \in Int /\ fs \in Int
      /\ w \in Int /\ v \in Int /\ m \in Int /\ q \in Int /\ a \in Int
      /\ inUse' => fs = m + o /\ w = q + s /\ (fs + v) + r = a + c
      /\ inUse' \/ (fs >= o /\ w >= s)
  BY DEF Balanced
<1> DEFINE A == full_size  M == Len(main_q)  O == Count(Place(pc, legal), Owing)
           D == waiting_threads_num  H == Len(waiting_threads_q)
           S == Count(Place(pc, legal), Signalled)
           P == visited_elements_num  E == Len(accepted)
           C == Count(Place(pc, legal), Visited)  R == Count(Place(pc, legal), Tried)
<1>3. /\ A \in Int /\ M \in Int /\ O \in Int /\ D \in Int /\ H \in Int
      /\ S \in Int /\ P \in Int /\ E \in Int /\ C \in Int /\ R \in Int
  BY <1>1
<1> HIDE DEF A, M, O, D, H, S, P, E, C, R
<1>4. /\ A = M + O /\ fs = m + o => A + fs = (M + m) + (O + o)
      /\ A >= O /\ fs >= o => A + fs >= O + o
  BY <1>b, <1>3
<1>5. /\ D = H + S /\ w = q + s => D + w = (H + q) + (S + s)
      /\ D >= S /\ w >= s => D + w >= S + s
  BY <1>b, <1>3
<1>6. (A + P) + R = E + C /\ (fs + v) + r = a + c
        => ((A + fs) + (P + v)) + (R + r) = (E + a) + (C + c)
  BY <1>b, <1>3
<1> USE DEF A, M, O, D, H, S, P, E, C, R
<1>7. ASSUME inUse'
      PROVE  /\ full_size' = Len(main_q') + Count(Place(pc', legal'), Owing)
             /\ waiting_threads_num' = Len(waiting_threads_q')
                                         + Count(Place(pc', legal'), Signalled)
             /\ full_size' + visited_elements_num' + Count(Place(pc', legal'), Tried)
                  = Len(accepted') + Count(Place(pc', legal'), Visited)
  BY <1>b, <1>2, <1>4, <1>5, <1>6, <1>7, Zenon DEF Counting
<1>8. CASE inUse'
  <2>1. \A x, y \in Nat : x + y >= y
    OBVIOUS
  <2>2. /\ Len(main_q') \in Nat /\ Len(waiting_threads_q') \in Nat
        /\ Count(Place(pc', legal'), Owing) \in Nat
        /\ Count(Place(pc', legal'), Signalled) \in Nat
    BY <1>1, <1>8, Zenon
  <2>3. /\ full_size' >= Count(Place(pc', legal'), Owing)
        /\ waiting_threads_num' >= Count(Place(pc', legal'), Signalled)
    BY <1>7, <1>8, <2>1, <2>2, Zenon
  <2> QED BY <1>7, <1>8, <2>3, Zenon DEF Counting
<1>9. CASE ~ inUse'
  <2>1. /\ full_size' >= Count(Place(pc', legal'), Owing)
        /\ waiting_threads_num' >= Count(Place(pc', legal'), Signalled)
    BY <1>b, <1>2, <1>4, <1>5, <1>9, Zenon DEF Counting
  <2> QED BY <1>9, <2>1, Zenon DEF Counting
<1> QED BY <1>8, <1>9

(* At the start everything counted is 0.                                   *)
LEMMA CountingInit == Init => Counting
<1> SUFFICES ASSUME Init PROVE Counting
  OBVIOUS
<1>1. \A u \in Threads : Place(pc, legal)[u] = "idle"
  BY DEF Init, Place
<1>2. Count(Place(pc, legal), Owing) = 0 /\ Count(Place(pc, legal), Signalled) = 0
  BY <1>1, NobodyThere
<1>3. inUse = FALSE /\ full_size = 0 /\ waiting_threads_num = 0
  BY DEF Init
<1> QED BY <1>2, <1>3 DEF Counting

(* A step that leaves the other threads where they are is a move.          *)
LEMMA PlaceMoves ==
  ASSUME NEW t \in Threads,
         \A u \in Threads \ {t} : pc'[u] = pc[u] /\ legal'[u] = legal[u]
  PROVE  /\ Moves(Place(pc, legal), Place(pc', legal'), t, Place(pc', legal')[t])
         /\ \A x \in {"idle", "waiting", "took", "visited", "tried"} :
              /\ pc[t] = x => Place(pc, legal)[t] = x
              /\ pc'[t] = x => Place(pc', legal')[t] = x
         /\ pc[t] = "signalled" /\ legal[t] => Place(pc, legal)[t] = "signalled"
         /\ pc[t] = "signalled" /\ ~ legal[t] => Place(pc, legal)[t] = "cancelled"
         /\ pc'[t] = "signalled" /\ legal'[t] => Place(pc', legal')[t] = "signalled"
BY DEF Moves, Place

(* enqueue counts the element that it links, or hands over.                *)
LEMMA CountingEnqueue ==
  ASSUME Types, Numbered, Counting, NEW t \in Threads, NEW e \in Elems,
         enqueue(t, e)
  PROVE  Counting'
<1>1. /\ inUse' /\ inUse
      /\ full_size' = full_size + 1 /\ waiting_threads_num' = waiting_threads_num + 0
      /\ visited_elements_num' = visited_elements_num + 0
      /\ Len(accepted') = Len(accepted) + 1
  BY Sums, AppendElements DEF enqueue, Enter, Types, TypeOK
<1>2. CASE waiting_threads_q # <<>>
  <2> DEFINE w == Head(waiting_threads_q)
  <2>1. /\ w \in Threads /\ w = waiting_threads_q[1]
        /\ Len(waiting_threads_q) \in Nat \ {0}
        /\ Len(waiting_threads_q') = Len(waiting_threads_q) - 1
    <3>1. waiting_threads_q' = Tail(waiting_threads_q) /\ waiting_threads_q \in Seq(Threads)
      BY <1>2 DEF enqueue, Types, TypeOK
    <3> QED BY <1>2, <3>1, TailElements
  <2>2. /\ main_q' = main_q /\ legal' = [legal EXCEPT ![w] = TRUE]
        /\ pc' = [pc EXCEPT ![w] = "signalled"] /\ pc[w] = "waiting"
    BY <1>2 DEF enqueue, Goto, Numbered
  <2> HIDE DEF w
  <2>3. /\ pc'[w] = "signalled" /\ legal'[w]
        /\ \A u \in Threads \ {w} : pc'[u] = pc[u] /\ legal'[u] = legal[u]
    BY <2>1, <2>2 DEF Types, TypeOK
  <2>4. /\ Moves(Place(pc, legal), Place(pc', legal'), w, Place(pc', legal')[w])
        /\ Place(pc, legal)[w] = "waiting" /\ Place(pc', legal')[w] = "signalled"
    BY <2>1, <2>2, <2>3, PlaceMoves
  <2>5. Shift(Place(pc, legal), Place(pc', legal'), 1, 1, 0, 0)
    BY <2>1, <2>4, EveryMove
  <2>6. Change(1, 0, 0, 0, -1, 1)
    BY <1>1, <2>1, <2>2, Sums DEF Change
  <2>7. Len(main_q') \in Nat /\ Len(waiting_threads_q') \in Nat
    BY <2>1, <2>2, Sums
  <2>8. Balanced(1, 1, 0, 0, 1, 0, 0, 0, -1, 1)
    BY <1>1, <2>5, <2>6 DEF Balanced
  <2> QED BY <1>1, <2>7, <2>8, CountingKept
<1>3. CASE waiting_threads_q = <<>>
  <2>1. /\ waiting_threads_q' = waiting_threads_q /\ pc' = pc /\ legal' = legal
        /\ Len(main_q') = Len(main_q) + 1
    BY <1>3, AppendElements DEF enqueue, node, Types, TypeOK
  <2>2. Shift(Place(pc, legal), Place(pc', legal'), 0, 0, 0, 0)
    BY <2>1, NoMove
  <2>3. Change(1, 0, 0, 1, 0, 1)
    BY <1>1, <2>1, Sums DEF Change
  <2>4. Len(main_q') \in Nat /\ Len(waiting_threads_q') \in Nat
    BY <2>1, Sums
  <2>5. Balanced(0, 0, 0, 0, 1, 0, 0, 1, 0, 1)
    BY <2>2, <2>3 DEF Balanced
  <2> QED BY <1>1, <2>4, <2>5, CountingKept
<1> QED BY <1>2, <1>3

(* destroyQueue only moves waiting threads to cancelled.                   *)
LEMMA CountingDestroy ==
  ASSUME Types, Numbered, Counting, NEW t \in Threads, destroyQueue(t)
  PROVE  Counting'
<1>1. /\ ~ inUse' /\ full_size' = full_size
      /\ waiting_threads_num' = waiting_threads_num
  BY DEF destroyQueue, counters
<1>2. \A u \in Threads :
        \/ pc'[u] = pc[u] /\ legal'[u] = legal[u]
        \/ pc[u] = "waiting" /\ pc'[u] = "signalled" /\ ~ legal'[u]
  BY NumberedDestroy DEF destroyQueue, signalWaiters, Types, TypeOK
<1>3. \A u \in Threads :
        \/ Place(pc', legal')[u] = Place(pc, legal)[u]
        \/ Place(pc, legal)[u] = "waiting" /\ Place(pc', legal')[u] = "cancelled"
  BY <1>2 DEF Place
<1>4. Shift(Place(pc, legal), Place(pc', legal'), 0, 0, 0, 0)
  BY <1>3, NoMove
<1>5. /\ Count(Place(pc', legal'), Owing) = Count(Place(pc, legal), Owing)
      /\ Count(Place(pc', legal'), Signalled) = Count(Place(pc, legal), Signalled)
  BY <1>4, Sums DEF Shift
<1> QED BY <1>1, <1>5 DEF Counting

(* A thread that is back from cnd_wait is no longer counted as waiting.    *)
LEMMA CountingResume ==
  ASSUME Types, Counting, NEW t \in Threads, resumeLegal(t)
  PROVE  Counting'
<1>1. /\ pc[t] = "signalled" /\ legal[t] /\ pc'[t] = "took"
      /\ \A u \in Threads \ {t} : pc'[u] = pc[u] /\ legal'[u] = legal[u]
  BY DEF resumeLegal, Goto, Types, TypeOK
<1>2. Shift(Place(pc, legal), Place(pc', legal'), 0, -1, 0, 0)
  BY <1>1, PlaceMoves, EveryMove
<1>3. Change(0, -1, 0, 0, 0, 0)
  BY Sums DEF resumeLegal, queues, history, Change
<1>4. inUse' = inUse /\ Len(main_q') \in Nat /\ Len(waiting_threads_q') \in Nat
  BY Sums DEF resumeLegal, queues
<1>5. Balanced(0, -1, 0, 0, 0, -1, 0, 0, 0, 0)
  BY <1>2, <1>3 DEF Balanced
<1> QED BY <1>4, <1>5, CountingKept

(* dequeue and tryDequeue of an element that is there.                     *)
LEMMA CountingTake ==
  ASSUME Types, Counting, NEW t \in Threads, dequeueTake(t) \/ tryTake(t)
  PROVE  Counting'
<1>1. /\ pc[t] = "idle" /\ UNCHANGED <<inUse, waiting_threads_q, accepted>>
      /\ \A u \in Threads \ {t} : pc'[u] = pc[u] /\ legal'[u] = legal[u]
  BY DEF dequeueTake, tryTake, Goto, Enter, NewTicket, node, Types, TypeOK
<1>2. Len(main_q') = Len(main_q) - 1 /\ Len(main_q') \in Nat
  BY TailElements DEF dequeueTake, tryTake, pop_from_main_q, Types, TypeOK
<1>3. CASE dequeueTake(t)
  <2>1. pc'[t] = "visited"
    BY <1>3 DEF dequeueTake, Goto, Types, TypeOK
  <2>2. Shift(Place(pc, legal), Place(pc', legal'), 1, 0, 1, 0)
    BY <1>1, <2>1, PlaceMoves, EveryMove
  <2>3. Change(0, 0, 1, -1, 0, 0)
    BY <1>1, <1>2, <1>3, Sums DEF dequeueTake, countVisit, Change
  <2>4. inUse' = inUse /\ Len(waiting_threads_q') \in Nat /\ inUse
    BY <1>1, <1>3, Sums DEF dequeueTake, Enter
  <2>5. Balanced(1, 0, 1, 0, 0, 0, 1, -1, 0, 0)
    BY <2>2, <2>3, <2>4 DEF Balanced
  <2> QED BY <1>2, <2>4, <2>5, CountingKept
<1>4. CASE tryTake(t)
  <2>1. pc'[t] = "tried"
    BY <1>4 DEF tryTake, Goto, Types, TypeOK
  <2>2. Shift(Place(pc, legal), Place(pc', legal'), 0, 0, 0, 1)
    BY <1>1, <2>1, PlaceMoves, EveryMove
  <2>3. Change(-1, 0, 0, -1, 0, 0)
    BY <1>1, <1>2, <1>4, Sums DEF tryTake, Change
  <2>4. inUse' = inUse /\ Len(waiting_threads_q') \in Nat /\ inUse
    BY <1>1, <1>4, Sums DEF tryTake, Enter
  <2>5. Balanced(0, 0, 0, 1, -1, 0, 0, -1, 0, 0)
    BY <2>2, <2>3, <2>4 DEF Balanced
  <2> QED BY <1>2, <2>4, <2>5, CountingKept
<1> QED BY <1>3, <1>4

(* A dequeue that waits is counted when it is linked.                      *)
LEMMA CountingWait ==
  ASSUME Types, Counting, NEW t \in Threads, dequeueWait(t)
  PROVE  Counting'
<1>1. /\ pc[t] = "idle" /\ pc'[t] = "waiting" /\ inUse' = inUse /\ inUse
      /\ UNCHANGED <<main_q, full_size, visited_elements_num, accepted>>
      /\ waiting_threads_num' = waiting_threads_num + 1
      /\ \A u \in Threads \ {t} : pc'[u] = pc[u] /\ legal'[u] = legal[u]
  BY DEF dequeueWait, Goto, Enter, NewTicket, Types, TypeOK
<1>2. Len(waiting_threads_q') = Len(waiting_threads_q) + 1
  BY AppendElements DEF dequeueWait, insert_to_threads_q, Types, TypeOK
<1>3. Shift(Place(pc, legal), Place(pc', legal'), 0, 0, 0, 0)
  BY <1>1, PlaceMoves, EveryMove
<1>4. Change(0, 1, 0, 0, 1, 0)
  BY <1>1, <1>2, Sums DEF Change
<1>5. Len(main_q') \in Nat /\ Len(waiting_threads_q') \in Nat
  BY <1>1, <1>2, Sums
<1>6. Balanced(0, 0, 0, 0, 0, 1, 0, 0, 1, 0)
  BY <1>3, <1>4 DEF Balanced
<1> QED BY <1>1, <1>5, <1>6, CountingKept

(* The second counter of a dequeue or a tryDequeue.                        *)
LEMMA CountingFinish ==
  ASSUME Types, Counting, NEW t \in Threads,
         resumeCancelled(t) \/ dequeueVisit(t) \/ dequeueEnd(t) \/ tryEnd(t)
  PROVE  Counting'
<1>1. /\ inUse' = inUse /\ main_q' = main_q /\ accepted' = accepted
      /\ waiting_threads_q' = waiting_threads_q
      /\ waiting_threads_num' = waiting_threads_num
      /\ \A u \in Threads \ {t} : pc'[u] = pc[u] /\ legal'[u] = legal[u]
      /\ Len(main_q') \in Nat /\ Len(waiting_threads_q') \in Nat
  BY Sums DEF resumeCancelled, dequeueVisit, dequeueEnd, tryEnd, Goto, Result,
              node, queues, history, Types, TypeOK
<1>2. CASE resumeCancelled(t)
  <2>1. pc[t] = "signalled" /\ ~ legal[t] /\ pc'[t] = "idle"
    BY <1>2 DEF resumeCancelled, Goto, Types, TypeOK
  <2>2. Shift(Place(pc, legal), Place(pc', legal'), 0, 0, 0, 0)
    BY <1>1, <2>1, PlaceMoves, EveryMove
  <2>3. Change(0, 0, 0, 0, 0, 0)
    BY <1>1, <1>2, Sums DEF resumeCancelled, cancelledCount, Change
  <2>4. Balanced(0, 0, 0, 0, 0, 0, 0, 0, 0, 0)
    BY <2>2, <2>3 DEF Balanced
  <2> QED BY <1>1, <2>4, CountingKept
<1>3. CASE dequeueVisit(t)
  <2>1. pc[t] = "took" /\ pc'[t] = "visited"
    BY <1>3 DEF dequeueVisit, Goto, Types, TypeOK
  <2>2. Shift(Place(pc, legal), Place(pc', legal'), 0, 0, 1, 0)
    BY <1>1, <2>1, PlaceMoves, EveryMove
  <2>3. Change(0, 0, 1, 0, 0, 0)
    BY <1>1, <1>3, Sums DEF dequeueVisit, countVisit, Change
  <2>4. Balanced(0, 0, 1, 0, 0, 0, 1, 0, 0, 0)
    BY <2>2, <2>3 DEF Balanced
  <2> QED BY <1>1, <2>4, CountingKept
<1>4. CASE dequeueEnd(t)
  <2>1. pc[t] = "visited" /\ pc'[t] = "idle"
    BY <1>4 DEF dequeueEnd, Goto, Types, TypeOK
  <2>2. Shift(Place(pc, legal), Place(pc', legal'), -1, 0, -1, 0)
    BY <1>1, <2>1, PlaceMoves, EveryMove
  <2>3. Change(-1, 0, 0, 0, 0, 0)
    BY <1>1, <1>4, Sums DEF dequeueEnd, Change
  <2>4. Balanced(-1, 0, -1, 0, -1, 0, 0, 0, 0, 0)
    BY <2>2, <2>3 DEF Balanced
  <2> QED BY <1>1, <2>4, CountingKept
<1>5. CASE tryEnd(t)
  <2>1. pc[t] = "tried" /\ pc'[t] = "idle"
    BY <1>5 DEF tryEnd, Goto, Types, TypeOK
  <2>2. Shift(Place(pc, legal), Place(pc', legal'), 0, 0, 0, -1)
    BY <1>1, <2>1, PlaceMoves, EveryMove
  <2>3. Change(0, 0, 1, 0, 0, 0)
    BY <1>1, <1>5, Sums DEF tryEnd, countVisit, Change
  <2>4. Balanced(0, 0, 0, -1, 0, 0, 1, 0, 0, 0)
    BY <2>2, <2>3 DEF Balanced
  <2> QED BY <1>1, <2>4, CountingKept
<1> QED BY <1>2, <1>3, <1>4, <1>5

(* Every operation keeps Counting.                                         *)
LEMMA CountingStep == Types /\ Numbered /\ Counting /\ [Next]_vars => Counting'
<1> SUFFICES ASSUME Types, Numbered, Counting, [Next]_vars PROVE Counting'
  OBVIOUS
<1>1. ASSUME NEW t \in Threads, initQueue(t) PROVE Counting'
  <2>1. \A u \in Threads : Place(pc', legal')[u] = "idle"
    BY <1>1 DEF initQueue, node, Place
  <2>2. /\ Count(Place(pc', legal'), Owing) = 0
        /\ Count(Place(pc', legal'), Signalled) = 0
        /\ Count(Place(pc', legal'), Visited) = 0
        /\ Count(Place(pc', legal'), Tried) = 0
    BY <2>1, NobodyThere
  <2>3. /\ full_size' = 0 /\ waiting_threads_num' = 0 /\ visited_elements_num' = 0
        /\ Len(main_q') = 0 /\ Len(waiting_threads_q') = 0 /\ Len(accepted') = 0
    BY <1>1, EmptySeq DEF initQueue
  <2> QED BY <2>2, <2>3 DEF Counting
<1>2. ASSUME NEW t \in Threads, destroyQueue(t) PROVE Counting'
  BY <1>2, CountingDestroy
<1>3. ASSUME NEW t \in Threads, NEW e \in Elems, enqueue(t, e) PROVE Counting'
  BY <1>3, CountingEnqueue
<1>4. ASSUME NEW t \in Threads, dequeueTake(t) \/ tryTake(t) PROVE Counting'
  BY <1>4, CountingTake
<1>5. ASSUME NEW t \in Threads, dequeueWait(t) PROVE Counting'
  BY <1>5, CountingWait
<1>6. ASSUME NEW t \in Threads, resumeLegal(t) PROVE Counting'
  BY <1>6, CountingResume
<1>7. ASSUME NEW t \in Threads,
             resumeCancelled(t) \/ dequeueVisit(t) \/ dequeueEnd(t) \/ tryEnd(t)
      PROVE  Counting'
  BY <1>7, CountingFinish
<1>8. CASE (\E t \in Threads : tryRefuse(t)) \/ UNCHANGED vars
  <2>1. UNCHANGED <<inUse, queues, counters, accepted, pc, node>>
    BY <1>8 DEF tryRefuse, vars, history
  <2>2. /\ UNCHANGED <<inUse, main_q, waiting_threads_q, accepted, pc, legal>>
        /\ UNCHANGED <<full_size, visited_elements_num, waiting_threads_num>>
    BY <2>1 DEF queues, counters, node
  <2> QED BY <2>2 DEF Counting
<1> QED BY <1>1, <1>2, <1>3, <1>4, <1>5, <1>6, <1>7, <1>8 DEF Next, Step, Inside

-----------------------------------------------------------------------------
(* A counter is not 0 when it is decremented.                              *)
LEMMA NotZero ==
  ASSUME Types, Counting, NEW t \in Threads
  PROVE  /\ pc[t] = "visited" => full_size >= 1
         /\ pc[t] = "signalled" /\ legal[t] => waiting_threads_num >= 1
         /\ inUse /\ main_q # <<>> => full_size >= 1
<1>1. /\ full_size \in Int /\ waiting_threads_num \in Int /\ Len(main_q) \in Nat
      /\ Count(Place(pc, legal), Owing) \in Nat
      /\ Count(Place(pc, legal), Signalled) \in Nat
  BY Sums
<1>2. \A L : Count(Place(pc, legal), L) >= OneIf(Place(pc, legal)[t], L)
  <2>1. Moves(Place(pc, legal), Place(pc, legal), t, Place(pc, legal)[t])
    BY DEF Moves
  <2> QED BY <2>1, OneThreadMoves
<1>3. pc[t] = "visited" => full_size >= 1
  <2>1. pc[t] = "visited" => Place(pc, legal)[t] = "visited"
    BY DEF Place
  <2> QED BY <1>1, <1>2, <2>1 DEF Counting, OneIf, Owing
<1>4. pc[t] = "signalled" /\ legal[t] => waiting_threads_num >= 1
  <2>1. pc[t] = "signalled" /\ legal[t] => Place(pc, legal)[t] = "signalled"
    BY DEF Place
  <2> QED BY <1>1, <1>2, <2>1 DEF Counting, OneIf, Signalled
<1>5. inUse /\ main_q # <<>> => full_size >= 1
  <2>1. main_q # <<>> => Len(main_q) >= 1
    BY <1>1, EmptySeq DEF Types, TypeOK
  <2> QED BY <1>1, <2>1 DEF Counting
<1> QED BY <1>3, <1>4, <1>5

(* What a thread has in hand is an element.                                *)
LEMMA InHandIsElem ==
  ASSUME Types, Numbered, NEW t \in Threads
  PROVE  /\ pc[t] = "signalled" /\ legal[t] => elem[t] \in Elems
         /\ pc[t] = "signalled" /\ ~ legal[t] => elem[t] = NULL
         /\ main_q # <<>> => Head(main_q) \in Elems
<1>1. \A i \in 1 .. Len(accepted) : accepted[i] \in Elems
  BY DEF Types
<1>2. InHand(t)
  BY DEF Numbered
<1>3. main_q # <<>> => Head(main_q) \in Elems
  BY TailElements DEF Types, TypeOK
<1> QED BY <1>1, <1>2, <1>3 DEF InHand, HasElem

(* Every operation keeps the types.                                        *)
LEMMA TypesStep == Types /\ Numbered /\ Counting /\ [Next]_vars => Types'
<1> SUFFICES ASSUME Types, Numbered, Counting, [Next]_vars PROVE Types'
  OBVIOUS
<1>0. \A n \in Nat : n + 1 \in Nat /\ (n >= 1 => n - 1 \in Nat)
  OBVIOUS
<1>1. ASSUME NEW t \in Threads, initQueue(t) PROVE Types'
  <2>1. main_q' \in Seq(Elems) /\ waiting_threads_q' \in Seq(Threads) /\ accepted' \in Seq(Elems)
    BY <1>1, EmptySeq DEF initQueue
  <2>2. full_size' \in Nat /\ visited_elements_num' \in Nat /\ waiting_threads_num' \in Nat
        /\ requests' \in Nat
    BY <1>1 DEF initQueue
  <2> QED BY <1>1, <2>1, <2>2 DEF initQueue, node, Types, TypeOK
<1>2. ASSUME NEW t \in Threads, destroyQueue(t) PROVE Types'
  <2>1. main_q' \in Seq(Elems) /\ waiting_threads_q' \in Seq(Threads)
    BY <1>2, EmptySeq DEF destroyQueue
  <2>2. legal' \in [Threads -> BOOLEAN] /\ inUse' \in BOOLEAN
    BY <1>2, Zenon DEF destroyQueue
  <2>3. UNCHANGED <<q_lock, full_size, visited_elements_num, waiting_threads_num,
                    dequeued_elem, accepted, requests, ret>>
    BY <1>2 DEF destroyQueue, counters
  <2>4. /\ elem' \in [Threads -> Elems \cup {NULL, Garbage}]
        /\ ticket' \in [Threads -> Nat]
        /\ pc' \in [Threads -> {"idle", "waiting", "signalled", "took", "visited",
                                "tried"}]
    BY <1>2 DEF destroyQueue, signalWaiters, Types, TypeOK
  <2> QED BY <2>1, <2>2, <2>3, <2>4 DEF Types, TypeOK
<1>3. ASSUME NEW t \in Threads, NEW e \in Elems, enqueue(t, e) PROVE Types'
  <2>1. accepted' \in Seq(Elems) /\ full_size' \in Nat
    BY <1>3, <1>0, AppendElements DEF enqueue, Types, TypeOK
  <2>2. UNCHANGED <<inUse, q_lock, visited_elements_num, waiting_threads_num,
                    dequeued_elem, requests, ticket, ret>>
    BY <1>3 DEF enqueue
  <2>3. CASE waiting_threads_q # <<>>
    <3> DEFINE w == Head(waiting_threads_q)
    <3>1. /\ waiting_threads_q' = Tail(waiting_threads_q) /\ main_q' = main_q
          /\ pc' = [pc EXCEPT ![w] = "signalled"]
          /\ elem' = [elem EXCEPT ![w] = e] /\ legal' = [legal EXCEPT ![w] = TRUE]
      BY <1>3, <2>3 DEF enqueue, Goto
    <3>2. waiting_threads_q' \in Seq(Threads)
      <4>1. waiting_threads_q \in Seq(Threads)
        BY DEF Types, TypeOK
      <4> QED BY <2>3, <3>1, <4>1, TailElements
    <3> HIDE DEF w
    <3>3. pc' \in [Threads -> {"idle", "waiting", "signalled", "took", "visited",
                               "tried"}]
      BY <3>1 DEF Types, TypeOK
    <3>4. elem' \in [Threads -> Elems \cup {NULL, Garbage}]
      BY <3>1 DEF Types, TypeOK
    <3>5. legal' \in [Threads -> BOOLEAN]
      BY <3>1 DEF Types, TypeOK
    <3> QED BY <2>1, <2>2, <3>1, <3>2, <3>3, <3>4, <3>5 DEF Types, TypeOK
  <2>4. CASE waiting_threads_q = <<>>
    <3>1. main_q' = Append(main_q, e) /\ UNCHANGED <<waiting_threads_q, pc, elem, legal>>
      BY <1>3, <2>4 DEF enqueue, node
    <3>2. main_q' \in Seq(Elems)
      BY <3>1, AppendElements DEF Types, TypeOK
    <3> QED BY <2>1, <2>2, <3>1, <3>2 DEF Types, TypeOK
  <2> QED BY <2>3, <2>4
<1>4. ASSUME NEW t \in Threads, dequeueTake(t) \/ tryTake(t) PROVE Types'
  <2>1. /\ main_q' \in Seq(Elems)
        /\ dequeued_elem' \in [Threads -> Elems \cup {NULL}]
        /\ main_q # <<>>
    <3>1. /\ main_q # <<>> /\ main_q' = Tail(main_q)
          /\ dequeued_elem' = [dequeued_elem EXCEPT ![t] = Head(main_q)]
      BY <1>4 DEF dequeueTake, tryTake, pop_from_main_q
    <3>2. main_q \in Seq(Elems) /\ dequeued_elem \in [Threads -> Elems \cup {NULL}]
      BY DEF Types, TypeOK
    <3>3. Head(main_q) \in Elems /\ Tail(main_q) \in Seq(Elems)
      BY <3>1, <3>2, TailElements
    <3> QED BY <3>1, <3>2, <3>3
  <2>2. full_size' \in Nat /\ visited_elements_num' \in Nat
    BY <1>4, <1>0, <2>1, NotZero
       DEF dequeueTake, tryTake, countVisit, Enter, Types, TypeOK
  <2>3. /\ requests' \in Nat /\ ticket' \in [Threads -> Nat]
        /\ accepted' = accepted /\ ret' = ret
    BY <1>4, <1>0 DEF dequeueTake, tryTake, NewTicket, Types
  <2>4. /\ pc' \in [Threads -> {"idle", "waiting", "signalled", "took", "visited",
                                "tried"}]
        /\ q_lock' \in Threads \cup {NULL}
        /\ UNCHANGED <<inUse, waiting_threads_q, waiting_threads_num, elem, legal>>
    BY <1>4 DEF dequeueTake, tryTake, Goto, Lock, node, Types, TypeOK
  <2> QED BY <2>1, <2>2, <2>3, <2>4 DEF Types, TypeOK
<1>5. ASSUME NEW t \in Threads, dequeueWait(t) PROVE Types'
  <2>1. waiting_threads_q' \in Seq(Threads)
    BY <1>5, AppendElements DEF dequeueWait, insert_to_threads_q, Types, TypeOK
  <2>2. /\ requests' \in Nat /\ ticket' \in [Threads -> Nat]
        /\ accepted' = accepted /\ ret' = ret /\ waiting_threads_num' \in Nat
    BY <1>5, <1>0 DEF dequeueWait, NewTicket, Types, TypeOK
  <2>3. legal' \in [Threads -> BOOLEAN]
    BY <1>5 DEF dequeueWait, Types, TypeOK
  <2>4. /\ pc' \in [Threads -> {"idle", "waiting", "signalled", "took", "visited",
                                "tried"}]
        /\ elem' \in [Threads -> Elems \cup {NULL, Garbage}]
        /\ UNCHANGED <<inUse, q_lock, main_q, full_size, visited_elements_num,
                       dequeued_elem>>
    BY <1>5 DEF dequeueWait, Goto, Types, TypeOK
  <2> QED BY <2>1, <2>2, <2>3, <2>4 DEF Types, TypeOK
<1>6. ASSUME NEW t \in Threads, resumeLegal(t) PROVE Types'
  <2>1. dequeued_elem' \in [Threads -> Elems \cup {NULL}] /\ waiting_threads_num' \in Nat
    BY <1>6, <1>0, InHandIsElem, NotZero DEF resumeLegal, Goto, Types, TypeOK
  <2>2. legal' \in [Threads -> BOOLEAN]
    BY <1>6 DEF resumeLegal, Types, TypeOK
  <2>3. /\ pc' \in [Threads -> {"idle", "waiting", "signalled", "took", "visited",
                                "tried"}]
        /\ q_lock' \in Threads \cup {NULL}
        /\ elem' \in [Threads -> Elems \cup {NULL, Garbage}]
        /\ UNCHANGED <<inUse, main_q, waiting_threads_q, full_size,
                       visited_elements_num>>
        /\ UNCHANGED <<accepted, requests, ticket, ret>>
    BY <1>6 DEF resumeLegal, Goto, Lock, queues, history, Types, TypeOK
  <2> QED BY <2>1, <2>2, <2>3 DEF Types, TypeOK
<1>7. ASSUME NEW t \in Threads, dequeueVisit(t) PROVE Types'
  <2>1. visited_elements_num' \in Nat
    BY <1>7, <1>0 DEF dequeueVisit, countVisit, Types, TypeOK
  <2>2. /\ pc' \in [Threads -> {"idle", "waiting", "signalled", "took", "visited",
                                "tried"}]
        /\ UNCHANGED <<inUse, q_lock, main_q, waiting_threads_q, full_size,
                       waiting_threads_num, elem, legal, dequeued_elem>>
        /\ UNCHANGED <<accepted, requests, ticket, ret>>
    BY <1>7 DEF dequeueVisit, Goto, queues, node, history, Types, TypeOK
  <2> QED BY <2>1, <2>2 DEF Types, TypeOK
<1>8. ASSUME NEW t \in Threads, resumeCancelled(t) \/ dequeueEnd(t) \/ tryEnd(t)
      PROVE  Types'
  <2>1. full_size' \in Nat /\ visited_elements_num' \in Nat
    BY <1>8, <1>0, NotZero DEF resumeCancelled, cancelledCount, dequeueEnd, tryEnd,
                               countVisit, Goto, Types, TypeOK
  <2>2. ASSUME NEW e \in Elems \cup {NULL}, Result(t, e)
        PROVE  /\ ret' \in [Threads -> Elems \cup {NULL}]
               /\ ticket' \in [Threads -> Nat]
               /\ dequeued_elem' \in [Threads -> Elems \cup {NULL}]
               /\ UNCHANGED <<accepted, requests>>
    BY <2>2 DEF Result, Types, TypeOK
  <2>3. \E e \in Elems \cup {NULL} : Result(t, e)
    BY <1>8, InHandIsElem DEF resumeCancelled, dequeueEnd, tryEnd, Goto, Types, TypeOK
  <2>4. /\ pc' \in [Threads -> {"idle", "waiting", "signalled", "took", "visited",
                                "tried"}]
        /\ q_lock' \in Threads \cup {NULL}
        /\ UNCHANGED <<inUse, main_q, waiting_threads_q, waiting_threads_num,
                       elem, legal>>
    BY <1>8 DEF resumeCancelled, dequeueEnd, tryEnd, Unlock, Goto, queues, node,
                Types, TypeOK
  <2> QED BY <2>1, <2>2, <2>3, <2>4 DEF Types, TypeOK
<1>9. ASSUME NEW t \in Threads, tryRefuse(t) PROVE Types'
  <2>1. ret' \in [Threads -> Elems \cup {NULL}]
    BY <1>9 DEF tryRefuse, Types, TypeOK
  <2>2. /\ UNCHANGED <<inUse, q_lock, main_q, waiting_threads_q, pc, elem, legal>>
        /\ UNCHANGED <<full_size, visited_elements_num, waiting_threads_num>>
        /\ UNCHANGED <<dequeued_elem, accepted, requests, ticket>>
    BY <1>9 DEF tryRefuse, queues, counters, node
  <2> QED BY <2>1, <2>2 DEF Types, TypeOK
<1>10. CASE UNCHANGED vars
  <2>1. /\ UNCHANGED <<inUse, q_lock, main_q, waiting_threads_q, pc, elem, legal>>
        /\ UNCHANGED <<full_size, visited_elements_num, waiting_threads_num>>
        /\ UNCHANGED <<dequeued_elem, accepted, requests, ticket, ret>>
    BY <1>10 DEF vars, queues, counters, node, history
  <2> QED BY <2>1 DEF Types, TypeOK
<1> QED BY <1>1, <1>2, <1>3, <1>4, <1>5, <1>6, <1>7, <1>8, <1>9, <1>10
        DEF Next, Step, Inside

(* The invariant is inductive, and so the types and the counters are as    *)
(* they should be in every reachable state.                                *)
LEMMA IInvHolds == Spec => []IInv
<1>1. Init => IInv
  BY InitNumbered, CountingInit DEF IInv
<1>2. IInv /\ [Next]_vars => IInv'
  BY TypesStep, MutexStep, NumberedStep, CountingStep DEF IInv
<1> QED BY <1>1, <1>2, PTL DEF Spec

(* The variables keep their types: no counter goes below 0, and what an    *)
(* operation returns is an element, or NULL.                               *)
THEOREM TypeCorrect == Spec => []TypeOK
<1>1. IInv => TypeOK
  BY DEF IInv, Types
<1> QED BY <1>1, IInvHolds, PTL

(* The three atomics are exact whenever a queue is in use, although they   *)
(* are changed and read one by one.                                        *)
THEOREM CountersAreExact == Spec => []CountersExact
<1>1. ASSUME IInv, inUse PROVE CountersExact
  <2>1. \A u \in Threads :
          /\ Place(pc, legal)[u] \in Owing <=>
               u \in Handed \/ pc[u] \in {"took", "visited"}
          /\ Place(pc, legal)[u] \in Signalled <=> u \in Handed
          /\ Place(pc, legal)[u] \in Visited <=> pc[u] \in {"visited"}
          /\ Place(pc, legal)[u] \in Tried <=> pc[u] \in {"tried"}
    BY DEF Place, Owing, Signalled, Visited, Tried, Handed, In
  <2>2. /\ Handed \cup In({"took", "visited"})
             = {u \in Threads : Place(pc, legal)[u] \in Owing}
        /\ Handed = {u \in Threads : Place(pc, legal)[u] \in Signalled}
        /\ In({"visited"}) = {u \in Threads : Place(pc, legal)[u] \in Visited}
        /\ In({"tried"}) = {u \in Threads : Place(pc, legal)[u] \in Tried}
    BY <2>1 DEF Handed, In
  <2>3. /\ Cardinality(Handed \cup In({"took", "visited"})) = Count(Place(pc, legal), Owing)
        /\ Cardinality(Handed) = Count(Place(pc, legal), Signalled)
        /\ Cardinality(In({"visited"})) = Count(Place(pc, legal), Visited)
        /\ Cardinality(In({"tried"})) = Count(Place(pc, legal), Tried)
    BY <2>2, Zenon DEF Count, CountIn
  <2>4. /\ full_size = Len(main_q) + Count(Place(pc, legal), Owing)
        /\ waiting_threads_num = Len(waiting_threads_q) + Count(Place(pc, legal), Signalled)
    BY <1>1 DEF IInv, Counting
  <2>5. full_size + visited_elements_num
          = Len(accepted) + Count(Place(pc, legal), Visited)
            - Count(Place(pc, legal), Tried)
    <3>1. full_size + visited_elements_num + Count(Place(pc, legal), Tried)
            = Len(accepted) + Count(Place(pc, legal), Visited)
      BY <1>1 DEF IInv, Counting
    <3>2. /\ full_size \in Int /\ visited_elements_num \in Int /\ Len(accepted) \in Int
          /\ Count(Place(pc, legal), Visited) \in Int
          /\ Count(Place(pc, legal), Tried) \in Int
      BY <1>1, Sums DEF IInv
    <3> QED BY <3>1, <3>2
  <2> QED BY <2>3, <2>4, <2>5, Zenon DEF CountersExact
<1>2. IInv => CountersExact
  BY <1>1 DEF CountersExact
<1> QED BY <1>2, IInvHolds, PTL

-----------------------------------------------------------------------------
(* What the tickets say of a thread.                                       *)
LEMMA WhoIsServed ==
  ASSUME IInv, NEW t \in Threads
  PROVE  /\ pc[t] = "idle" => Cancels!Free(t)
         /\ inUse => (pc[t] = "waiting" <=> ticket[t] > Len(accepted))
         /\ pc[t] # "waiting" => ticket[t] = 0 \/ ticket[t] \in 1 .. Len(accepted)
<1>0. /\ InHand(t) /\ ticket[t] \in Nat /\ Len(accepted) \in Nat
      /\ Len(waiting_threads_q) \in Nat
      /\ pc[t] \in {"idle", "waiting", "signalled", "took", "visited", "tried"}
  BY Lists DEF IInv, Numbered, Types, TypeOK
<1>1. pc[t] = "idle" => Cancels!Free(t)
  BY <1>0 DEF InHand, Cancels!Free
<1>2. pc[t] # "waiting" => ticket[t] = 0 \/ ticket[t] \in 1 .. Len(accepted)
  BY <1>0 DEF InHand, HasElem
<1>3. pc[t] = "waiting" => ticket[t] > Len(accepted)
  <2> SUFFICES ASSUME pc[t] = "waiting" PROVE ticket[t] > Len(accepted)
    OBVIOUS
  <2>1. PICK i \in 1 .. Len(waiting_threads_q) : waiting_threads_q[i] = t
    BY <1>0 DEF InHand
  <2>2. ticket[t] = Len(accepted) + i
    BY <2>1 DEF IInv, Numbered, Waiting
  <2>3. i \in Nat /\ i >= 1
    BY <1>0, <2>1
  <2> QED BY <1>0, <2>2, <2>3
<1> QED BY <1>0, <1>1, <1>2, <1>3

Cancelled == {t \in Threads : pc[t] = "signalled" /\ ~ legal[t]}

(* Every step of the queue is a step of CancelQueue or changes nothing     *)
(* there.                                                                  *)
LEMMA StepImplementsCancels ==
  IInv /\ IInv' /\ [Next]_vars
    => [Cancels!Next \/ \E t \in Threads : Cancels!Cancel(t)]_(Cancels!vars)
<1> SUFFICES ASSUME IInv, IInv', [Next]_vars
             PROVE  \/ Cancels!Next
                    \/ \E t \in Threads : Cancels!Cancel(t)
                    \/ UNCHANGED Cancels!vars
  OBVIOUS
<1>0. /\ pc \in [Threads -> {"idle", "waiting", "signalled", "took", "visited",
                             "tried"}]
      /\ DOMAIN pc = Threads /\ DOMAIN legal = Threads
  BY DEF IInv, Types, TypeOK
<1>1. ASSUME NEW t \in Threads, initQueue(t) PROVE Cancels!Open
  <2>1. \A u \in Threads : ticket[u] = 0
    BY <1>1 DEF initQueue, IInv, Numbered, InHand
  <2>2. Cancelled' = Cancelled
    BY <1>1 DEF initQueue, node, Cancelled
  <2> QED BY <1>1, <2>1, <2>2 DEF initQueue, Cancelled, Cancels!Open
<1>2. ASSUME NEW t \in Threads, destroyQueue(t) PROVE Cancels!Close
  <2>1. /\ inUse /\ inUse' = FALSE
        /\ accepted' = accepted /\ requests' = requests /\ ret' = ret
        /\ pc' = [u \in Threads |-> IF u \in Waiters THEN "signalled" ELSE pc[u]]
        /\ legal' = [u \in Threads |-> u \notin Waiters /\ legal[u]]
        /\ ticket' = [u \in Threads |-> IF u \in Waiters THEN 0 ELSE ticket[u]]
    BY <1>2 DEF destroyQueue, signalWaiters, Enter
  <2>2. Waiters = {u \in Threads : pc[u] = "waiting"}
    BY <1>2, NumberedDestroy DEF IInv
  <2>3. \A u \in Threads : u \in Waiters <=> ticket[u] > Len(accepted)
    BY <2>1, <2>2, WhoIsServed
  <2>4. \A u \in Threads : u \notin Waiters => ticket[u] = 0 \/ Cancels!Served(u)
    BY <2>2, WhoIsServed DEF Cancels!Served
  <2>5. \A u \in Threads : u \in Waiters => ~ Cancels!Served(u)
    <3>1. Len(accepted) \in Nat /\ \A u \in Threads : ticket[u] \in Nat
      BY Lists DEF IInv
    <3> QED BY <2>3, <3>1 DEF Cancels!Served
  <2>6. Cancelled' = Cancelled \cup {u \in Threads : ticket[u] > Len(accepted)}
    <3>1. \A u \in Threads :
            pc'[u] = "signalled" /\ ~ legal'[u] <=>
              (pc[u] = "signalled" /\ ~ legal[u]) \/ u \in Waiters
      BY <2>1, <2>2
    <3> QED BY <2>3, <3>1 DEF Cancelled
  <2>7. ticket' = [u \in Threads |-> IF Cancels!Served(u) THEN ticket[u] ELSE 0]
    BY <2>1, <2>4, <2>5
  <2> QED BY <2>1, <2>6, <2>7 DEF Cancelled, Cancels!Close
<1>3. ASSUME NEW t \in Threads, NEW e \in Elems, enqueue(t, e)
      PROVE  Cancels!Put(e)
  <2>1. /\ inUse /\ inUse' = inUse /\ accepted' = Append(accepted, e)
        /\ requests' = requests /\ ticket' = ticket /\ ret' = ret
    BY <1>3 DEF enqueue, Enter
  <2>2. Cancelled' = Cancelled
    <3>1. CASE waiting_threads_q # <<>>
      <4> DEFINE w == Head(waiting_threads_q)
      <4>1. /\ pc' = [pc EXCEPT ![w] = "signalled"] /\ pc[w] = "waiting"
            /\ legal' = [legal EXCEPT ![w] = TRUE]
        BY <1>3, <3>1 DEF enqueue, Goto, IInv, Numbered
      <4> HIDE DEF w
      <4> QED BY <1>0, <4>1 DEF Cancelled
    <3>2. CASE waiting_threads_q = <<>>
      BY <1>3, <3>2 DEF enqueue, node, Cancelled
    <3> QED BY <3>1, <3>2
  <2> QED BY <2>1, <2>2 DEF Cancelled, Cancels!Put
<1>4. ASSUME NEW t \in Threads, dequeueTake(t) \/ tryTake(t) \/ dequeueWait(t)
      PROVE  Cancels!Ask(t)
  <2>1. /\ inUse /\ inUse' = inUse /\ requests' = requests + 1 /\ accepted' = accepted
        /\ ticket' = [ticket EXCEPT ![t] = requests + 1] /\ ret' = ret
        /\ pc[t] = "idle"
    BY <1>4 DEF dequeueTake, tryTake, dequeueWait, Enter, NewTicket
  <2>2. /\ pc'[t] # "signalled"
        /\ \A u \in Threads \ {t} : pc'[u] = pc[u] /\ legal'[u] = legal[u]
    BY <1>0, <1>4 DEF dequeueTake, tryTake, dequeueWait, Goto, node
  <2>3. Cancelled' = Cancelled
    BY <2>1, <2>2 DEF Cancelled
  <2> QED BY <2>1, <2>3, WhoIsServed DEF Cancelled, Cancels!Ask
<1>5. ASSUME NEW t \in Threads, dequeueEnd(t) \/ tryEnd(t) PROVE Cancels!Return(t)
  <2>1. /\ ret' = [ret EXCEPT ![t] = dequeued_elem[t]]
        /\ ticket' = [ticket EXCEPT ![t] = 0]
        /\ inUse' = inUse /\ accepted' = accepted /\ requests' = requests
        /\ HasElem(t, dequeued_elem[t])
    BY <1>5 DEF dequeueEnd, tryEnd, Result, Goto, IInv, Numbered, InHand
  <2>2. Cancelled' = Cancelled
    BY <1>0, <1>5 DEF dequeueEnd, tryEnd, Goto, node, Cancelled
  <2> QED BY <2>1, <2>2 DEF HasElem, Cancelled, Cancels!Return, Cancels!Served
<1>6. ASSUME NEW t \in Threads, resumeCancelled(t) PROVE Cancels!Cancel(t)
  <2>1. /\ pc[t] = "signalled" /\ ~ legal[t] /\ pc' = [pc EXCEPT ![t] = "idle"]
        /\ legal' = legal
        /\ ret' = [ret EXCEPT ![t] = elem[t]] /\ ticket' = [ticket EXCEPT ![t] = 0]
        /\ inUse' = inUse /\ accepted' = accepted /\ requests' = requests
    BY <1>6 DEF resumeCancelled, Result, Goto, node
  <2>2. InHand(t) /\ ticket \in [Threads -> Nat]
    BY DEF IInv, Numbered, Types
  <2>3. elem[t] = NULL /\ ticket' = ticket
    BY <2>1, <2>2 DEF InHand
  <2>4. t \in Cancelled /\ Cancelled' = Cancelled \ {t}
    BY <1>0, <2>1 DEF Cancelled
  <2> QED BY <2>1, <2>3, <2>4 DEF Cancelled, Cancels!Cancel
<1>7. ASSUME NEW t \in Threads, tryRefuse(t) PROVE Cancels!Refuse(t)
  <2>1. /\ inUse /\ pc[t] = "idle" /\ Len(main_q) = 0
        /\ ret' = [ret EXCEPT ![t] = NULL]
        /\ UNCHANGED <<inUse, accepted, requests, ticket, pc, legal>>
    BY <1>7, EmptySeq DEF tryRefuse, Enter, node
  <2>2. requests >= Len(accepted)
    BY <2>1, Lists DEF IInv, Numbered, Numbers
  <2>3. Cancelled' = Cancelled
    BY <2>1 DEF Cancelled
  <2> QED BY <2>1, <2>2, <2>3, WhoIsServed DEF Cancelled, Cancels!Refuse
<1>8. ASSUME NEW t \in Threads, resumeLegal(t) \/ dequeueVisit(t)
      PROVE  UNCHANGED Cancels!vars
  <2>1. UNCHANGED <<inUse, accepted, requests, ticket, ret>>
    BY <1>8 DEF resumeLegal, dequeueVisit, history
  <2>2. Cancelled' = Cancelled
    BY <1>0, <1>8 DEF resumeLegal, dequeueVisit, Goto, node, Cancelled
  <2> QED BY <2>1, <2>2 DEF Cancelled, Cancels!vars
<1>9. CASE UNCHANGED vars
  <2>1. UNCHANGED <<inUse, accepted, requests, ticket, ret, pc, legal>>
    BY <1>9 DEF vars, node, history
  <2> QED BY <2>1 DEF Cancels!vars
<1> QED BY <1>1, <1>2, <1>3, <1>4, <1>5, <1>6, <1>7, <1>8, <1>9
        DEF Next, Step, Inside, Cancels!Next

(* The queue implements CancelQueue: elements leave in the order they came *)
(* in, threads are served in the order they asked, and the requests that   *)
(* destroyQueue finds waiting return nothing.                              *)
THEOREM ImplementsCancels == Spec => FifoOrCancelled
<1>1. Init => Cancels!Init
  BY DEF Init, Cancels!Init
<1>2. IInv /\ IInv' /\ [Next]_vars
        => [Cancels!Next \/ \E t \in Threads : Cancels!Cancel(t)]_(Cancels!vars)
  BY StepImplementsCancels
<1> QED BY <1>1, <1>2, IInvHolds, PTL DEF Spec, FifoOrCancelled, Cancels!CancelSpec

-----------------------------------------------------------------------------
(* The callers.  What follows is about RecQueueTests: the scripts of the   *)
(* tests are sequences of calls of a few kinds, every step of a caller is  *)
(* one of the queue or none, and the callers keep an invariant of their    *)
(* own beside IInv.                                                        *)

(* A call of a test: what is called, and the argument.                     *)
Names == {"create", "join", "initQueue", "destroyQueue", "enqueue", "dequeue",
          "tryDequeue"} \cup Checks
Plain == {c \in Names \X (Nat \cup {NULL}) : c[1] = "enqueue" => c[2] \in 1 .. 6}

Rounds  == {"random"} \X (1 .. NumOperations)
Records == {<<"dequeue", 0>>, <<"record", 0>>}
AnyCalls == {<<"any", 0>>}

(* Sequences of calls are put together from these.                         *)
LEMMA CallsOfEach ==
  ASSUME NEW S, NEW op, NEW n \in Nat, \A i \in 1 .. n : <<op, i>> \in S
  PROVE  Each(op, n) \in Seq(S) /\ Len(Each(op, n)) = n
         /\ \A i \in 1 .. n : Each(op, n)[i] = <<op, i>>
<1>1. Each(op, n) \in [1 .. n -> S]
  BY DEF Each
<1>2. Each(op, n) \in Seq(S)
  BY <1>1, SeqDef
<1> QED BY <1>1, <1>2, LenProperties DEF Each

(* The same call several times is a sequence of calls.                     *)
LEMMA CallsOfTimes ==
  ASSUME NEW S, NEW op, NEW n \in Nat, <<op, 0>> \in S
  PROVE  Times(op, n) \in Seq(S)
<1>1. Times(op, n) \in [1 .. n -> S]
  BY DEF Times
<1> QED BY <1>1, SeqDef

(* So are the dequeues whose results are checked.                          *)
LEMMA CallsInOrder ==
  ASSUME NEW n \in Nat
  PROVE  InOrder("dequeue", n) \in Seq(Plain)
<1>1. \A i \in 1 .. 2 * n : <<"returned", i \div 2>> \in Plain /\ <<"dequeue", 0>> \in Plain
  BY DEF Plain, Names, Checks
<1>2. InOrder("dequeue", n) \in [1 .. 2 * n -> Plain]
  BY <1>1 DEF InOrder
<1> QED BY <1>2, SeqDef

(* initQueue before and destroyQueue after keep the calls plain.           *)
LEMMA CallsBetween ==
  ASSUME NEW s \in Seq(Plain)
  PROVE  Between(s) \in Seq(Plain)
<1>1. <<<<"initQueue", 0>>>> \in Seq(Plain) /\ <<<<"destroyQueue", 0>>>> \in Seq(Plain)
  BY DEF Plain, Names, Checks
<1> QED BY <1>1, ConcatProperties DEF Between

(* What stands where in two sequences of calls, one after the other.       *)
Joins(q, s, r) ==
  /\ q \in Seq(Plain) /\ Len(s) \in Nat /\ Len(r) \in Nat
  /\ Len(q) = Len(s) + Len(r)
  /\ \A i \in 1 .. Len(s) : q[i] = s[i]
  /\ \A i \in 1 .. Len(s) + Len(r) : i > Len(s) => q[i] = r[i - Len(s)]

(* Concatenation gives just that.                                          *)
LEMMA Joined ==
  ASSUME NEW s \in Seq(Plain), NEW r \in Seq(Plain)
  PROVE  Joins(s \o r, s, r)
<1>1. /\ s \o r \in Seq(Plain)
      /\ Len(s \o r) = Len(s) + Len(r)
      /\ \A i \in 1 .. Len(s) + Len(r) : (s \o r)[i] =
                     IF i <= Len(s) THEN s[i] ELSE r[i - Len(s)]
  BY ConcatProperties, Zenon
<1>2. Len(s) \in Nat /\ Len(r) \in Nat
  BY LenProperties
<1> QED BY <1>1, <1>2 DEF Joins

(* A test that creates all its threads at once has plain calls in main,    *)
(* and the threads it was given.                                           *)
Makes(s, threads) == s.main \in Seq(Plain) /\ s.threads = threads

(* Whatever it calls before, meanwhile and after.                          *)
LEMMA CallsOfThreaded ==
  ASSUME NEW before \in Seq(Plain), NEW during \in Seq(Plain),
         NEW after \in Seq(Plain), NEW threads, Len(threads) \in Nat
  PROVE  Makes(Threaded(before, threads, during, after), threads)
<1>1. \A i \in 1 .. Len(threads) : <<"create", i>> \in Plain /\ <<"join", i>> \in Plain
  BY DEF Plain, Names
<1>2. /\ Each("create", Len(threads)) \in Seq(Plain)
      /\ Each("join", Len(threads)) \in Seq(Plain)
  BY <1>1, CallsOfEach
<1>3. before \o Each("create", Len(threads)) \o during
                    \o Each("join", Len(threads)) \o after \in Seq(Plain)
  BY <1>2, ConcatProperties
<1>4. Between(before \o Each("create", Len(threads)) \o during
                    \o Each("join", Len(threads)) \o after) \in Seq(Plain)
  BY <1>3, CallsBetween
<1> QED BY <1>4 DEF Threaded, Makes

(* As most tests do, without calls before and after.                       *)
LEMMA CallsOfMostThreaded ==
  ASSUME NEW threads, Len(threads) \in Nat, NEW during \in Seq(Plain)
  PROVE  Makes(Threaded(<<>>, threads, during, <<>>), threads)
<1>1. <<>> \in Seq(Plain)
  BY EmptySeq
<1> QED BY <1>1, CallsOfThreaded, Zenon

(* Where a test without calls before and after its threads creates them.   *)
LEMMA OrderOfThreaded ==
  ASSUME NEW threads, NEW n \in Nat, Len(threads) = n,
         NEW during \in Seq(Plain),
         \A i \in 1 .. Len(during) : during[i][1] \notin {"initQueue", "create"},
         NEW main, main = Threaded(<<>>, threads, during, <<>>).main,
         NEW k \in 1 .. Len(main)
  PROVE  /\ main[k][1] = "initQueue" => k = 1
         /\ main[k][1] = "create" => k = main[k][2] + 1 /\ main[k][2] \in 1 .. n
<1> DEFINE first == <<<<"initQueue", 0>>>>
           last  == <<<<"destroyQueue", 0>>>>
           cr    == Each("create", n)
           jo    == Each("join", n)
<1>1. \A i \in 1 .. n : <<"create", i>> \in Plain /\ <<"join", i>> \in Plain
  BY DEF Plain, Names
<1>2. /\ cr \in Seq(Plain) /\ Len(cr) = n /\ \A i \in 1 .. n : cr[i] = <<"create", i>>
      /\ jo \in Seq(Plain) /\ Len(jo) = n /\ \A i \in 1 .. n : jo[i] = <<"join", i>>
  <2>1. \A i \in 1 .. n : <<"create", i>> \in Plain
    BY <1>1
  <2>2. \A i \in 1 .. n : <<"join", i>> \in Plain
    BY <1>1
  <2>3. cr \in Seq(Plain) /\ Len(cr) = n /\ \A i \in 1 .. n : cr[i] = <<"create", i>>
    BY <2>1, CallsOfEach
  <2>4. jo \in Seq(Plain) /\ Len(jo) = n /\ \A i \in 1 .. n : jo[i] = <<"join", i>>
    BY <2>2, CallsOfEach
  <2> QED BY <2>3, <2>4
<1>3. /\ first \in Seq(Plain) /\ Len(first) = 1 /\ first[1] = <<"initQueue", 0>>
      /\ last \in Seq(Plain) /\ Len(last) = 1 /\ last[1] = <<"destroyQueue", 0>>
  BY DEF Plain, Names
<1>4. <<>> \o cr \o during \o jo \o <<>> = cr \o during \o jo
  BY <1>2, ConcatProperties, ConcatEmptySeq
<1>5. main = first \o (cr \o during \o jo) \o last
  BY <1>4, Zenon DEF Threaded, Between
<1> HIDE DEF first, last, cr, jo
<1> DEFINE cd  == cr \o during
           mid == cd \o jo
           fm  == first \o mid
<1>6. /\ cd \in Seq(Plain) /\ Len(cd) = n + Len(during) /\ Len(during) \in Nat
      /\ \A i \in 1 .. n : cd[i] = cr[i]
      /\ \A i \in 1 .. n + Len(during) : i > n => cd[i] = during[i - n]
  <2>1. Joins(cd, cr, during)
    BY <1>2, Joined
  <2> QED BY <2>1, <1>2 DEF Joins
<1> HIDE DEF cd
<1>7. /\ mid \in Seq(Plain) /\ Len(mid) = n + Len(during) + n
      /\ \A i \in 1 .. n + Len(during) : mid[i] = cd[i]
      /\ \A i \in 1 .. n + Len(during) + n :
           i > n + Len(during) => mid[i] = jo[i - (n + Len(during))]
  <2>1. Joins(mid, cd, jo)
    BY <1>2, <1>6, Joined
  <2> QED BY <2>1, <1>2, <1>6 DEF Joins
<1> HIDE DEF mid
<1>8. /\ fm \in Seq(Plain) /\ Len(fm) = 1 + Len(mid) /\ fm[1] = first[1]
      /\ \A i \in 1 .. 1 + Len(mid) : i > 1 => fm[i] = mid[i - 1]
  <2>1. Joins(fm, first, mid)
    BY <1>3, <1>7, Joined
  <2> QED BY <2>1, <1>3 DEF Joins
<1> HIDE DEF fm
<1>9. \A i \in 1 .. Len(mid) :
        /\ mid[i][1] # "initQueue"
        /\ mid[i][1] = "create" => i \in 1 .. n /\ mid[i][2] = i
  <2> TAKE i \in 1 .. Len(mid)
  <2>1. CASE i <= n
    <3>1. i \in 1 .. n /\ i \in 1 .. n + Len(during)
      BY <2>1, <1>6, <1>7
    <3>2. mid[i] = <<"create", i>>
      BY <3>1, <1>2, <1>6, <1>7
    <3> QED BY <3>1, <3>2
  <2>2. CASE i > n /\ i <= n + Len(during)
    <3>1. i - n \in 1 .. Len(during) /\ mid[i] = during[i - n]
      BY <2>2, <1>6, <1>7
    <3> QED BY <3>1
  <2>3. CASE i > n + Len(during)
    <3>1. i - (n + Len(during)) \in 1 .. n
      BY <2>3, <1>6, <1>7
    <3> QED BY <2>3, <3>1, <1>2, <1>6, <1>7
  <2> QED BY <2>1, <2>2, <2>3, <1>6, <1>7
<1>10. Len(mid) \in Nat
  BY <1>6, <1>7
<1>11. /\ Len(main) = 1 + Len(mid) + 1
       /\ \A i \in 1 .. 1 + Len(mid) : main[i] = fm[i]
       /\ main[1 + Len(mid) + 1] = last[1]
  <2>1. main = fm \o last
    BY <1>5 DEF fm, mid, cd
  <2>2. Joins(fm \o last, fm, last)
    BY <1>3, <1>8, Joined
  <2>3. Len(fm) = 1 + Len(mid) /\ Len(last) = 1 /\ Len(mid) \in Nat
    BY <1>3, <1>8, <1>10
  <2>4. /\ Len(main) = Len(fm) + Len(last)
        /\ \A i \in 1 .. Len(fm) : main[i] = fm[i]
        /\ \A i \in 1 .. Len(fm) + Len(last) : i > Len(fm) => main[i] = last[i - Len(fm)]
    BY <2>1, <2>2, Zenon DEF Joins
  <2> QED BY <2>3, <2>4
<1>13. CASE k = 1
  BY <1>13, <1>3, <1>8, <1>10, <1>11
<1>14. CASE k > 1 /\ k <= 1 + Len(mid)
  <2>1. k - 1 \in 1 .. Len(mid) /\ main[k] = mid[k - 1]
    BY <1>14, <1>8, <1>10, <1>11
  <2> QED BY <2>1, <1>9
<1>15. CASE k = 1 + Len(mid) + 1
  BY <1>15, <1>3, <1>10, <1>11
<1> QED BY <1>10, <1>11, <1>13, <1>14, <1>15

(* The calls of a script, by the test they are from.                       *)
PlainScript(s) == s.main \in Seq(Plain) /\ s.threads \in Seq(Seq(Plain))

(* The pieces the tests are made of.                                       *)
LEMMA PlainCalls ==
  /\ <<<<"size", 3>>>> \in Seq(Plain) /\ <<<<"visited", 2>>>> \in Seq(Plain)
  /\ <<<<"size", 0>>, <<"visited", 3>>>> \in Seq(Plain)
  /\ <<<<"visited", 4>>>> \in Seq(Plain) /\ <<<<"counter", 4>>>> \in Seq(Plain)
  /\ <<>> \in Seq(Plain)
  /\ Times("dequeue", 1) \in Seq(Plain) /\ Times("dequeue", 2) \in Seq(Plain)
  /\ \A n \in 1 .. 6 : Each("enqueue", n) \in Seq(Plain)
  /\ \A n \in Nat : InOrder("dequeue", n) \in Seq(Plain)
<1>1. /\ <<"size", 3>> \in Plain /\ <<"size", 0>> \in Plain /\ <<"visited", 2>> \in Plain
      /\ <<"visited", 3>> \in Plain /\ <<"visited", 4>> \in Plain
      /\ <<"counter", 4>> \in Plain /\ <<"dequeue", 0>> \in Plain
  BY DEF Plain, Names, Checks
<1>2. \A n \in 1 .. 6 : \A i \in 1 .. n : <<"enqueue", i>> \in Plain
  BY DEF Plain, Names
<1>3. \A n \in 1 .. 6 : Each("enqueue", n) \in Seq(Plain)
  <2> TAKE n \in 1 .. 6
  <2>1. n \in Nat /\ \A i \in 1 .. n : <<"enqueue", i>> \in Plain
    BY <1>2
  <2> QED BY <2>1, CallsOfEach
<1>4. Times("dequeue", 1) \in Seq(Plain) /\ Times("dequeue", 2) \in Seq(Plain)
  BY <1>1, CallsOfTimes
<1>5. \A n \in Nat : InOrder("dequeue", n) \in Seq(Plain)
  BY CallsInOrder
<1> QED BY <1>1, <1>3, <1>4, <1>5

(* The tests of one thread make plain calls only.                          *)
LEMMA PlainAlone ==
  /\ PlainScript(test_basic_functionality) /\ PlainScript(test_visited_count)
  /\ PlainScript(test_fifo_order) /\ PlainScript(test_large_data)
<1>1. ASSUME NEW c \in Seq(Plain) PROVE PlainScript(Alone(c))
  <2>1. Between(c) \in Seq(Plain)
    BY <1>1, CallsBetween
  <2> QED BY <2>1 DEF PlainScript, Alone
<1>2. Each("enqueue", 3) \o <<<<"size", 3>>>> \o InOrder("dequeue", 3)
        \o <<<<"size", 0>>, <<"visited", 3>>>> \in Seq(Plain)
  BY PlainCalls, ConcatProperties
<1>3. Each("enqueue", 2) \o Times("dequeue", 2) \o <<<<"visited", 2>>>>
        \o Each("enqueue", 2) \o Times("dequeue", 2) \o <<<<"visited", 4>>>> \in Seq(Plain)
  BY PlainCalls, ConcatProperties
<1>4. /\ Each("enqueue", 5) \o InOrder("dequeue", 5) \in Seq(Plain)
      /\ Each("enqueue", 6) \o InOrder("dequeue", 6) \in Seq(Plain)
  <2>1. /\ Each("enqueue", 5) \in Seq(Plain) /\ Each("enqueue", 6) \in Seq(Plain)
        /\ InOrder("dequeue", 5) \in Seq(Plain) /\ InOrder("dequeue", 6) \in Seq(Plain)
    BY PlainCalls
  <2> QED BY <2>1, ConcatProperties
<1>5. PlainScript(test_basic_functionality)
  BY <1>1, <1>2 DEF test_basic_functionality
<1>6. PlainScript(test_visited_count)
  BY <1>1, <1>3 DEF test_visited_count
<1>7. PlainScript(test_fifo_order) /\ PlainScript(test_large_data)
  BY <1>1, <1>4 DEF test_fifo_order, test_large_data
<1> QED BY <1>5, <1>6, <1>7

(* So do the tests with threads, but for the two below.                    *)
LEMMA PlainThreaded ==
  /\ PlainScript(test_edge_cases) /\ PlainScript(test_concurrency)
  /\ PlainScript(stress_test) /\ PlainScript(test_multiple_threads)
<1>1. ASSUME NEW before \in Seq(Plain), NEW during \in Seq(Plain),
             NEW after \in Seq(Plain), NEW threads \in Seq(Seq(Plain))
      PROVE  PlainScript(Threaded(before, threads, during, after))
  <2>1. Len(threads) \in Nat
    BY <1>1, LenProperties
  <2> QED BY <1>1, <2>1, CallsOfThreaded DEF PlainScript, Makes
<1>2. /\ <<<<<<"dequeue", 0>>>>>> \in Seq(Seq(Plain))
      /\ <<<<"running", 1>>, <<"enqueue", 1>>>> \in Seq(Plain)
      /\ <<<<"tryDequeue", 0>>, <<"returned", NULL>>, <<"enqueue", 2>>,
           <<"tryDequeue", 0>>, <<"returned", 2>>>> \in Seq(Plain)
  <2>1. /\ <<"dequeue", 0>> \in Plain /\ <<"running", 1>> \in Plain
        /\ <<"enqueue", 1>> \in Plain /\ <<"enqueue", 2>> \in Plain
        /\ <<"tryDequeue", 0>> \in Plain /\ <<"returned", NULL>> \in Plain
        /\ <<"returned", 2>> \in Plain
    BY DEF Plain, Names, Checks
  <2> QED BY <2>1
<1>3. PlainScript(test_edge_cases)
  BY <1>1, <1>2, PlainCalls DEF test_edge_cases
<1>4. PlainScript(test_concurrency)
  <2>1. /\ <<"enqueue", 1>> \in Plain /\ <<"enqueue", 2>> \in Plain
        /\ <<"enqueue", 3>> \in Plain /\ <<"enqueue", 4>> \in Plain
        /\ <<"size", 4>> \in Plain /\ <<"counter", 4>> \in Plain
        /\ <<"create", 3>> \in Plain /\ <<"create", 4>> \in Plain
        /\ <<"join", 3>> \in Plain /\ <<"join", 4>> \in Plain
        /\ \A i \in 1 .. 2 : <<"create", i>> \in Plain /\ <<"join", i>> \in Plain
    BY DEF Plain, Names, Checks
  <2>2. /\ <<<<"enqueue", 1>>, <<"enqueue", 2>>>> \in Seq(Plain)
        /\ <<<<"enqueue", 3>>, <<"enqueue", 4>>>> \in Seq(Plain)
        /\ <<<<"size", 4>>, <<"create", 3>>, <<"create", 4>>,
             <<"join", 3>>, <<"join", 4>>, <<"counter", 4>>>> \in Seq(Plain)
    BY <2>1
  <2>3. <<<<<<"enqueue", 1>>, <<"enqueue", 2>>>>, <<<<"enqueue", 3>>, <<"enqueue", 4>>>>,
          Times("dequeue", 2), Times("dequeue", 2)>> \in Seq(Seq(Plain))
    BY <2>2, PlainCalls
  <2>4. Each("create", 2) \in Seq(Plain) /\ Each("join", 2) \in Seq(Plain)
    BY <2>1, CallsOfEach
  <2>5. Each("create", 2) \o Each("join", 2)
                    \o <<<<"size", 4>>, <<"create", 3>>, <<"create", 4>>,
                         <<"join", 3>>, <<"join", 4>>, <<"counter", 4>>>> \in Seq(Plain)
    BY <2>2, <2>4, ConcatProperties
  <2> QED BY <2>3, <2>5, CallsBetween DEF test_concurrency, PlainScript
<1>5. PlainScript(stress_test)
  <2>1. <<Each("enqueue", 2), Each("enqueue", 2), Times("dequeue", 2), Times("dequeue", 2)>>
          \in Seq(Seq(Plain))
    BY PlainCalls
  <2> QED BY <2>1, <1>1, PlainCalls DEF stress_test
<1>6. PlainScript(test_multiple_threads)
  <2>1. thread_func \in Seq(Plain)
    BY PlainCalls, ConcatProperties DEF thread_func
  <2>2. [i \in 1 .. 4 |-> thread_func] \in Seq(Seq(Plain))
    BY <2>1
  <2> QED BY <2>2, <1>1, PlainCalls DEF test_multiple_threads
<1> QED BY <1>3, <1>4, <1>5, <1>6

(* The two tests the properties are about: a thread of the random          *)
(* operations test goes through its rounds, one of the wake-up test calls  *)
(* dequeue and records itself.                                             *)
LEMMA RandomScript ==
  LET s == test_random_operations IN
    /\ s.main \in Seq(Plain)
    /\ Len(s.threads) = 2
    /\ \A i \in 1 .. 2 : s.threads[i] \in Seq(Rounds)
    /\ \A k \in 1 .. Len(s.main) :
         /\ s.main[k][1] = "initQueue" => k = 1
         /\ s.main[k][1] = "create" => k = s.main[k][2] + 1 /\ s.main[k][2] \in 1 .. 2
<1> DEFINE threads == [i \in 1 .. 2 |-> Each("random", NumOperations)]
<1>1. \A i \in 1 .. NumOperations : <<"random", i>> \in Rounds
  BY RecTestsAssumption DEF Rounds
<1>2. Each("random", NumOperations) \in Seq(Rounds)
  BY <1>1, RecTestsAssumption, CallsOfEach
<1>3. threads \in Seq(Seq(Rounds)) /\ Len(threads) = 2
  BY <1>2
<1>4. test_random_operations = Threaded(<<>>, threads, <<>>, <<>>)
  BY Zenon DEF test_random_operations
<1>5. \A i \in 1 .. 2 : threads[i] \in Seq(Rounds)
  BY <1>2
<1> HIDE DEF threads
<1>6. <<>> \in Seq(Plain) /\ Len(<<>>) = 0
  BY EmptySeq
<1>7. test_random_operations.main \in Seq(Plain) /\ test_random_operations.threads = threads
  <2>1. Len(threads) \in Nat
    BY <1>3
  <2>2. Makes(Threaded(<<>>, threads, <<>>, <<>>), threads)
    BY <2>1, <1>6, CallsOfMostThreaded, Zenon
  <2> QED BY <2>2, <1>4 DEF Makes
<1>8. ASSUME NEW k \in 1 .. Len(test_random_operations.main)
      PROVE  LET main == test_random_operations.main IN
               /\ main[k][1] = "initQueue" => k = 1
               /\ main[k][1] = "create" => k = main[k][2] + 1 /\ main[k][2] \in 1 .. 2
  <2>1. \A i \in 1 .. Len(<<>>) : <<>>[i][1] \notin {"initQueue", "create"}
    BY <1>6
  <2> QED BY <2>1, <1>3, <1>4, <1>6, OrderOfThreaded
<1> QED BY <1>3, <1>5, <1>7, <1>8

(* The same of the wake-up test.                                           *)
LEMMA WakeupScript ==
  LET s == test_thread_wakeup_order IN
    /\ s.main \in Seq(Plain)
    /\ Len(s.threads) = 3
    /\ \A i \in 1 .. 3 : s.threads[i] = dequeue_and_record
    /\ \A k \in 1 .. Len(s.main) :
         /\ s.main[k][1] = "initQueue" => k = 1
         /\ s.main[k][1] = "create" => k = s.main[k][2] + 1 /\ s.main[k][2] \in 1 .. 3
<1> DEFINE threads == [i \in 1 .. 3 |-> dequeue_and_record]
           during  == Each("enqueue", 3)
<1>1. /\ Len(threads) = 3
      /\ \A i \in 1 .. 3 : threads[i] = dequeue_and_record
  OBVIOUS
<1>2. /\ during \in Seq(Plain)
      /\ \A i \in 1 .. Len(during) : during[i][1] \notin {"initQueue", "create"}
  <2>1. \A i \in 1 .. 3 : <<"enqueue", i>> \in Plain
    BY DEF Plain, Names
  <2>2. 3 \in Nat
    OBVIOUS
  <2>3. /\ during \in Seq(Plain) /\ Len(during) = 3
        /\ \A i \in 1 .. 3 : during[i] = <<"enqueue", i>>
    BY <2>1, <2>2, CallsOfEach, Zenon
  <2> QED BY <2>3
<1>3. test_thread_wakeup_order = Threaded(<<>>, threads, during, <<>>)
  BY Zenon DEF test_thread_wakeup_order
<1> HIDE DEF threads, during
<1>4. <<>> \in Seq(Plain)
  BY EmptySeq
<1>5. /\ test_thread_wakeup_order.main \in Seq(Plain)
      /\ test_thread_wakeup_order.threads = threads
  <2>1. Len(threads) \in Nat
    BY <1>1
  <2>2. Makes(Threaded(<<>>, threads, during, <<>>), threads)
    BY <1>2, <2>1, CallsOfMostThreaded, Zenon
  <2> QED BY <2>2, <1>3 DEF Makes
<1>6. ASSUME NEW k \in 1 .. Len(test_thread_wakeup_order.main)
      PROVE  LET main == test_thread_wakeup_order.main IN
               /\ main[k][1] = "initQueue" => k = 1
               /\ main[k][1] = "create" => k = main[k][2] + 1 /\ main[k][2] \in 1 .. 3
  BY <1>1, <1>2, <1>3, OrderOfThreaded
<1> QED BY <1>1, <1>5, <1>6

(* An arbitrary program is none of the tests.                              *)
LEMMA NotAny == ASSUME test \in Tests PROVE test # AnyProgram
<1>1. test.main \in Seq(Plain)
  BY PlainAlone, PlainThreaded, RandomScript, WakeupScript, Zenon
     DEF Tests, PlainScript
<1>2. /\ AnyProgram.main[1] = <<"any", 0>> /\ <<"any", 0>> \notin Plain
      /\ Len(AnyProgram.main) = 1
  BY DEF AnyProgram, Plain, Names, Checks
<1>3. ASSUME AnyProgram.main \in Seq(Plain) PROVE AnyProgram.main[1] \in Plain
  BY <1>2, <1>3, ElementOfSeq
<1>4. SUFFICES ASSUME test = AnyProgram PROVE FALSE
  OBVIOUS
<1>5. AnyProgram.main \in Seq(Plain)
  BY <1>1, <1>4
<1> QED BY <1>2, <1>3, <1>5

Ordered == {test_random_operations, test_thread_wakeup_order}

(* The call a thread is at.                                                *)
Call(t) == Calls(t)[at[t]]

(* What the callers know: the script, and how far each thread is in it.    *)
Script ==
  /\ test \in Tests \cup {AnyProgram}
  /\ at \in [Threads -> Nat]

(* A thread that is at a call is at one of its test's.                     *)
LEMMA CallOf ==
  ASSUME NumbersFit, Script, NEW t \in Threads, Op(t) # "none"
  PROVE  /\ at[t] \in 1 .. Len(Calls(t)) /\ Op(t) = Call(t)[1] /\ Arg(t) = Call(t)[2]
         /\ \/ Call(t) \in Plain /\ test # AnyProgram /\ (test \in Ordered => t = Main)
            \/ Call(t) \in Rounds /\ test = test_random_operations /\ t # Main
            \/ Call(t) \in Records /\ test = test_thread_wakeup_order /\ t # Main
            \/ Call(t) \in AnyCalls /\ test = AnyProgram
<1>1. /\ t \in Nat /\ at[t] \in DOMAIN Calls(t)
      /\ Op(t) = Call(t)[1] /\ Arg(t) = Call(t)[2]
  BY DEF Op, Arg, Call, NumbersFit
<1>2. DOMAIN <<>> = {}
  OBVIOUS
<1>3. t = Main \/ (t # Main /\ t \in 1 .. Len(test.threads) /\ Calls(t) = test.threads[t])
  BY <1>1, <1>2 DEF Calls, Main
<1>4. ASSUME NEW S, Calls(t) \in Seq(S) PROVE Call(t) \in S /\ at[t] \in 1 .. Len(Calls(t))
  BY <1>1, <1>4, LenProperties, ElementOfSeq DEF Call
<1>5. CASE test = AnyProgram
  <2>1. <<<<"any", 0>>>> \in Seq(AnyCalls)
    BY DEF AnyCalls
  <2>2. Len(test.threads) = 2 /\ \A i \in 1 .. 2 : test.threads[i] = <<<<"any", 0>>>>
    BY <1>5 DEF AnyProgram
  <2>3. Calls(t) \in Seq(AnyCalls)
    BY <1>3, <1>5, <2>1, <2>2 DEF Calls, AnyProgram
  <2> QED BY <1>1, <1>4, <1>5, <2>3
<1>6. ASSUME test \in Tests PROVE test # AnyProgram
  BY <1>6, NotAny
<1>7. CASE test = test_random_operations
  <2>1. CASE t = Main
    <3>1. Calls(t) \in Seq(Plain)
      BY <1>7, <2>1, RandomScript DEF Calls
    <3> QED BY <2>1, <3>1, <1>1, <1>4, <1>6, <1>7 DEF Tests
  <2>2. CASE t # Main
    <3>1. Calls(t) \in Seq(Rounds)
      BY <1>3, <1>7, <2>2, RandomScript
    <3> QED BY <3>1, <1>1, <1>4, <1>7, <2>2
  <2> QED BY <2>1, <2>2
<1>8. CASE test = test_thread_wakeup_order
  <2>1. CASE t = Main
    <3>1. Calls(t) \in Seq(Plain)
      BY <1>8, <2>1, WakeupScript DEF Calls
    <3> QED BY <2>1, <3>1, <1>1, <1>4, <1>6, <1>8 DEF Tests
  <2>2. CASE t # Main
    <3>1. dequeue_and_record \in Seq(Records)
      BY DEF Records, dequeue_and_record
    <3>2. Calls(t) = dequeue_and_record
      BY <1>3, <1>8, <2>2, WakeupScript
    <3> QED BY <3>1, <3>2, <1>1, <1>4, <1>8, <2>2
  <2> QED BY <2>1, <2>2
<1>9. CASE test \in Tests \ {test_random_operations, test_thread_wakeup_order}
  <2>1. PlainScript(test)
    BY <1>9, PlainAlone, PlainThreaded, Zenon DEF Tests
  <2>2. Calls(t) \in Seq(Plain)
    BY <2>1, <1>3, LenProperties, ElementOfSeq DEF PlainScript, Calls
  <2> QED BY <2>2, <1>1, <1>4, <1>6, <1>9 DEF Ordered
<1> QED BY <1>1, <1>5, <1>7, <1>8, <1>9 DEF Script

(* What a call's name says of the rest.                                    *)
LEMMA NamesOf ==
  ASSUME NumbersFit, Script, NEW t \in Threads
  PROVE  /\ Op(t) = "enqueue" => Arg(t) \in Elems
         /\ Op(t) = "random" => /\ Arg(t) \in Elems /\ t # Main
                                /\ test = test_random_operations
         /\ Op(t) = "record" => t # Main /\ test = test_thread_wakeup_order
         /\ Op(t) = "any" <=> Op(t) # "none" /\ test = AnyProgram
         /\ Op(t) \in {"create", "initQueue"} => Call(t) \in Plain
<1>1. CASE Op(t) = "none"
  BY <1>1
<1>2. CASE Op(t) # "none"
  <2>1. /\ \A c \in Plain : c[1] \in Names /\ (c[1] = "enqueue" => c[2] \in Elems)
        /\ \A c \in Rounds : c[1] = "random" /\ c[2] \in Elems
        /\ \A c \in Records : c[1] \in {"dequeue", "record"}
        /\ \A c \in AnyCalls : c[1] = "any"
    BY DEF Plain, Rounds, Records, AnyCalls, NumbersFit
  <2>2. /\ {"none", "random", "record", "any"} \cap Names = {}
        /\ {"create", "initQueue"} \subseteq Names
    BY DEF Names, Checks
  <2>3. /\ Op(t) = Call(t)[1] /\ Arg(t) = Call(t)[2]
        /\ \/ Call(t) \in Plain /\ test # AnyProgram
           \/ Call(t) \in Rounds /\ test = test_random_operations /\ t # Main
           \/ Call(t) \in Records /\ test = test_thread_wakeup_order /\ t # Main
           \/ Call(t) \in AnyCalls /\ test = AnyProgram
    BY <1>2, CallOf
  <2>4. CASE Call(t) \in Plain /\ test # AnyProgram
    <3>1. Op(t) \in Names /\ (Op(t) = "enqueue" => Arg(t) \in Elems)
      BY <2>1, <2>3, <2>4
    <3> QED BY <1>2, <2>2, <2>4, <3>1
  <2>5. CASE Call(t) \in Rounds /\ test = test_random_operations /\ t # Main
    BY <1>2, <2>1, <2>3, <2>5, NotAny DEF Tests
  <2>6. CASE Call(t) \in Records /\ test = test_thread_wakeup_order /\ t # Main
    BY <1>2, <2>1, <2>3, <2>6, NotAny DEF Tests
  <2>7. CASE Call(t) \in AnyCalls /\ test = AnyProgram
    BY <1>2, <2>1, <2>3, <2>7
  <2> QED BY <2>3, <2>4, <2>5, <2>6, <2>7
<1> QED BY <1>1, <1>2

(* A thread other than main that a test has not created is at no call; the *)
(* first call of main alone makes the queue, and then the threads are      *)
(* created, one after the other.                                           *)
LEMMA OrderOfCalls ==
  ASSUME NumbersFit, Script, test \in Ordered, NEW t \in Threads
  PROVE  /\ Op(t) = "initQueue" => at[t] = 1 /\ t = Main
         /\ Op(t) = "create" => /\ t = Main /\ at[t] = Arg(t) + 1
                                /\ Arg(t) \in Threads /\ Arg(t) # Main
<1>1. SUFFICES ASSUME Op(t) \in {"create", "initQueue"}
               PROVE  /\ t = Main
                      /\ Op(t) = "initQueue" => at[t] = 1
                      /\ Op(t) = "create" => at[t] = Arg(t) + 1 /\ Arg(t) \in 1 .. 3
  BY DEF NumbersFit, Main
<1>2. Call(t) \in Plain /\ Op(t) # "none"
  BY <1>1, NamesOf
<1>3. t = Main
  <2>1. /\ \A c \in Rounds : c[1] = "random"
        /\ \A c \in Records : c[1] \in {"dequeue", "record"}
        /\ \A c \in AnyCalls : c[1] = "any"
    BY DEF Rounds, Records, AnyCalls
  <2> QED BY <1>1, <1>2, <2>1, CallOf
<1>4. /\ at[t] \in 1 .. Len(test.main)
      /\ Op(t) = test.main[at[t]][1] /\ Arg(t) = test.main[at[t]][2]
  BY <1>2, <1>3, CallOf DEF Calls, Call
<1>5. \A k \in 1 .. Len(test.main) :
        /\ test.main[k][1] = "initQueue" => k = 1
        /\ test.main[k][1] = "create" => k = test.main[k][2] + 1 /\ test.main[k][2] \in 1 .. 3
  <2>1. CASE test = test_random_operations
    <3>1. \A k \in 1 .. Len(test.main) :
            /\ test.main[k][1] = "initQueue" => k = 1
            /\ test.main[k][1] = "create" => /\ k = test.main[k][2] + 1
                                             /\ test.main[k][2] \in 1 .. 2
      BY <2>1, RandomScript
    <3> QED BY <3>1
  <2>2. CASE test = test_thread_wakeup_order
    BY <2>2, WakeupScript
  <2> QED BY <2>1, <2>2 DEF Ordered
<1> QED BY <1>1, <1>3, <1>4, <1>5

(* A step of the callers, seen from the queue: one of its steps, by the    *)
(* same thread, or none.                                                   *)
QueueStep(t) == Step(t) \/ UNCHANGED vars

(* Every step of a caller is such a step, and only initQueue makes a       *)
(* queue.                                                                  *)
LEMMA CallersStep ==
  ASSUME NumbersFit, Script, NEW t \in Threads, ScriptStep(t) \/ anyCall(t)
  PROVE  /\ QueueStep(t)
         /\ ~ inUse /\ inUse' => Op(t) \in {"initQueue", "any"}
         /\ test' = test
<1>1. CASE createThread(t)
  BY <1>1 DEF createThread, QueueStep, vars
<1>2. CASE joinThread(t)
  BY <1>2 DEF joinThread, QueueStep, vars
<1>3. CASE wholeCall(t)
  <2>1. CASE Op(t) = "initQueue" /\ initQueue(t)
    BY <1>3, <2>1 DEF wholeCall, QueueStep, Step
  <2>2. CASE Op(t) = "destroyQueue" /\ destroyQueue(t)
    BY <1>3, <2>2 DEF wholeCall, QueueStep, Step, destroyQueue
  <2>3. CASE Op(t) = "enqueue" /\ enqueue(t, Arg(t))
    BY <1>3, <2>3, NamesOf DEF wholeCall, QueueStep, Step, enqueue
  <2>4. CASE Op(t) = "tryDequeue" /\ tryRefuse(t)
    BY <1>3, <2>4 DEF wholeCall, QueueStep, Step, tryRefuse
  <2> QED BY <1>3, <2>1, <2>2, <2>3, <2>4 DEF wholeCall
<1>4. CASE beginDequeue(t)
  <2>1. dequeueTake(t) \/ dequeueWait(t) \/ tryTake(t)
    BY <1>4 DEF beginDequeue
  <2>2. inUse
    BY <2>1 DEF dequeueTake, dequeueWait, tryTake, Enter
  <2> QED BY <1>4, <2>1, <2>2 DEF beginDequeue, QueueStep, Step
<1>5. CASE insideCall(t)
  BY <1>5 DEF insideCall, QueueStep, Step, Inside, resumeLegal, dequeueVisit
<1>6. CASE endDequeue(t)
  BY <1>6 DEF endDequeue, QueueStep, Step, Inside, dequeueEnd, tryEnd
<1>7. CASE record(t)
  BY <1>7 DEF record, QueueStep, vars
<1>8. CASE randomEnqueue(t)
  BY <1>8, NamesOf DEF randomEnqueue, QueueStep, Step, enqueue, Enter
<1>9. CASE randomSize(t)
  BY <1>9 DEF randomSize, QueueStep, vars
<1>10. CASE check(t)
  BY <1>10 DEF check, QueueStep, vars
<1>11. CASE anyCall(t)
  BY <1>11 DEF anyCall, QueueStep
<1> QED BY <1>1, <1>2, <1>3, <1>4, <1>5, <1>6, <1>7, <1>8, <1>9, <1>10, <1>11
        DEF ScriptStep

(* So every step of the tests is a step of the queue's specification.      *)
LEMMA CallersAreQueueSteps ==
  ASSUME NumbersFit, Script, [TestNext]_testVars
  PROVE  [Next]_vars
<1>1. ASSUME NEW t \in Threads, ScriptStep(t) \/ anyCall(t) PROVE [Next]_vars
  BY <1>1, CallersStep DEF QueueStep, Next
<1>2. CASE UNCHANGED testVars
  BY <1>2 DEF testVars
<1> QED BY <1>1, <1>2 DEF TestNext

(* Calls advance, or are those of a thread just created.                   *)
LEMMA ScriptStays ==
  ASSUME NumbersFit, Script, [TestNext]_testVars
  PROVE  Script'
<1>1. ASSUME NEW t \in Threads, ScriptStep(t) \/ anyCall(t) PROVE Script'
  <2>1. test' = test
    BY <1>1, CallersStep
  <2>2. at' = at \/ Advance(t) \/ at' = [at EXCEPT ![t] = @ + 1, ![Arg(t)] = 1]
    BY <1>1 DEF ScriptStep, anyCall, createThread, joinThread, wholeCall, beginDequeue,
                insideCall, endDequeue, record, randomEnqueue, randomSize, check
  <2> QED BY <2>1, <2>2 DEF Script, Advance
<1>2. CASE UNCHANGED testVars
  BY <1>2 DEF testVars, Script
<1> QED BY <1>1, <1>2 DEF TestNext

(* What a step does to the others and to the numbers.                      *)
LEMMA OthersStay ==
  ASSUME Types, Numbered, NEW t \in Threads, QueueStep(t), NEW u \in Threads, u # t
  PROVE  /\ pc'[u] = "idle" <=> pc[u] = "idle"
         /\ pc'[u] = "waiting" => pc[u] = "waiting"
         /\ ticket'[u] \in {0, ticket[u]}
<1>1. CASE UNCHANGED vars
  BY <1>1 DEF vars, history
<1>2. CASE initQueue(t)
  BY <1>2 DEF initQueue
<1>3. CASE destroyQueue(t)
  <2>1. \A w \in Waiters : pc[w] = "waiting"
    BY Lists DEF Numbered, Waiting
  <2> QED BY <1>3, <2>1 DEF destroyQueue, signalWaiters
<1>4. ASSUME NEW e \in Elems, enqueue(t, e)
      PROVE  /\ pc'[u] = "idle" <=> pc[u] = "idle"
             /\ pc'[u] = "waiting" => pc[u] = "waiting"
             /\ ticket'[u] \in {0, ticket[u]}
  BY <1>4 DEF enqueue, Goto, Types, TypeOK
<1>5. CASE dequeueTake(t) \/ dequeueWait(t) \/ tryTake(t)
  BY <1>5 DEF dequeueTake, dequeueWait, tryTake, Goto, NewTicket, Types, TypeOK
<1>6. CASE tryRefuse(t)
  BY <1>6 DEF tryRefuse
<1>7. CASE Inside(t)
  BY <1>7 DEF Inside, resumeLegal, resumeCancelled, dequeueVisit, dequeueEnd, tryEnd,
              Goto, Result, history, Types, TypeOK
<1> QED BY <1>1, <1>2, <1>3, <1>4, <1>5, <1>6, <1>7 DEF QueueStep, Step

(* While the same queue is in use its numbers grow, and it is emptied by a *)
(* request only.                                                           *)
LEMMA NumbersGrow ==
  ASSUME Types, Numbered, NEW t \in Threads, QueueStep(t), inUse \/ ~ inUse'
  PROVE  /\ Len(accepted') >= Len(accepted) /\ Len(accepted') \in Nat
         /\ requests' >= requests /\ requests' \in Nat
         /\ inUse' => inUse
         /\ inUse' /\ main_q # <<>> /\ main_q' = <<>> => requests' > requests
<1>0. /\ Len(accepted) \in Nat /\ requests \in Nat /\ inUse \in BOOLEAN
      /\ accepted \in Seq(Elems) /\ main_q \in Seq(Elems)
  BY Lists DEF Types, TypeOK
<1>1. CASE UNCHANGED vars
  BY <1>0, <1>1 DEF vars, history, queues
<1>2. CASE initQueue(t)
  BY <1>2 DEF initQueue
<1>3. CASE destroyQueue(t)
  BY <1>0, <1>3 DEF destroyQueue
<1>4. ASSUME NEW e \in Elems, enqueue(t, e)
      PROVE  /\ Len(accepted') >= Len(accepted) /\ Len(accepted') \in Nat
             /\ requests' = requests /\ inUse' = inUse
             /\ main_q # <<>> => main_q' # <<>>
  <2>1. Len(Append(accepted, e)) = Len(accepted) + 1
    BY <1>0, AppendElements
  <2>2. Append(main_q, e) # <<>>
    <3>1. Len(Append(main_q, e)) = Len(main_q) + 1 /\ Len(main_q) \in Nat
      BY <1>0, AppendElements, LenProperties
    <3> QED BY <3>1, EmptySeq
  <2> QED BY <1>0, <1>4, <2>1, <2>2 DEF enqueue
<1>5. CASE dequeueTake(t) \/ dequeueWait(t) \/ tryTake(t)
  BY <1>0, <1>5 DEF dequeueTake, dequeueWait, tryTake, NewTicket
<1>6. CASE tryRefuse(t)
  BY <1>0, <1>6 DEF tryRefuse, queues
<1>7. CASE Inside(t)
  BY <1>0, <1>7 DEF Inside, resumeLegal, resumeCancelled, dequeueVisit, dequeueEnd, tryEnd,
              Result, history, queues
<1> QED BY <1>0, <1>1, <1>2, <1>3, <1>4, <1>5, <1>6, <1>7 DEF QueueStep, Step

(* What the callers remember has its type.                                 *)
Remembered ==
  /\ counter \in Nat
  /\ wakeup_order \in Seq(Threads)
  /\ turn \in [Threads -> Nat]
  /\ seen \in [Threads -> Int]

(* The threads that run are those main has created.                        *)
Created ==
  test \in Ordered =>
    \A t \in Threads \ {Main} : IF at[t] = 0 THEN pc[t] = "idle"
                               ELSE at[Main] > t + 1

(* A thread that is in a dequeue has the number of that request.           *)
Tickets ==
  test # AnyProgram => \A t \in Threads : ticket[t] \in {0, turn[t]}

(* A thread that has come back from its dequeue had a request that an      *)
(* element answered.                                                       *)
Served(t) == pc[t] = "idle" /\ turn[t] <= Len(accepted)

Woken ==
  /\ test # test_thread_wakeup_order => wakeup_order = <<>>
  /\ test = test_thread_wakeup_order =>
       /\ \A t \in Threads \ {Main} : at[t] >= 2 => Served(t)
       /\ \A t \in Range(wakeup_order) : t # Main /\ at[t] >= 3

(* A thread that has found something in the queue will not wait unless     *)
(* somebody asks before it.                                                *)
LooksGood(t) ==
  /\ seen[t] < requests \/ (seen[t] = requests /\ main_q # <<>>)

Looked ==
  \A t \in Threads : seen[t] >= 0 =>
    /\ Op(t) = "random"
    /\ inUse /\ pc[t] = "idle" => LooksGood(t)
    /\ pc[t] = "waiting" => seen[t] + 1 < turn[t]

CallersInv == Script /\ Remembered /\ Created /\ Tickets /\ Woken /\ Looked

(* What is remembered keeps its types.                                     *)
LEMMA RememberedStep ==
  ASSUME NumbersFit, Script, Remembered, Types', [TestNext]_testVars
  PROVE  Remembered'
<1>1. ASSUME NEW t \in Threads, ScriptStep(t) \/ anyCall(t) PROVE Remembered'
  <2>1. counter' \in {counter, counter + 1}
    BY <1>1 DEF ScriptStep, anyCall, createThread, joinThread, wholeCall, beginDequeue,
                insideCall, endDequeue, record, randomEnqueue, randomSize, check
  <2>2. wakeup_order' \in {wakeup_order, Append(wakeup_order, t)}
    BY <1>1 DEF ScriptStep, anyCall, createThread, joinThread, wholeCall, beginDequeue,
                insideCall, endDequeue, record, randomEnqueue, randomSize, check
  <2>3. turn' \in {turn, [turn EXCEPT ![t] = requests']}
    BY <1>1 DEF ScriptStep, anyCall, createThread, joinThread, wholeCall, beginDequeue,
                insideCall, endDequeue, record, randomEnqueue, randomSize, check
  <2>4. seen' = seen \/ \E n \in Int : seen' = [seen EXCEPT ![t] = n]
    <3>1. CASE randomSize(t)
      <4>1. Cardinality({u \in Threads : ticket'[u] # 0}) \in Nat /\ requests' \in Nat
        BY RecAssumption, FS_Subset, FS_CardinalityType DEF Types
      <4>2. UNCHANGED <<ticket, requests>>
        BY <3>1 DEF randomSize, vars, history
      <4>3. RequestsEnded \in Int
        BY <4>1, <4>2 DEF RequestsEnded
      <4> QED BY <3>1, <4>3 DEF randomSize
    <3>2. CASE ~ randomSize(t)
      BY <1>1, <3>2 DEF ScriptStep, anyCall, createThread, joinThread, wholeCall, beginDequeue,
                insideCall, endDequeue, record, randomEnqueue, check
    <3> QED BY <3>1, <3>2
  <2>5. requests' \in Nat
    BY DEF Types
  <2>6. Append(wakeup_order, t) \in Seq(Threads)
    BY AppendElements DEF Remembered
  <2>7. counter' \in Nat /\ wakeup_order' \in Seq(Threads)
    <3>1. counter \in Nat /\ wakeup_order \in Seq(Threads)
      BY DEF Remembered
    <3>2. counter' \in Nat
      BY <2>1, <3>1
    <3>3. wakeup_order' \in Seq(Threads)
      BY <2>2, <2>6, <3>1, Zenon
    <3> QED BY <3>2, <3>3
  <2>8. turn' \in [Threads -> Nat]
    BY <2>3, <2>5 DEF Remembered
  <2>9. seen' \in [Threads -> Int]
    BY <2>4 DEF Remembered
  <2> QED BY <2>7, <2>8, <2>9 DEF Remembered
<1>2. CASE UNCHANGED testVars
  BY <1>2 DEF testVars, Remembered
<1> QED BY <1>1, <1>2 DEF TestNext

(* A thread acts at a call, and goes on to the next.                       *)
LEMMA Acts ==
  ASSUME NumbersFit, Script, NEW t \in Threads, ScriptStep(t) \/ anyCall(t)
  PROVE  /\ Op(t) # "none" \/ pc[t] # "idle"
         /\ at' = at \/ Advance(t) \/ createThread(t)
<1>1. CASE randomSize(t)
  BY <1>1 DEF randomSize
<1>2. CASE check(t)
  BY <1>2 DEF check, Checks
<1>3. CASE endDequeue(t) \/ insideCall(t)
  BY <1>3 DEF endDequeue, insideCall, dequeueEnd, tryEnd, resumeLegal, dequeueVisit, Goto
<1>4. CASE wholeCall(t) \/ joinThread(t) \/ record(t) \/ randomEnqueue(t)
  BY <1>4 DEF wholeCall, joinThread, record, randomEnqueue
<1>5. CASE anyCall(t) \/ beginDequeue(t)
  BY <1>5 DEF anyCall, beginDequeue
<1>6. CASE createThread(t)
  BY <1>6 DEF createThread
<1> QED BY <1>1, <1>2, <1>3, <1>4, <1>5, <1>6 DEF ScriptStep

(* No thread of these tests runs before main has created it.               *)
LEMMA CreatedStep ==
  ASSUME NumbersFit, Script, Types, Numbered, Created, [TestNext]_testVars
  PROVE  Created'
<1>1. ASSUME NEW t \in Threads, ScriptStep(t) \/ anyCall(t), test' \in Ordered PROVE Created'
  <2>1. test' = test /\ test \in Ordered /\ Threads \subseteq Nat /\ Main \in Threads
    BY <1>1, CallersStep DEF NumbersFit, Main
  <2>2. t # Main => at[t] # 0
    <3>1. Op(t) # "none" => at[t] # 0
      BY CallOf
    <3> QED BY <1>1, <2>1, <3>1, Acts DEF Created
  <2>3. \A u \in Threads : at[u] = 0 /\ u # t /\ pc[u] = "idle" => pc'[u] = "idle"
    BY <1>1, CallersStep, OthersStay
  <2>4. CASE at' = at
    BY <2>1, <2>2, <2>3, <2>4 DEF Created
  <2>5. CASE Advance(t)
    BY <2>1, <2>2, <2>3, <2>5 DEF Created, Advance, Script
  <2>6. CASE createThread(t)
    <3>1. /\ t = Main /\ at[t] = Arg(t) + 1 /\ Arg(t) \in Threads /\ Arg(t) # Main
          /\ at' = [at EXCEPT ![t] = @ + 1, ![Arg(t)] = 1]
      BY <2>1, <2>6, OrderOfCalls DEF createThread
    <3> QED BY <2>1, <2>3, <3>1 DEF Created, Script
  <2> QED BY <1>1, <2>4, <2>5, <2>6, Acts
<1>2. CASE UNCHANGED testVars
  BY <1>2 DEF testVars, vars, Created
<1> QED BY <1>1, <1>2 DEF TestNext, Created

(* The ticket a thread draws is the number the callers remember.           *)
LEMMA TicketsStep ==
  ASSUME NumbersFit, Script, Types, Types', Numbered, Remembered, Tickets,
         [TestNext]_testVars
  PROVE  Tickets'
<1>1. ASSUME NEW t \in Threads, ScriptStep(t) \/ anyCall(t), test' # AnyProgram PROVE Tickets'
  <2>1. test' = test /\ test # AnyProgram
    BY <1>1, CallersStep
  <2>2. \A u \in Threads : u # t => ticket'[u] \in {0, ticket[u]}
    BY <1>1, CallersStep, OthersStay
  <2>3. CASE beginDequeue(t)
    <3>1. ticket' = [ticket EXCEPT ![t] = requests'] /\ turn' = [turn EXCEPT ![t] = requests']
      BY <2>3 DEF beginDequeue, dequeueTake, dequeueWait, tryTake, NewTicket
    <3> QED BY <2>1, <3>1 DEF Tickets, Types, Remembered
  <2>4. CASE ~ beginDequeue(t)
    <3>1. turn' = turn
      BY <1>1, <2>4 DEF ScriptStep, anyCall, createThread, joinThread, wholeCall, 
                insideCall, endDequeue, record, randomEnqueue, randomSize, check
    <3>2. ticket'[t] \in {0, ticket[t]}
      <4>1. CASE wholeCall(t)
        BY <4>1 DEF wholeCall, initQueue, destroyQueue, enqueue, tryRefuse, Types
      <4>2. CASE insideCall(t)
        BY <4>2 DEF insideCall, resumeLegal, dequeueVisit, history
      <4>3. CASE endDequeue(t)
        BY <4>3 DEF endDequeue, dequeueEnd, tryEnd, Result, Types
      <4>4. CASE randomEnqueue(t)
        BY <4>4 DEF randomEnqueue, enqueue
      <4>5. CASE createThread(t) \/ joinThread(t) \/ record(t) \/ randomSize(t) \/ check(t)
        BY <4>5 DEF createThread, joinThread, record, randomSize, check, vars, history
      <4>6. ~ anyCall(t)
        BY <2>1, NamesOf DEF anyCall
      <4> QED BY <1>1, <2>4, <4>1, <4>2, <4>3, <4>4, <4>5, <4>6 DEF ScriptStep
    <3> QED BY <2>1, <2>2, <3>1, <3>2 DEF Tickets
  <2> QED BY <2>3, <2>4
<1>2. CASE UNCHANGED testVars
  BY <1>2 DEF testVars, vars, history, Tickets
<1> QED BY <1>1, <1>2 DEF TestNext, Tickets

(* No step of these tests but the first call of main makes the queue anew. *)
LEMMA NotAnew ==
  ASSUME NumbersFit, Script, Created, NEW t \in Threads, ScriptStep(t) \/ anyCall(t),
         test \in Ordered, NEW u \in Threads \ {Main}, at[u] # 0
  PROVE  inUse \/ ~ inUse'
<1>1. SUFFICES ASSUME ~ inUse, inUse' PROVE FALSE
  OBVIOUS
<1>2. Op(t) = "initQueue"
  <2>1. Op(t) \in {"initQueue", "any"}
    BY <1>1, CallersStep
  <2>2. test # AnyProgram
    BY NotAny DEF Ordered, Tests
  <2> QED BY <2>1, <2>2, NamesOf
<1>3. at[Main] = 1
  BY <1>2, OrderOfCalls
<1> QED BY <1>3 DEF Created, NumbersFit

(* What other threads have been given stays where it is.                   *)
LEMMA OthersAt ==
  ASSUME NumbersFit, Script, Created, NEW t \in Threads, ScriptStep(t) \/ anyCall(t),
         test \in Ordered, NEW u \in Threads \ {Main}, u # t, at[u] # 0
  PROVE  at'[u] = at[u]
<1>1. CASE createThread(t)
  <2>1. /\ t = Main /\ at[t] = Arg(t) + 1 /\ Arg(t) \in Threads /\ Arg(t) # Main
        /\ at' = [at EXCEPT ![t] = @ + 1, ![Arg(t)] = 1]
    BY <1>1, OrderOfCalls DEF createThread
  <2> QED BY <2>1 DEF Created, Script, NumbersFit
<1>2. CASE ~ createThread(t)
  BY <1>2, Acts DEF Advance, Script
<1> QED BY <1>1, <1>2

(* A thread of the wake-up test dequeues, and then records itself.         *)
LEMMA WakeupCalls ==
  ASSUME NumbersFit, Script, test = test_thread_wakeup_order,
         NEW t \in Threads \ {Main}, Op(t) # "none"
  PROVE  (at[t] = 1 /\ Op(t) = "dequeue") \/ (at[t] = 2 /\ Op(t) = "record")
<1>1. at[t] \in DOMAIN Calls(t) /\ Op(t) = Calls(t)[at[t]][1] /\ t \in Nat
  BY DEF Op, NumbersFit
<1>2. Calls(t) = dequeue_and_record
  BY <1>1, WakeupScript DEF Calls, Main
<1> QED BY <1>1, <1>2 DEF dequeue_and_record

(* A thread that comes back had a number no higher than that of the last   *)
(* element; those that come later only get higher ones.                    *)
LEMMA WokenStep ==
  ASSUME NumbersFit, Script, Types, Types', Numbered, Remembered, Created, Tickets, Woken,
         [TestNext]_testVars
  PROVE  Woken'
<1>1. ASSUME NEW t \in Threads, ScriptStep(t) \/ anyCall(t) PROVE Woken'
  <2>1. test' = test /\ QueueStep(t)
    BY <1>1, CallersStep
  <2>2. CASE test # test_thread_wakeup_order
    <3>1. ~ record(t)
      BY <2>2, NamesOf DEF record
    <3>2. wakeup_order' = wakeup_order
      BY <1>1, <3>1 DEF ScriptStep, anyCall, createThread, joinThread, wholeCall, beginDequeue,
                insideCall, endDequeue, randomEnqueue, randomSize, check
    <3> QED BY <2>1, <2>2, <3>2 DEF Woken
  <2>3. CASE test = test_thread_wakeup_order
    <3>1. test \in Ordered /\ test # AnyProgram /\ at \in [Threads -> Nat]
      BY <2>3, NotAny DEF Ordered, Tests, Script
    <3>2. ASSUME NEW u \in Threads \ {Main}, at'[u] >= 2 PROVE Served(u)'
      <4>1. CASE u # t
        <5>1. at[u] # 0
          <6>1. at'[u] \in {at[u], 1}
            BY <1>1, <4>1, <3>1, Acts DEF Advance, createThread
          <6> QED BY <6>1, <3>2
        <5>2. at'[u] = at[u]
          BY <1>1, <3>1, <4>1, <5>1, OthersAt
        <5>3. Served(u)
          BY <2>3, <3>2, <5>2 DEF Woken
        <5>4. inUse \/ ~ inUse'
          BY <1>1, <3>1, <5>1, NotAnew
        <5>5. Len(accepted') >= Len(accepted) /\ Len(accepted') \in Nat /\ Len(accepted) \in Nat
          BY <2>1, <5>4, NumbersGrow, Lists
        <5>6. pc'[u] = "idle"
          BY <2>1, <4>1, <5>3, OthersStay DEF Served
        <5>7. turn'[u] = turn[u] /\ turn[u] \in Nat
          BY <1>1, <4>1 DEF ScriptStep, anyCall, createThread, joinThread, wholeCall,
                beginDequeue, insideCall, endDequeue, record, randomEnqueue, randomSize,
                check, Remembered
        <5> QED BY <5>3, <5>5, <5>6, <5>7 DEF Served
      <4>2. CASE u = t
        <5>2. CASE endDequeue(t)
          <6>1. /\ pc[t] \in {"visited", "tried"} /\ pc'[t] = "idle"
                /\ accepted' = accepted /\ turn' = turn
            BY <5>2 DEF endDequeue, dequeueEnd, tryEnd, Goto, Result, Types, TypeOK
          <6>2. ticket[t] \in 1 .. Len(accepted)
            BY <6>1 DEF Numbered, InHand, HasElem
          <6>3. turn[t] = ticket[t]
            BY <3>1, <6>2 DEF Tickets
          <6> QED BY <4>2, <6>1, <6>2, <6>3, Lists DEF Served
        <5>3. CASE at[t] = 2 /\ Op(t) = "record"
          <6>1. Served(t)
            BY <2>3, <4>2, <5>3 DEF Woken
          <6>2. record(t)
            BY <1>1, <5>3, <6>1 DEF ScriptStep, anyCall, createThread, joinThread, wholeCall,
                beginDequeue, insideCall, endDequeue, randomEnqueue, randomSize, check, Checks,
                Served, resumeLegal, dequeueVisit, dequeueEnd, tryEnd, Goto
          <6> QED BY <4>2, <6>1, <6>2 DEF record, Served, vars, history
        <5>4. CASE at[t] = 1 /\ Op(t) = "dequeue"
          <6> QED BY <1>1, <3>1, <3>2, <4>2, <5>2, <5>4 DEF ScriptStep, anyCall, createThread,
                joinThread, wholeCall, beginDequeue, insideCall, record, randomEnqueue,
                randomSize, check, Checks
        <5>5. CASE Op(t) = "none" /\ ~ endDequeue(t)
          <6>1. insideCall(t)
            BY <1>1, <5>5 DEF ScriptStep, anyCall, createThread, joinThread, wholeCall,
                beginDequeue, record, randomEnqueue, randomSize, check, Checks
          <6>2. at[t] >= 2 /\ pc[t] # "idle"
            BY <3>2, <4>2, <6>1 DEF insideCall, resumeLegal, dequeueVisit, Goto
          <6> QED BY <2>3, <4>2, <6>2 DEF Woken, Served
        <5> QED BY <2>3, <4>2, <5>2, <5>3, <5>4, <5>5, WakeupCalls
      <4> QED BY <4>1, <4>2
    <3>3. ASSUME NEW u \in Range(wakeup_order') PROVE u # Main /\ at'[u] >= 3
      <4>1. CASE u \in Range(wakeup_order)
        <5>1. u # Main /\ at[u] >= 3 /\ u \in Threads /\ Served(u)
          <6>1. Range(wakeup_order) \subseteq Threads
            BY RangeOfSeq DEF Remembered
          <6> QED BY <2>3, <3>1, <4>1, <6>1 DEF Woken
        <5>2. CASE u # t
          BY <1>1, <3>1, <5>1, <5>2, OthersAt
        <5>3. CASE u = t
          <6>1. Op(t) = "none" /\ pc[t] = "idle"
            BY <2>3, <5>1, <5>3, WakeupCalls DEF Served
          <6> QED BY <1>1, <6>1, Acts
        <5> QED BY <5>2, <5>3
      <4>2. CASE u \notin Range(wakeup_order)
        <5>1. record(t) /\ u = t
          <6>1. ~ record(t) => wakeup_order' = wakeup_order
            BY <1>1 DEF ScriptStep, anyCall, createThread, joinThread, wholeCall,
                beginDequeue, insideCall, endDequeue, randomEnqueue, randomSize, check
          <6>2. record(t) => Range(wakeup_order') = Range(wakeup_order) \cup {t}
            BY AppendElements DEF record, Remembered
          <6> QED BY <3>3, <4>2, <6>1, <6>2
        <5>2. t # Main /\ at[t] = 2
          BY <2>3, <5>1, NamesOf, WakeupCalls DEF record
        <5> QED BY <3>1, <5>1, <5>2 DEF record, Advance
      <4> QED BY <4>1, <4>2
    <3> QED BY <2>1, <2>3, <3>2, <3>3 DEF Woken
  <2> QED BY <2>2, <2>3
<1>2. CASE UNCHANGED testVars
  BY <1>2 DEF testVars, vars, history, Woken, Served
<1> QED BY <1>1, <1>2 DEF TestNext

(* When size() is positive and no element is in the queue, a dequeue is    *)
(* under way.                                                              *)
LEMMA SizeTells ==
  ASSUME IInv, inUse, sizePositive
  PROVE  RequestsEnded < requests \/ (RequestsEnded = requests /\ main_q # <<>>)
<1> DEFINE pending == {u \in Threads : ticket[u] # 0}
<1>1. Cardinality(pending) \in Nat /\ requests \in Nat
  BY RecAssumption, FS_Subset, FS_CardinalityType DEF IInv, Types
<1>2. CASE main_q # <<>>
  BY <1>1, <1>2 DEF RequestsEnded
<1>3. CASE main_q = <<>>
  <2>1. Count(Place(pc, legal), Owing) > 0
    <3>1. /\ full_size = Len(main_q) + Count(Place(pc, legal), Owing)
          /\ Count(Place(pc, legal), Owing) \in Int
      BY Sums DEF IInv, Counting
    <3> QED BY <1>3, <3>1, EmptySeq DEF sizePositive
  <2>2. PICK u \in Threads : Place(pc, legal)[u] \in Owing
    <3>1. SUFFICES ASSUME \A u \in Threads : Place(pc, legal)[u] \notin Owing
                   PROVE  Count(Place(pc, legal), Owing) = 0
      BY <2>1
    <3>2. {u \in Threads : Place(pc, legal)[u] \in Owing} = {}
      BY <3>1
    <3> QED BY <3>2, FS_EmptySet DEF Count, CountIn
  <2>3. ticket[u] # 0
    <3>1. (pc[u] = "signalled" /\ legal[u]) \/ pc[u] \in {"took", "visited"}
      BY <2>2 DEF Place, Owing
    <3> QED BY <3>1 DEF IInv, Numbered, InHand, HasElem
  <2>4. Cardinality(pending) # 0
    BY <2>3, RecAssumption, FS_Subset, FS_EmptySet
  <2> QED BY <1>1, <2>4 DEF RequestsEnded
<1> QED BY <1>2, <1>3

(* What a thread found in the queue stays there until somebody asks for    *)
(* it, and a thread that waits all the same has the later number.          *)
LEMMA LookedStep ==
  ASSUME NumbersFit, Script, IInv, Types', Remembered, Remembered', Created, Looked,
         [TestNext]_testVars
  PROVE  Looked'
<1>0. Types /\ Numbered
  BY DEF IInv
<1>1. ASSUME NEW t \in Threads, ScriptStep(t) \/ anyCall(t), NEW u \in Threads, seen'[u] >= 0
      PROVE  /\ Op(u)' = "random"
             /\ inUse' /\ pc'[u] = "idle" => LooksGood(u)'
             /\ pc'[u] = "waiting" => seen'[u] + 1 < turn'[u]
  <2>1. test' = test /\ QueueStep(t)
    BY <1>1, CallersStep
  <2>2. CASE seen[u] >= 0 /\ u # t
    <3>1. /\ Op(u) = "random" /\ u # Main /\ test = test_random_operations /\ at[u] # 0
      <4>1. Op(u) = "random"
        BY <2>2 DEF Looked
      <4>2. at[u] \in 1 .. Len(Calls(u))
        BY <4>1, CallOf
      <4> QED BY <4>1, <4>2, NamesOf
    <3>2. test \in Ordered
      BY <3>1 DEF Ordered
    <3>3. at'[u] = at[u]
      BY <1>1, <2>2, <3>1, <3>2, OthersAt
    <3>4. seen'[u] = seen[u] /\ turn'[u] = turn[u]
      BY <1>1, <2>2 DEF ScriptStep, anyCall, createThread, joinThread, wholeCall,
                beginDequeue, insideCall, endDequeue, record, randomEnqueue, randomSize,
                check, Remembered
    <3>5. Op(u)' = Op(u)
      BY <2>1, <3>3 DEF Op, Calls
    <3>6. ASSUME inUse', pc'[u] = "idle" PROVE LooksGood(u)'
      <4>1. inUse \/ ~ inUse'
        BY <1>1, <3>1, <3>2, NotAnew
      <4>2. /\ requests' >= requests /\ requests' \in Nat /\ inUse
            /\ main_q # <<>> /\ main_q' = <<>> => requests' > requests
        BY <1>0, <2>1, <3>6, <4>1, NumbersGrow
      <4>3. LooksGood(u)
        BY <1>0, <2>1, <2>2, <3>6, <4>2, OthersStay DEF Looked
      <4>4. requests \in Nat /\ seen[u] \in Int
        BY <1>0 DEF Types, Remembered
      <4> QED BY <3>4, <4>2, <4>3, <4>4 DEF LooksGood
    <3>7. pc'[u] = "waiting" => seen'[u] + 1 < turn'[u]
      BY <1>0, <2>1, <2>2, <3>4, OthersStay DEF Looked
    <3> QED BY <3>1, <3>5, <3>6, <3>7
  <2>3. CASE seen[u] >= 0 /\ u = t
    <3>1. Op(t) = "random"
      BY <2>3 DEF Looked
    <3>2. beginDequeue(t) \/ insideCall(t) \/ endDequeue(t)
      BY <1>1, <2>3, <3>1 DEF ScriptStep, anyCall, createThread, joinThread, wholeCall,
                record, randomEnqueue, randomSize, check, Checks, Remembered
    <3>3. CASE beginDequeue(t)
      <4>1. at' = at /\ seen' = seen /\ (dequeueTake(t) \/ dequeueWait(t))
        BY <3>1, <3>3 DEF beginDequeue
      <4>2. Op(t)' = Op(t)
        BY <2>1, <4>1 DEF Op, Calls
      <4>3. CASE dequeueTake(t)
        BY <1>0, <2>3, <3>1, <4>2, <4>3 DEF dequeueTake, Goto, Types, TypeOK
      <4>4. CASE dequeueWait(t)
        <5>1. /\ inUse /\ pc[t] = "idle" /\ pc'[t] = "waiting" /\ main_q = <<>>
              /\ requests' = requests + 1 /\ requests \in Nat
          BY <1>0, <4>4 DEF dequeueWait, Enter, Goto, NewTicket, Types, TypeOK
        <5>2. turn'[t] = requests + 1 /\ seen[t] \in Int
          BY <3>3, <5>1 DEF beginDequeue, Remembered
        <5>3. seen[t] < requests
          BY <2>3, <5>1 DEF Looked, LooksGood
        <5> QED BY <2>3, <3>1, <4>1, <4>2, <5>1, <5>2, <5>3
      <4> QED BY <4>1, <4>3, <4>4
    <3>4. CASE insideCall(t)
      <4>1. at' = at /\ pc'[t] \in {"took", "visited"}
        BY <1>0, <3>4 DEF insideCall, resumeLegal, dequeueVisit, Goto, Types, TypeOK
      <4>2. Op(t)' = Op(t)
        BY <2>1, <4>1 DEF Op, Calls
      <4> QED BY <2>3, <3>1, <4>1, <4>2
    <3>5. CASE endDequeue(t)
      BY <1>1, <2>3, <3>5 DEF endDequeue, Remembered
    <3> QED BY <3>2, <3>3, <3>4, <3>5
  <2>4. CASE ~ (seen[u] >= 0)
    <3>1. u = t /\ randomSize(t)
      <4>1. randomSize(t) \/ seen' = seen \/ seen' = [seen EXCEPT ![t] = -1]
        BY <1>1 DEF ScriptStep, anyCall, createThread, joinThread, wholeCall, beginDequeue,
                insideCall, endDequeue, record, randomEnqueue, check
      <4>2. randomSize(t) =>
              seen' = seen \/ \E n \in {RequestsEnded} : seen' = [seen EXCEPT ![t] = n]
        BY DEF randomSize
      <4>3. seen'[u] # seen[u] /\ seen \in [Threads -> Int] /\ ~ (-1 >= 0)
        BY <1>1, <2>4 DEF Remembered
      <4> QED BY <1>1, <4>1, <4>2, <4>3
    <3>2. /\ Op(t) = "random" /\ pc[t] = "idle" /\ UNCHANGED vars
          /\ sizePositive /\ seen'[t] = RequestsEnded /\ at' = at
      BY <1>1, <2>4, <3>1 DEF randomSize, Remembered
    <3>3. Op(t)' = Op(t)
      BY <2>1, <3>2 DEF Op, Calls
    <3>4. /\ requests' = requests /\ main_q' = main_q /\ pc' = pc /\ inUse' = inUse
      BY <3>2 DEF vars, history, queues
    <3> QED BY <3>1, <3>2, <3>3, <3>4, SizeTells DEF LooksGood
  <2> QED BY <2>2, <2>3, <2>4
<1>2. CASE UNCHANGED testVars
  BY <1>2 DEF testVars, vars, history, queues, Looked, LooksGood, Op, Calls
<1> QED BY <1>1, <1>2 DEF TestNext, Looked

(* The tests begin with a new queue and nobody created.                    *)
LEMMA CallersInit == NumbersFit /\ TestInit => CallersInv
<1> SUFFICES ASSUME NumbersFit, TestInit PROVE CallersInv
  OBVIOUS
<1>1. Script /\ Remembered
  BY EmptySeq DEF TestInit, Script, Remembered
<1>2. Created
  BY NotAny DEF TestInit, Init, Created, Ordered, Tests
<1>3. Tickets /\ Looked
  BY DEF TestInit, Init, Tickets, Looked
<1>4. Woken
  <2>1. test = test_thread_wakeup_order => \A t \in Threads \ {Main} : at[t] = 0
    BY NotAny DEF TestInit, Tests
  <2>2. Range(<<>>) = {}
    BY DEF Range
  <2> QED BY <2>1, <2>2 DEF TestInit, Woken
<1> QED BY <1>1, <1>2, <1>3, <1>4 DEF CallersInv

(* The callers of the tests, and an arbitrary program, make no step that   *)
(* the queue does not know.                                                *)
THEOREM CallersUseTheQueue == ASSUME NumbersFit PROVE TestSpec => Spec
<1>1. TestInit => Init /\ Script
  BY CallersInit DEF TestInit, CallersInv
<1>2. Script /\ [TestNext]_testVars => Script' /\ [Next]_vars
  BY ScriptStays, CallersAreQueueSteps
<1> QED BY <1>1, <1>2, PTL DEF TestSpec, Spec

(* The invariant of the callers, together with that of the queue.          *)
LEMMA CallersInvHolds == ASSUME NumbersFit PROVE TestSpec => [](IInv /\ CallersInv)
<1>1. TestSpec => []IInv
  BY CallersUseTheQueue, IInvHolds, PTL
<1>2. TestInit => CallersInv
  BY CallersInit
<1>3. IInv /\ IInv' /\ CallersInv /\ [TestNext]_testVars => CallersInv'
  <2> SUFFICES ASSUME IInv, IInv', CallersInv, [TestNext]_testVars PROVE CallersInv'
    OBVIOUS
  <2>1. /\ Script /\ Remembered /\ Created /\ Tickets /\ Woken /\ Looked
        /\ Types /\ Numbered /\ Types'
    BY DEF CallersInv, IInv
  <2>2. Script' /\ Remembered'
    BY <2>1, ScriptStays, RememberedStep
  <2>3. Created' /\ Tickets' /\ Woken'
    BY <2>1, CreatedStep, TicketsStep, WokenStep
  <2>4. Looked'
    BY <2>1, <2>2, LookedStep
  <2> QED BY <2>2, <2>3, <2>4 DEF CallersInv
<1> QED BY <1>1, <1>2, <1>3, PTL DEF TestSpec

(* The variables of the callers keep their types.                          *)
THEOREM CallersTypeCorrect == ASSUME NumbersFit PROVE TestSpec => []RecTestsTypeOK
<1>1. IInv /\ CallersInv => RecTestsTypeOK
  BY DEF IInv, Types, CallersInv, Script, Remembered, RecTestsTypeOK
<1> QED BY <1>1, CallersInvHolds, PTL

(* A worker of the random operations test that waits although it had found *)
(* size() positive does so because another request came before its own:    *)
(* size() was right, and old (4/rec09_mutex/test.c, random_operations).    *)
THEOREM SizeMisleadsOnlyWhenStale == ASSUME NumbersFit PROVE TestSpec => []WaitsOnlyOnStaleSize
<1>1. CallersInv => WaitsOnlyOnStaleSize
  BY DEF CallersInv, Looked, WaitsOnlyOnStaleSize
<1> QED BY <1>1, CallersInvHolds, PTL

(* When a thread of the wake-up test has recorded itself, nobody whose     *)
(* request is older still waits, however many threads were overtaken       *)
(* between the release of the lock and the record.                         *)
THEOREM FirstComeFirstWoken == ASSUME NumbersFit PROVE TestSpec => []NobodyWokenFirst
<1>1. ASSUME IInv, CallersInv, NEW t \in Range(wakeup_order), NEW u \in Threads,
             turn[u] \in 1 .. turn[t], pc[u] = "waiting"
      PROVE  FALSE
  <2>1. /\ test = test_thread_wakeup_order /\ test # AnyProgram
        /\ t \in Threads \ {Main} /\ at[t] >= 2
    <3>1. Range(wakeup_order) \subseteq Threads
      BY <1>1, RangeOfSeq DEF CallersInv, Remembered
    <3>2. test = test_thread_wakeup_order
      <4>1. Range(<<>>) = {}
        BY DEF Range
      <4> QED BY <1>1, <4>1 DEF CallersInv, Woken
    <3>3. t # Main /\ at[t] >= 3 /\ at[t] \in Nat
      BY <1>1, <3>1, <3>2 DEF CallersInv, Woken, Script
    <3> QED BY <3>1, <3>2, <3>3, NotAny DEF Tests
  <2>2. turn[t] <= Len(accepted) /\ turn[t] \in Nat
    BY <1>1, <2>1 DEF CallersInv, Woken, Served, Remembered
  <2>3. PICK i \in 1 .. Len(waiting_threads_q) : waiting_threads_q[i] = u
    BY <1>1 DEF IInv, Numbered, InHand
  <2>4. ticket[u] = Len(accepted) + i /\ Len(accepted) \in Nat
    BY <1>1, <2>3, Lists DEF IInv, Numbered, Waiting
  <2>5. turn[u] = ticket[u]
    BY <1>1, <2>1, <2>4 DEF CallersInv, Tickets
  <2> QED BY <1>1, <2>2, <2>4, <2>5
<1>2. IInv /\ CallersInv => NobodyWokenFirst
  BY <1>1 DEF NobodyWokenFirst
<1> QED BY <1>2, CallersInvHolds, PTL
=============================================================================
