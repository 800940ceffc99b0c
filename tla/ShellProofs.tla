---------------------------- MODULE ShellProofs ----------------------------
(***************************************************************************)
(* For any number of processes: what Shell promises between two prompts,   *)
(* about the ends of its pipes and about the children that have ended.     *)
(***************************************************************************)
EXTENDS Shell, FiniteSetTheorems, TLAPS

(* The children that count against the calls of wait() to come: those of   *)
(* the command in hand that nobody has collected, and those of earlier     *)
(* commands that should have been awaited and still run.                   *)
Owed ==
  {c \in Children : \/ c \in current /\ state[c] # "gone"
                    \/ Alive(c) /\ role[c] # "background"}

(* How many calls of wait() the command in hand has still to come, as far  *)
(* as it has forked its children.                                          *)
ToCome == CASE pc = "wait"  -> waits
            [] pc = "close" -> 2
            [] pc = "left"  -> 1
            [] OTHER        -> 0

Awaiting ==
  /\ pc \in {"prompt", "piped"} => current = {}
  /\ pc = "wait" => waits \in 1 .. 2
  /\ \A c \in current : state[c] # "none"
  /\ \A c \in strays : state[c] = "gone"
  /\ pc # "exited" => Cardinality(Owed) <= Cardinality(strays) + ToCome

(* Who may hold one end of a pipe: the shell while it makes the pipe, the  *)
(* child on the side the end is for, and the other child until it calls    *)
(* execvp.                                                                 *)
Side(side, other, E) ==
  \A n \in 1 .. pipes :
    /\ <<Shell, n>> \in E => n = pipes /\ pc \in {"piped", "left", "close"}
    /\ \A c \in Children : <<c, n>> \in E =>
         /\ Alive(c) /\ pipeOf[c] = n
         /\ \/ role[c] = side
            \/ role[c] = other /\ state[c] = "forked"
    /\ \A c, d \in Children :
         /\ <<c, n>> \in E /\ <<d, n>> \in E
         /\ role[c] = side /\ role[d] = side
         => c = d

(* The pipe that is being made has the sides that were forked.             *)
Fresh ==
  \A c \in Children :
    /\ pc = "piped" => <<c, pipes>> \notin writers \cup readers
    /\ pc = "left" /\ <<c, pipes>> \in readers => role[c] = "left"

Ends == Side("left", "right", writers) /\ Side("right", "left", readers) /\ Fresh

(* No signal is lost with a child uncollected: one that has ended is found *)
(* by the run of the handler that is still to come, if not by wait().      *)
ZombiesAnnounced == Zombies # {} => pending

IInv == TypeOK /\ Awaiting /\ Ends /\ ZombiesAnnounced

-----------------------------------------------------------------------------
(* A program that has just started keeps its types.                        *)
LEMMA TypeInit == Init => TypeOK
<1> SUFFICES ASSUME Init PROVE TypeOK
  OBVIOUS
<1>1. /\ pc \in {"prompt", "piped", "left", "right", "close", "wait", "exited"}
      /\ current \subseteq Children /\ pipes \in Nat /\ waits \in 0 .. 2
      /\ writers \subseteq (Children \cup {Shell}) \X (1 .. pipes)
      /\ readers \subseteq (Children \cup {Shell}) \X (1 .. pipes)
      /\ strays \subseteq Children
  BY DEF Init
<1>2. /\ state \in [Children -> {"none", "forked", "running", "zombie", "gone"}]
      /\ role \in [Children -> {"none", "background", "alone", "left", "right"}]
      /\ pipeOf \in [Children -> 0 .. pipes]
  BY DEF Init
<1>3. pending \in BOOLEAN
  BY DEF Init
<1> QED BY <1>1, <1>2, <1>3 DEF TypeOK

(* Every step keeps the types.                                             *)
LEMMA TypeStep == TypeOK /\ Awaiting /\ [Next]_vars => TypeOK'
<1> SUFFICES ASSUME TypeOK, Awaiting, [Next]_vars PROVE TypeOK'
  OBVIOUS
<1>0. /\ pipes \in Nat /\ pipes + 1 \in Nat /\ 0 .. pipes \subseteq 0 .. pipes + 1
      /\ 1 .. pipes \subseteq 1 .. pipes + 1 /\ pipes + 1 \in 1 .. pipes + 1
      /\ pipes \in 0 .. pipes
      /\ HeldBy(Shell, writers) \subseteq 1 .. pipes
      /\ HeldBy(Shell, readers) \subseteq 1 .. pipes
  BY DEF TypeOK, HeldBy
<1>1. ASSUME NEW c \in Children, NEW r \in {"background", "alone", "left", "right"},
             fork(c, r)
      PROVE  /\ state' \in [Children -> {"none", "forked", "running", "zombie", "gone"}]
             /\ role' \in [Children -> {"none", "background", "alone", "left", "right"}]
             /\ writers' \subseteq (Children \cup {Shell}) \X (1 .. pipes)
             /\ readers' \subseteq (Children \cup {Shell}) \X (1 .. pipes)
             /\ UNCHANGED <<pending, pipes, strays>>
  <2>1. /\ writers' \subseteq (Children \cup {Shell}) \X (1 .. pipes)
        /\ readers' \subseteq (Children \cup {Shell}) \X (1 .. pipes)
    BY <1>0, <1>1 DEF fork, TypeOK
  <2> QED BY <1>1, <2>1 DEF fork, SetState, TypeOK
<1>2. CASE runInBackground
  BY <1>1, <1>2 DEF runInBackground, TypeOK
<1>3. CASE runAlone
  BY <1>1, <1>3 DEF runAlone, Goto, TypeOK
<1>4. CASE runPipe
  <2>1. /\ writers' \subseteq (Children \cup {Shell}) \X (1 .. pipes')
        /\ readers' \subseteq (Children \cup {Shell}) \X (1 .. pipes')
    BY <1>0, <1>4 DEF runPipe, TypeOK
  <2>2. pipeOf' \in [Children -> 0 .. pipes']
    BY <1>0, <1>4 DEF runPipe, TypeOK
  <2> QED BY <1>0, <1>4, <2>1, <2>2 DEF runPipe, Goto, TypeOK
<1>5. CASE forkLeft
  <2>1. pipeOf' \in [Children -> 0 .. pipes]
    BY <1>0, <1>5 DEF forkLeft, TypeOK
  <2> QED BY <1>1, <1>5, <2>1 DEF forkLeft, Goto, TypeOK
<1>6. CASE forkRight
  <2>1. pipeOf' \in [Children -> 0 .. pipes]
    BY <1>0, <1>6 DEF forkRight, TypeOK
  <2> QED BY <1>1, <1>6, <2>1 DEF forkRight, Goto, TypeOK
<1>7. CASE closePipe
  BY <1>7 DEF closePipe, withoutShell, waitsForPipe, Goto, TypeOK
<1>8. CASE fails \/ finalize
  BY <1>8 DEF fails, finalize, withoutShell, piping, ends, Goto, TypeOK
<1>9. CASE waitCollects \/ waitNoChild
  <2>1. waits' \in 0 .. 2 /\ pc' \in {"prompt", "wait"} /\ current' \subseteq Children
        /\ UNCHANGED <<pending, role, pipes, pipeOf, writers, readers>>
    BY <1>9 DEF waitCollects, waitNoChild, waited, piping, ends, Awaiting, TypeOK
  <2>2. /\ state' \in [Children -> {"none", "forked", "running", "zombie", "gone"}]
        /\ strays' \subseteq Children
    BY <1>9 DEF waitCollects, waitNoChild, Zombies, SetState, TypeOK
  <2> QED BY <2>1, <2>2 DEF TypeOK
<1>10. CASE sigchild_handler
  <2>1. state' \in [Children -> {"none", "forked", "running", "zombie", "gone"}]
    BY <1>10 DEF sigchild_handler, reapAll, TypeOK
  <2> QED BY <1>10, <2>1 DEF sigchild_handler, piping, ends, TypeOK
<1>11. ASSUME NEW c \in Children, exec(c) \/ exit(c) PROVE TypeOK'
  BY <1>11 DEF exec, exit, leftCloses, rightCloses, SetState, TypeOK
<1>12. CASE UNCHANGED vars
  BY <1>12 DEF vars, piping, ends, TypeOK
<1> QED BY <1>2, <1>3, <1>4, <1>5, <1>6, <1>7, <1>8, <1>9, <1>10, <1>11, <1>12
        DEF Next, ShellStep

-----------------------------------------------------------------------------
(* What the counting of children needs of cardinalities.                   *)
LEMMA Sizes ==
  ASSUME NEW S \in SUBSET Children
  PROVE  /\ Cardinality(S) \in Nat
         /\ \A T \in SUBSET S : Cardinality(T) <= Cardinality(S)
         /\ \A c \in Children, T \in SUBSET Children :
              T \subseteq S \cup {c} => Cardinality(T) <= Cardinality(S) + 1
         /\ \A c \in S, T \in SUBSET Children :
              T \subseteq S \ {c} => Cardinality(T) + 1 <= Cardinality(S)
         /\ \A c \in Children \ S : Cardinality(S \cup {c}) = Cardinality(S) + 1
         /\ S = {} => Cardinality(S) = 0
<1>1. IsFiniteSet(S) /\ Cardinality(S) \in Nat
  BY FS_Subset, FS_CardinalityType, ShellAssumption
<1>2. \A T \in SUBSET S : Cardinality(T) <= Cardinality(S)
  BY <1>1, FS_Subset
<1>3. ASSUME NEW c \in Children, NEW T \in SUBSET Children, T \subseteq S \cup {c}
      PROVE  Cardinality(T) <= Cardinality(S) + 1
  <2>1. /\ IsFiniteSet(S \cup {c})
        /\ Cardinality(S \cup {c}) = IF c \in S THEN Cardinality(S) ELSE Cardinality(S) + 1
    BY <1>1, FS_AddElement
  <2>2. /\ T \in SUBSET (S \cup {c}) /\ Cardinality(T) <= Cardinality(S \cup {c})
        /\ Cardinality(T) \in Nat
    BY <1>3, <2>1, FS_Subset, FS_CardinalityType
  <2> QED BY <1>1, <2>1, <2>2
<1>4. ASSUME NEW c \in S, NEW T \in SUBSET Children, T \subseteq S \ {c}
      PROVE  Cardinality(T) + 1 <= Cardinality(S)
  <2>1. /\ IsFiniteSet(S \ {c}) /\ Cardinality(S \ {c}) = Cardinality(S) - 1
    BY <1>1, FS_RemoveElement
  <2>2. /\ T \in SUBSET (S \ {c}) /\ Cardinality(T) <= Cardinality(S \ {c})
        /\ Cardinality(T) \in Nat
    BY <1>4, <2>1, FS_Subset, FS_CardinalityType
  <2> QED BY <1>1, <2>1, <2>2
<1>5. \A c \in Children \ S : Cardinality(S \cup {c}) = Cardinality(S) + 1
  BY <1>1, FS_AddElement
<1>6. S = {} => Cardinality(S) = 0
  BY FS_EmptySet
<1> QED BY <1>1, <1>2, <1>3, <1>4, <1>5, <1>6

-----------------------------------------------------------------------------
(* The command in hand owes nothing at the start.                          *)
LEMMA AwaitingInit == Init => Awaiting
<1> SUFFICES ASSUME Init PROVE Awaiting
  OBVIOUS
<1>1. Owed = {} /\ strays = {} /\ pc = "prompt" /\ current = {}
  BY DEF Init, Owed, Alive
<1>2. Cardinality(Owed) = 0 /\ Cardinality(strays) = 0
  BY <1>1, FS_EmptySet
<1> QED BY <1>1, <1>2 DEF Awaiting, ToCome

(* A step that adds nobody to those who are owed, and no call of wait().   *)
LEMMA NothingOwed ==
  ASSUME TypeOK, Awaiting, Owed' \subseteq Owed, strays' = strays,
         pc # "exited", ToCome' = ToCome
  PROVE  Cardinality(Owed') <= Cardinality(strays') + ToCome'
<1>1. /\ Cardinality(Owed') <= Cardinality(Owed)
      /\ Cardinality(Owed) \in Nat /\ Cardinality(Owed') \in Nat
      /\ Cardinality(strays) \in Nat
  BY Sizes DEF TypeOK, Owed
<1>2. Cardinality(Owed) <= Cardinality(strays) + ToCome /\ ToCome \in Int
  BY DEF Awaiting, TypeOK, ToCome
<1> HIDE DEF ToCome
<1> QED BY <1>1, <1>2

(* A step that forks one child that is owed, and owes one call of wait().  *)
LEMMA OneMoreOwed ==
  ASSUME TypeOK, Awaiting, NEW c \in Children, Owed' \subseteq Owed \cup {c},
         strays' = strays, pc # "exited", ToCome' = ToCome + 1
  PROVE  Cardinality(Owed') <= Cardinality(strays') + ToCome'
<1>1. /\ Cardinality(Owed') <= Cardinality(Owed) + 1
      /\ Cardinality(Owed) \in Nat /\ Cardinality(Owed') \in Nat
      /\ Cardinality(strays) \in Nat
  BY Sizes DEF TypeOK, Owed
<1>2. Cardinality(Owed) <= Cardinality(strays) + ToCome /\ ToCome \in Int
  BY DEF Awaiting, TypeOK, ToCome
<1> HIDE DEF ToCome
<1> QED BY <1>1, <1>2

(* What a fork does to those who are owed.                                 *)
LEMMA ForkOwes ==
  ASSUME TypeOK, Awaiting, NEW c \in Children,
         NEW r \in {"background", "alone", "left", "right"}, fork(c, r)
  PROVE  /\ state[c] = "none" /\ state'[c] = "forked" /\ c \notin current
         /\ \A d \in Children \ {c} : state'[d] = state[d] /\ role'[d] = role[d]
         /\ role'[c] = r
         /\ strays' = strays /\ c \notin strays
         /\ current' \subseteq current \cup {c} => Owed' \subseteq Owed \cup {c}
         /\ current' = current /\ r = "background" => Owed' \subseteq Owed
<1>1. /\ state[c] = "none" /\ state'[c] = "forked" /\ role'[c] = r
      /\ \A d \in Children \ {c} : state'[d] = state[d] /\ role'[d] = role[d]
      /\ strays' = strays
  BY DEF fork, SetState, TypeOK
<1>2. c \notin current /\ c \notin strays
  BY <1>1 DEF Awaiting
<1> QED BY <1>1, <1>2 DEF Owed, Alive

(* Every step keeps the account of the children that are owed.             *)
LEMMA AwaitingStep == TypeOK /\ Awaiting /\ [Next]_vars => Awaiting'
<1> SUFFICES ASSUME TypeOK, Awaiting, [Next]_vars PROVE Awaiting'
  OBVIOUS
<1>1. CASE runInBackground
  <2>1. PICK c \in Children : fork(c, "background")
    BY <1>1 DEF runInBackground
  <2>2. pc = "prompt" /\ pc' = pc /\ current' = current /\ waits' = waits
    BY <1>1 DEF runInBackground
  <2>3. Owed' \subseteq Owed /\ strays' = strays /\ ToCome' = ToCome
    BY <2>1, <2>2, ForkOwes DEF ToCome
  <2>4. Cardinality(Owed') <= Cardinality(strays') + ToCome'
    BY <2>2, <2>3, NothingOwed
  <2>5. \A d \in current' : state'[d] # "none"
    BY <2>1, <2>2, ForkOwes DEF Awaiting, TypeOK
  <2>6. \A d \in strays' : state'[d] = "gone"
    BY <2>1, ForkOwes DEF Awaiting, TypeOK
  <2> QED BY <2>1, <2>2, <2>4, <2>5, <2>6 DEF Awaiting
<1>2. CASE runAlone
  <2>1. PICK c \in Children : fork(c, "alone") /\ current' = {c}
    BY <1>2 DEF runAlone
  <2>2. pc = "prompt" /\ pc' = "wait" /\ waits' = 1 /\ current = {}
    BY <1>2 DEF runAlone, Goto, Awaiting
  <2>3. Owed' \subseteq Owed \cup {c} /\ strays' = strays /\ ToCome' = ToCome + 1
    BY <2>1, <2>2, ForkOwes DEF ToCome
  <2>4. Cardinality(Owed') <= Cardinality(strays') + ToCome'
    BY <2>2, <2>3, OneMoreOwed
  <2>5. \A d \in current' : state'[d] # "none"
    BY <2>1, <2>2, ForkOwes DEF Awaiting, TypeOK
  <2>6. \A d \in strays' : state'[d] = "gone"
    BY <2>1, ForkOwes DEF Awaiting, TypeOK
  <2> QED BY <2>1, <2>2, <2>4, <2>5, <2>6 DEF Awaiting
<1>3. CASE runPipe
  <2>1. pc = "prompt" /\ pc' = "piped"
        /\ UNCHANGED <<current, waits, pending, state, role, pipeOf, strays>>
    BY <1>3 DEF runPipe, Goto
  <2>2. Owed' = Owed /\ ToCome' = ToCome
    BY <2>1 DEF Owed, Alive, ToCome
  <2>3. Cardinality(Owed') <= Cardinality(strays') + ToCome'
    BY <2>1, <2>2, NothingOwed
  <2> QED BY <2>1, <2>3 DEF Awaiting
<1>4. CASE forkLeft
  <2>1. PICK c \in Children : fork(c, "left") /\ current' = {c}
    BY <1>4 DEF forkLeft
  <2>2. pc = "piped" /\ pc' = "left" /\ waits' = waits /\ current = {}
    BY <1>4 DEF forkLeft, Goto, Awaiting
  <2>3. Owed' \subseteq Owed \cup {c} /\ strays' = strays /\ ToCome' = ToCome + 1
    BY <2>1, <2>2, ForkOwes DEF ToCome
  <2>4. Cardinality(Owed') <= Cardinality(strays') + ToCome'
    BY <2>2, <2>3, OneMoreOwed
  <2>5. \A d \in current' : state'[d] # "none"
    BY <2>1, <2>2, ForkOwes DEF Awaiting, TypeOK
  <2>6. \A d \in strays' : state'[d] = "gone"
    BY <2>1, ForkOwes DEF Awaiting, TypeOK
  <2> QED BY <2>1, <2>2, <2>4, <2>5, <2>6 DEF Awaiting
<1>5. CASE forkRight
  <2>1. PICK c \in Children : fork(c, "right") /\ current' = current \cup {c}
    BY <1>5 DEF forkRight
  <2>2. pc = "left" /\ pc' = "close" /\ waits' = waits
    BY <1>5 DEF forkRight, Goto
  <2>3. Owed' \subseteq Owed \cup {c} /\ strays' = strays /\ ToCome' = ToCome + 1
    BY <2>1, <2>2, ForkOwes DEF ToCome
  <2>4. Cardinality(Owed') <= Cardinality(strays') + ToCome'
    BY <2>2, <2>3, OneMoreOwed
  <2>5. \A d \in current' : state'[d] # "none"
    BY <2>1, ForkOwes DEF Awaiting, TypeOK
  <2>6. \A d \in strays' : state'[d] = "gone"
    BY <2>1, ForkOwes DEF Awaiting, TypeOK
  <2> QED BY <2>2, <2>4, <2>5, <2>6 DEF Awaiting
<1>6. CASE closePipe
  <2>1. pc = "close" /\ pc' = "wait" /\ waits' = 2
        /\ UNCHANGED <<current, state, role, strays>>
    BY <1>6 DEF closePipe, waitsForPipe, Goto
  <2>2. Owed' = Owed /\ ToCome' = ToCome
    BY <2>1 DEF Owed, Alive, ToCome
  <2>3. Cardinality(Owed') <= Cardinality(strays') + ToCome'
    BY <2>1, <2>2, NothingOwed
  <2> QED BY <2>1, <2>3 DEF Awaiting
<1>7. CASE fails \/ finalize
  BY <1>7 DEF fails, finalize, Goto, Awaiting
<1>8. CASE waitCollects
  <2>1. PICK c \in Zombies :
          /\ SetState(c, "gone")
          /\ strays' = IF c \in current THEN strays ELSE strays \cup {c}
    BY <1>8 DEF waitCollects
  <2>2. /\ c \in Children /\ state[c] = "zombie" /\ state'[c] = "gone"
        /\ \A d \in Children \ {c} : state'[d] = state[d]
        /\ role' = role /\ pc = "wait" /\ waits \in 1 .. 2 /\ waits' = waits - 1
        /\ IF waits = 1 THEN pc' = "prompt" /\ current' = {}
                        ELSE pc' = pc /\ current' = current
    BY <1>8, <2>1 DEF waitCollects, waited, Zombies, SetState, TypeOK, Awaiting
  <2>3. ToCome' = ToCome - 1 /\ ToCome \in Int
    BY <2>2 DEF ToCome
  <2>4. /\ Cardinality(Owed) <= Cardinality(strays) + ToCome
        /\ Cardinality(Owed) \in Nat /\ Cardinality(Owed') \in Nat
        /\ Cardinality(strays) \in Nat
    BY <2>2, Sizes DEF Awaiting, TypeOK, Owed
  <2> HIDE DEF ToCome
  <2>5. CASE c \in current
    <3>1. c \in Owed /\ Owed' \subseteq Owed \ {c}
      BY <2>2, <2>5 DEF Owed, Alive
    <3>2. Cardinality(Owed') + 1 <= Cardinality(Owed)
      BY <3>1, Sizes DEF Owed
    <3>3. Cardinality(Owed') <= Cardinality(strays') + ToCome'
      BY <2>1, <2>3, <2>4, <2>5, <3>2
    <3> QED BY <2>1, <2>2, <2>5, <3>3 DEF Awaiting, TypeOK
  <2>6. CASE c \notin current
    <3>1. Owed' \subseteq Owed /\ c \notin strays
      BY <2>2, <2>6 DEF Owed, Alive, Awaiting
    <3>2. Cardinality(Owed') <= Cardinality(Owed)
      BY <3>1, Sizes DEF Owed
    <3>3. strays' = strays \cup {c} /\ Cardinality(strays \cup {c}) = Cardinality(strays) + 1
      BY <2>1, <2>2, <2>6, <3>1, Sizes DEF TypeOK
    <3>4. Cardinality(Owed') <= Cardinality(strays') + ToCome'
      BY <2>3, <2>4, <3>2, <3>3
    <3> QED BY <2>2, <2>6, <3>3, <3>4 DEF Awaiting, TypeOK
  <2> QED BY <2>5, <2>6
<1>9. CASE waitNoChild
  <2>1. /\ \A c \in Children : state[c] \in {"none", "gone"}
        /\ pc = "wait" /\ state' = state /\ strays' = strays /\ role' = role
        /\ waits \in 1 .. 2 /\ waits' = waits - 1
        /\ IF waits = 1 THEN pc' = "prompt" /\ current' = {}
                        ELSE pc' = pc /\ current' = current
    BY <1>9 DEF waitNoChild, waited, Awaiting
  <2>2. Owed' = {}
    BY <2>1 DEF Owed, Alive, Awaiting
  <2>3. Cardinality(Owed') = 0 /\ Cardinality(strays') \in Nat
    BY <2>1, <2>2, Sizes, FS_EmptySet DEF TypeOK
  <2>4. ToCome' \in Nat
    BY <2>1 DEF ToCome
  <2>5. Cardinality(Owed') <= Cardinality(strays') + ToCome'
    BY <2>3, <2>4
  <2> QED BY <2>1, <2>5 DEF Awaiting
<1>10. CASE sigchild_handler
  <2>1. /\ \A c \in Children : \/ state'[c] = state[c]
                               \/ state[c] = "zombie" /\ state'[c] = "gone"
        /\ pc # "exited" /\ UNCHANGED <<pc, current, waits, role, strays>>
    BY <1>10 DEF sigchild_handler, reapAll, Zombies, TypeOK
  <2>2. Owed' \subseteq Owed /\ ToCome' = ToCome
    BY <2>1 DEF Owed, Alive, ToCome
  <2>3. Cardinality(Owed') <= Cardinality(strays') + ToCome'
    BY <2>1, <2>2, NothingOwed
  <2>4. \A c \in current' : state'[c] # "none"
    BY <2>1 DEF Awaiting, TypeOK
  <2>5. \A c \in strays' : state'[c] = "gone"
    BY <2>1 DEF Awaiting, TypeOK
  <2> QED BY <2>1, <2>3, <2>4, <2>5 DEF Awaiting
<1>11. ASSUME NEW c \in Children, exec(c) \/ exit(c) PROVE Awaiting'
  <2>1. /\ state[c] \in {"forked", "running"} /\ state'[c] \in {"running", "zombie"}
        /\ \A d \in Children \ {c} : state'[d] = state[d]
        /\ UNCHANGED <<pc, current, waits, role, strays>>
    BY <1>11 DEF exec, exit, SetState, TypeOK
  <2>2. Owed' \subseteq Owed /\ ToCome' = ToCome
    BY <2>1 DEF Owed, Alive, ToCome
  <2>3. pc # "exited" => Cardinality(Owed') <= Cardinality(strays') + ToCome'
    BY <2>1, <2>2, NothingOwed
  <2>4. \A d \in current' : state'[d] # "none"
    BY <2>1 DEF Awaiting, TypeOK
  <2>5. \A d \in strays' : state'[d] = "gone"
    BY <2>1 DEF Awaiting, TypeOK
  <2> QED BY <2>1, <2>3, <2>4, <2>5 DEF Awaiting
<1>12. CASE UNCHANGED vars
  <2>1. UNCHANGED <<pc, current, waits, state, role, strays>>
    BY <1>12 DEF vars
  <2> QED BY <2>1 DEF Awaiting, Owed, Alive, ToCome
<1> QED BY <1>1, <1>2, <1>3, <1>4, <1>5, <1>6, <1>7, <1>8, <1>9, <1>10, <1>11, <1>12
        DEF Next, ShellStep

-----------------------------------------------------------------------------
(* Nobody holds an end of a pipe at the start, and nobody has ended.       *)
LEMMA EndsInit == Init => Ends /\ ZombiesAnnounced
BY DEF Init, Ends, Side, Fresh, ZombiesAnnounced, Zombies

(* A child that holds an end of a pipe has not ended.                      *)
LEMMA HoldersLive ==
  ASSUME TypeOK, Ends, NEW c \in Children, NEW n,
         <<c, n>> \in writers \/ <<c, n>> \in readers
  PROVE  Alive(c)
<1>1. n \in 1 .. pipes
  BY DEF TypeOK
<1>2. CASE <<c, n>> \in writers
  <2>1. Side("left", "right", writers)
    BY DEF Ends
  <2> QED BY <1>1, <1>2, <2>1 DEF Side
<1>3. CASE <<c, n>> \in readers
  <2>1. Side("right", "left", readers)
    BY DEF Ends
  <2> QED BY <1>1, <1>3, <2>1 DEF Side
<1> QED BY <1>2, <1>3

(* A child that was not forked yet holds no end.                           *)
LEMMA NoneBefore ==
  ASSUME TypeOK, Ends, NEW c \in Children, state[c] = "none"
  PROVE  \A n : <<c, n>> \notin writers /\ <<c, n>> \notin readers
BY HoldersLive DEF Alive

(* A fork gives the child the ends that the shell holds.                   *)
LEMMA ForkInherits ==
  ASSUME TypeOK, Ends, NEW c \in Children,
         NEW r \in {"background", "alone", "left", "right"}, fork(c, r)
  PROVE  /\ pipes' = pipes
         /\ state[c] = "none" /\ state'[c] = "forked" /\ role'[c] = r
         /\ \A d \in Children \ {c} : state'[d] = state[d] /\ role'[d] = role[d]
         /\ \A n : <<c, n>> \in writers' => <<Shell, n>> \in writers
         /\ \A n : <<c, n>> \in readers' => <<Shell, n>> \in readers
         /\ \A p \in (Children \cup {Shell}) \ {c} : \A n :
              /\ <<p, n>> \in writers' <=> <<p, n>> \in writers
              /\ <<p, n>> \in readers' <=> <<p, n>> \in readers
<1>1. /\ state[c] = "none" /\ pipes' = pipes
      /\ writers' = writers \cup ({c} \X HeldBy(Shell, writers))
      /\ readers' = readers \cup ({c} \X HeldBy(Shell, readers))
  BY DEF fork
<1>2. /\ state'[c] = "forked" /\ role'[c] = r
      /\ \A d \in Children \ {c} : state'[d] = state[d] /\ role'[d] = role[d]
  BY DEF fork, SetState, TypeOK
<1>3. /\ \A n : <<c, n>> \in writers' => <<Shell, n>> \in writers
      /\ \A n : <<c, n>> \in readers' => <<Shell, n>> \in readers
  BY <1>1, NoneBefore DEF HeldBy
<1>4. \A p \in (Children \cup {Shell}) \ {c} : \A n :
        /\ <<p, n>> \in writers' <=> <<p, n>> \in writers
        /\ <<p, n>> \in readers' <=> <<p, n>> \in readers
  BY <1>1
<1> QED BY <1>1, <1>2, <1>3, <1>4

(* A step that forks nobody and gives nobody an end keeps the two sides.   *)
LEMMA EndsShrink ==
  ASSUME TypeOK, Ends, pipes' = pipes, pipeOf' = pipeOf, role' = role,
         writers' \subseteq writers, readers' \subseteq readers,
         \A c \in Children : \/ state'[c] = state[c]
                             \/ \A n : <<c, n>> \notin writers' \cup readers',
         \/ pc' = pc
         \/ pc' \notin {"piped", "left"} /\ pc \notin {"piped", "left", "close"}
         \/ /\ pc' \notin {"piped", "left"}
            /\ \A n : <<Shell, n>> \notin writers' \cup readers'
  PROVE  Ends'
<1>1. Side("left", "right", writers)'
  BY DEF Ends, Side, Alive
<1>2. Side("right", "left", readers)'
  BY DEF Ends, Side, Alive
<1>3. Fresh'
  BY DEF Ends, Fresh
<1> QED BY <1>1, <1>2, <1>3 DEF Ends

(* Every step keeps who may hold the end of a pipe.                        *)
LEMMA EndsStep == TypeOK /\ Ends /\ [Next]_vars => Ends'
<1> SUFFICES ASSUME TypeOK, Ends, [Next]_vars PROVE Ends'
  OBVIOUS
<1>0. Shell \notin Children
  BY ShellAssumption
<1>1. CASE runInBackground \/ runAlone
  <2>1. PICK c \in Children, r \in {"background", "alone"} : fork(c, r)
    BY <1>1 DEF runInBackground, runAlone
  <2>2. pc = "prompt" /\ pc' \notin {"piped", "left"} /\ pipeOf' = pipeOf
    BY <1>1 DEF runInBackground, runAlone, Goto
  <2>3. \A n : <<Shell, n>> \notin writers \cup readers
    BY <2>2 DEF Ends, Side, TypeOK
  <2>4. \A n : <<c, n>> \notin writers \cup readers
    BY <2>1, ForkInherits, NoneBefore
  <2>5. writers' = writers /\ readers' = readers
    BY <2>1, <2>3 DEF fork, HeldBy
  <2>6. /\ \A d \in Children \ {c} : state'[d] = state[d] /\ role'[d] = role[d]
        /\ pipes' = pipes
    BY <2>1, ForkInherits
  <2>7. Side("left", "right", writers)'
    BY <1>0, <2>2, <2>3, <2>4, <2>5, <2>6 DEF Ends, Side, Alive
  <2>8. Side("right", "left", readers)'
    BY <1>0, <2>2, <2>3, <2>4, <2>5, <2>6 DEF Ends, Side, Alive
  <2> QED BY <2>2, <2>7, <2>8 DEF Ends, Fresh
<1>2. CASE runPipe
  <2>1. /\ pc = "prompt" /\ pc' = "piped" /\ pipes' = pipes + 1
        /\ writers' = writers \cup {<<Shell, pipes + 1>>}
        /\ readers' = readers \cup {<<Shell, pipes + 1>>}
        /\ UNCHANGED <<state, role, pipeOf>>
    BY <1>2 DEF runPipe, Goto
  <2>2. /\ pipes \in Nat
        /\ writers \subseteq (Children \cup {Shell}) \X (1 .. pipes)
        /\ readers \subseteq (Children \cup {Shell}) \X (1 .. pipes)
        /\ 1 .. pipes + 1 = (1 .. pipes) \cup {pipes + 1} /\ pipes + 1 \notin 1 .. pipes
    BY DEF TypeOK
  <2>3. \A p : <<p, pipes + 1>> \notin writers \cup readers
    BY <2>2
  <2>4. Side("left", "right", writers)'
    BY <1>0, <2>1, <2>2, <2>3 DEF Ends, Side, Alive
  <2>5. Side("right", "left", readers)'
    BY <1>0, <2>1, <2>2, <2>3 DEF Ends, Side, Alive
  <2> QED BY <1>0, <2>1, <2>3, <2>4, <2>5 DEF Ends, Fresh
<1>3. CASE forkLeft
  <2>1. PICK c \in Children :
          fork(c, "left") /\ pipeOf' = [pipeOf EXCEPT ![c] = pipes]
    BY <1>3 DEF forkLeft
  <2>2. /\ pc = "piped" /\ pc' = "left"
        /\ pipeOf'[c] = pipes /\ \A d \in Children \ {c} : pipeOf'[d] = pipeOf[d]
    BY <1>3, <2>1 DEF forkLeft, Goto, TypeOK
  <2>3. \A d \in Children : <<d, pipes>> \notin writers \cup readers
    BY <2>2 DEF Ends, Fresh
  <2>4. Side("left", "right", writers)'
    BY <1>0, <2>1, <2>2, <2>3, ForkInherits DEF Ends, Side, Alive
  <2>5. Side("right", "left", readers)'
    BY <1>0, <2>1, <2>2, ForkInherits DEF Ends, Side, Alive
  <2>6. Fresh'
    BY <1>0, <2>1, <2>2, <2>3, ForkInherits DEF Fresh
  <2> QED BY <2>4, <2>5, <2>6 DEF Ends
<1>4. CASE forkRight
  <2>1. PICK c \in Children :
          fork(c, "right") /\ pipeOf' = [pipeOf EXCEPT ![c] = pipes]
    BY <1>4 DEF forkRight
  <2>2. /\ pc = "left" /\ pc' = "close"
        /\ pipeOf'[c] = pipes /\ \A d \in Children \ {c} : pipeOf'[d] = pipeOf[d]
    BY <1>4, <2>1 DEF forkRight, Goto, TypeOK
  <2>3. \A d \in Children : <<d, pipes>> \in readers => role[d] = "left"
    BY <2>2 DEF Ends, Fresh
  <2>4. Side("left", "right", writers)'
    BY <1>0, <2>1, <2>2, ForkInherits DEF Ends, Side, Alive
  <2>5. Side("right", "left", readers)'
    BY <1>0, <2>1, <2>2, <2>3, ForkInherits DEF Ends, Side, Alive
  <2> QED BY <2>2, <2>4, <2>5 DEF Ends, Fresh
<1>5. CASE closePipe \/ fails
  <2>1. /\ writers' = writers \ ({Shell} \X (1 .. pipes)) /\ pc' \in {"wait", "exited"}
        /\ readers' = readers \ ({Shell} \X (1 .. pipes))
        /\ UNCHANGED <<pipes, state, role, pipeOf>>
    BY <1>5 DEF closePipe, fails, withoutShell, Goto
  <2>2. \A n : <<Shell, n>> \notin writers' \cup readers'
    BY <2>1 DEF TypeOK
  <2> QED BY <2>1, <2>2, EndsShrink
<1>6. CASE finalize \/ waitCollects \/ waitNoChild
  <2>1. /\ UNCHANGED <<pipes, pipeOf, writers, readers, role>>
        /\ pc \in {"prompt", "wait"} /\ pc' \in {"prompt", "wait", "exited"}
        /\ \A c \in Children : Alive(c) => state'[c] = state[c]
    BY <1>6 DEF finalize, waitCollects, waitNoChild, waited, piping, ends, Goto,
                SetState, Zombies, Alive, TypeOK
  <2>2. \A c \in Children : \/ state'[c] = state[c]
                            \/ \A n : <<c, n>> \notin writers' \cup readers'
    BY <2>1, HoldersLive
  <2> QED BY <2>1, <2>2, EndsShrink
<1>7. CASE sigchild_handler
  <2>1. /\ UNCHANGED <<pc, pipes, pipeOf, writers, readers, role>>
        /\ \A c \in Children : Alive(c) => state'[c] = state[c]
    BY <1>7 DEF sigchild_handler, reapAll, Zombies, piping, ends, Alive, TypeOK
  <2>2. \A c \in Children : \/ state'[c] = state[c]
                            \/ \A n : <<c, n>> \notin writers' \cup readers'
    BY <2>1, HoldersLive
  <2> QED BY <2>1, <2>2, EndsShrink
<1>8. ASSUME NEW c \in Children, exec(c) PROVE Ends'
  <2>1. /\ state[c] = "forked" /\ state'[c] = "running"
        /\ \A d \in Children \ {c} : state'[d] = state[d]
        /\ UNCHANGED <<pc, pipes, role, pipeOf>>
    BY <1>8 DEF exec, SetState, TypeOK
  <2>2. /\ writers' = IF role[c] = "right" THEN writers \ {<<c, pipeOf[c]>>} ELSE writers
        /\ readers' = IF role[c] = "left" THEN readers \ {<<c, pipeOf[c]>>} ELSE readers
    BY <1>8 DEF exec, leftCloses, rightCloses
  <2>3. Side("left", "right", writers)'
    BY <2>1, <2>2 DEF Ends, Side, Alive
  <2>4. Side("right", "left", readers)'
    BY <2>1, <2>2 DEF Ends, Side, Alive
  <2> QED BY <2>1, <2>2, <2>3, <2>4 DEF Ends, Fresh
<1>9. ASSUME NEW c \in Children, exit(c) PROVE Ends'
  <2>1. /\ \A d \in Children \ {c} : state'[d] = state[d]
        /\ writers' = writers \ ({c} \X (1 .. pipes))
        /\ readers' = readers \ ({c} \X (1 .. pipes))
        /\ UNCHANGED <<pc, pipes, role, pipeOf>>
    BY <1>9 DEF exit, SetState, TypeOK
  <2>2. \A n : <<c, n>> \notin writers' \cup readers'
    BY <2>1 DEF TypeOK
  <2> QED BY <2>1, <2>2, EndsShrink
<1>10. CASE UNCHANGED vars
  BY <1>10, EndsShrink DEF vars, piping, ends
<1> QED BY <1>1, <1>2, <1>3, <1>4, <1>5, <1>6, <1>7, <1>8, <1>9, <1>10
        DEF Next, ShellStep

(* A child that ends sets pending, and the handler leaves no zombie.       *)
LEMMA AnnouncedStep ==
  TypeOK /\ ZombiesAnnounced /\ [Next]_vars => ZombiesAnnounced'
<1> SUFFICES ASSUME TypeOK, ZombiesAnnounced, [Next]_vars PROVE ZombiesAnnounced'
  OBVIOUS
<1>1. CASE sigchild_handler
  <2>1. \A c \in Children : state'[c] # "zombie"
    BY <1>1 DEF sigchild_handler, reapAll, Zombies, TypeOK
  <2> QED BY <2>1 DEF ZombiesAnnounced, Zombies
<1>2. ASSUME NEW c \in Children, exit(c) PROVE ZombiesAnnounced'
  BY <1>2 DEF exit, ZombiesAnnounced
<1>3. ASSUME NEW c \in Children, NEW r \in {"background", "alone", "left", "right"},
             fork(c, r)
      PROVE  ZombiesAnnounced'
  BY <1>3 DEF fork, SetState, ZombiesAnnounced, Zombies, TypeOK
<1>4. ASSUME NEW c \in Children, exec(c) PROVE ZombiesAnnounced'
  BY <1>4 DEF exec, SetState, ZombiesAnnounced, Zombies, TypeOK
<1>5. CASE waitCollects
  BY <1>5 DEF waitCollects, waited, SetState, ZombiesAnnounced, Zombies, TypeOK
<1>6. CASE \/ runPipe \/ fails \/ finalize \/ closePipe \/ waitNoChild
           \/ UNCHANGED vars
  <2>1. state' = state /\ pending' = pending
    BY <1>6 DEF runPipe, fails, finalize, closePipe, waitNoChild, waited, vars
  <2> QED BY <2>1 DEF ZombiesAnnounced, Zombies
<1> QED BY <1>1, <1>2, <1>3, <1>4, <1>5, <1>6
        DEF Next, ShellStep, runInBackground, runAlone, forkLeft, forkRight

-----------------------------------------------------------------------------
(* The invariant is inductive.                                             *)
LEMMA IInvHolds == Spec => []IInv
<1>1. Init => IInv
  BY TypeInit, AwaitingInit, EndsInit DEF IInv
<1>2. IInv /\ [Next]_vars => IInv'
  BY TypeStep, AwaitingStep, EndsStep, AnnouncedStep DEF IInv
<1> QED BY <1>1, <1>2, PTL DEF Spec

(* The variables keep their types.                                         *)
THEOREM TypeCorrect == Spec => []TypeOK
<1>1. IInv => TypeOK
  BY DEF IInv
<1> QED BY <1>1, IInvHolds, PTL

(* The shell comes back to its prompt too early only as often as wait()    *)
(* returned the child of another command.                                  *)
THEOREM CommandsAreAwaited == Spec => []ForegroundAwaited
<1>1. ASSUME IInv PROVE ForegroundAwaited
  <2> SUFFICES ASSUME pc = "prompt"
               PROVE  Cardinality({c \in Children : Alive(c) /\ role[c] # "background"})
                        <= Cardinality(strays)
    BY DEF ForegroundAwaited
  <2>1. Owed = {c \in Children : Alive(c) /\ role[c] # "background"}
    BY <1>1 DEF IInv, Awaiting, Owed
  <2>2. Cardinality(Owed) <= Cardinality(strays) + 0 /\ Cardinality(strays) \in Nat
    BY <1>1, Sizes DEF IInv, Awaiting, ToCome, TypeOK
  <2> QED BY <2>1, <2>2
<1> QED BY <1>1, IInvHolds, PTL

(* No end of a pipe is left open where it should be closed: a reader waits *)
(* for nobody but the left program of its own command, and a writer is     *)
(* kept at a full pipe by nobody but the right one.                        *)
THEOREM PipesEnd == Spec => []OneUserEach
<1>1. IInv => OneUserEach
  <2> SUFFICES ASSUME IInv, NEW n \in 1 .. pipes
               PROVE  OnlyFor("left", n, writers) /\ OnlyFor("right", n, readers)
    BY DEF OneUserEach
  <2>1. OnlyFor("left", n, writers)
    BY DEF IInv, Ends, Side, OnlyFor, Using
  <2>2. OnlyFor("right", n, readers)
    BY DEF IInv, Ends, Side, OnlyFor, Using
  <2> QED BY <2>1, <2>2
<1> QED BY <1>1, IInvHolds, PTL

(* A child that has ended is always announced to the handler.              *)
THEOREM NoSignalIsLost == Spec => []ZombiesAnnounced
<1>1. IInv => ZombiesAnnounced
  BY DEF IInv
<1> QED BY <1>1, IInvHolds, PTL
=============================================================================
