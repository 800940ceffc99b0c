------------------------------- MODULE Shell -------------------------------
(***************************************************************************)
(* The shell of exercise 2: the loop of shell.c, and prepare,              *)
(* process_arglist and the SIGCHLD handler of myshell.c.  A step is one    *)
(* system call of the shell or of a child, or one run of the handler,      *)
(* which may interrupt the shell between any two steps.                    *)
(***************************************************************************)
EXTENDS Integers, FiniteSets

CONSTANTS
  Children,   (* the processes it may fork; bound: each is forked once     *)
  Shell       (* the shell itself                                          *)

ASSUME ShellAssumption == IsFiniteSet(Children) /\ Shell \notin Children

VARIABLES
  pc,         (* where the shell is                                        *)
  current,    (* the children of the command it works on                   *)
  waits,      (* how many calls of wait() are still to come                *)
  pending,    (* SIGCHLD has arrived and the handler has not run yet       *)
  state,      (* of a child: not forked, before execvp, after, zombie, gone*)
  role,       (* what a child was forked for                               *)
  pipes,      (* how many pipes were made                                  *)
  pipeOf,     (* the pipe that a child is one side of, 0 if none           *)
  writers,    (* who holds the write end of which pipe                     *)
  readers     (* who holds the read end of which pipe                      *)

(* History: the children that wait() returned for another command.         *)
VARIABLE strays

ends   == <<writers, readers>>
piping == <<pipes, pipeOf, ends>>
vars   == <<pc, current, waits, pending, state, role, piping, strays>>

TypeOK ==
  /\ pc \in {"prompt", "piped", "left", "right", "close", "wait", "exited"}
  /\ current \subseteq Children
  /\ waits \in 0 .. 2
  /\ pending \in BOOLEAN
  /\ state \in [Children -> {"none", "forked", "running", "zombie", "gone"}]
  /\ role \in [Children -> {"none", "background", "alone", "left", "right"}]
  /\ pipes \in Nat
  /\ pipeOf \in [Children -> 0 .. pipes]
  /\ writers \subseteq (Children \cup {Shell}) \X (1 .. pipes)
  /\ readers \subseteq (Children \cup {Shell}) \X (1 .. pipes)
  /\ strays \subseteq Children

Init ==
  /\ pc = "prompt" /\ current = {} /\ waits = 0 /\ pending = FALSE
  /\ state = [c \in Children |-> "none"]
  /\ role = [c \in Children |-> "none"]
  /\ pipes = 0 /\ pipeOf = [c \in Children |-> 0]
  /\ writers = {} /\ readers = {}
  /\ strays = {}

-----------------------------------------------------------------------------
Alive(c) == state[c] \in {"forked", "running"}
Zombies == {c \in Children : state[c] = "zombie"}

Goto(from, to) == pc = from /\ pc' = to
SetState(c, s) == state' = [state EXCEPT ![c] = s]

HeldBy(p, E) == {n \in 1 .. pipes : <<p, n>> \in E}
Held(n, E) == \E p \in Children \cup {Shell} : <<p, n>> \in E

(* A child inherits the descriptors of the shell.                          *)
fork(c, r) ==
  /\ state[c] = "none" /\ SetState(c, "forked")
  /\ role' = [role EXCEPT ![c] = r]
  /\ writers' = writers \cup ({c} \X HeldBy(Shell, writers))
  /\ readers' = readers \cup ({c} \X HeldBy(Shell, readers))
  /\ UNCHANGED <<pending, pipes, strays>>

(* A command with "&" at its end: nobody waits for the child.              *)
runInBackground ==
  /\ pc = "prompt" /\ \E c \in Children : fork(c, "background")
  /\ UNCHANGED <<pc, current, waits, pipeOf>>

(* A command alone, with or without a redirection from or to a file.       *)
runAlone ==
  /\ Goto("prompt", "wait") /\ waits' = 1
  /\ \E c \in Children : fork(c, "alone") /\ current' = {c}
  /\ UNCHANGED pipeOf

runPipe ==
  /\ Goto("prompt", "piped")
  /\ pipes' = pipes + 1
  /\ writers' = writers \cup {<<Shell, pipes + 1>>}
  /\ readers' = readers \cup {<<Shell, pipes + 1>>}
  /\ UNCHANGED <<current, waits, pending, state, role, pipeOf, strays>>

forkLeft ==
  /\ Goto("piped", "left")
  /\ \E c \in Children :
       /\ fork(c, "left")
       /\ current' = {c}
       /\ pipeOf' = [pipeOf EXCEPT ![c] = pipes]
  /\ UNCHANGED waits

forkRight ==
  /\ Goto("left", "close")
  /\ \E c \in Children :
       /\ fork(c, "right")
       /\ current' = current \cup {c}
       /\ pipeOf' = [pipeOf EXCEPT ![c] = pipes]
  /\ UNCHANGED waits

KeepsEndsBug(E) == E
withoutShell(E) == E \ ({Shell} \X (1 .. pipes))

OneWaitBug == 1
ThreeWaitsBug == 3
waitsForPipe == 2

closePipe ==
  /\ Goto("close", "wait")
  /\ writers' = withoutShell(writers) /\ readers' = withoutShell(readers)
  /\ waits' = waitsForPipe
  /\ UNCHANGED <<current, pending, state, role, pipes, pipeOf, strays>>

(* pipe, fork or open of a file fails: the whole shell exits with 0.       *)
fails ==
  /\ pc \in {"prompt", "piped", "left"} /\ pc' = "exited"
  /\ writers' = withoutShell(writers) /\ readers' = withoutShell(readers)
  /\ UNCHANGED <<current, waits, pending, state, role, pipes, pipeOf, strays>>

(* The end of the input.                                                   *)
finalize ==
  /\ Goto("prompt", "exited")
  /\ UNCHANGED <<current, waits, pending, state, role, piping, strays>>

-----------------------------------------------------------------------------
(* wait() collects whichever child has ended, and returns at once when     *)
(* there is no child at all.                                               *)
waited ==
  /\ waits' = waits - 1
  /\ IF waits = 1 THEN pc' = "prompt" /\ current' = {}
                  ELSE UNCHANGED <<pc, current>>
  /\ UNCHANGED <<pending, role, piping>>

waitCollects ==
  /\ pc = "wait"
  /\ \E c \in Zombies :
       /\ SetState(c, "gone")
       /\ strays' = IF c \in current THEN strays ELSE strays \cup {c}
  /\ waited

waitNoChild ==
  /\ pc = "wait" /\ \A c \in Children : state[c] \in {"none", "gone"}
  /\ waited
  /\ UNCHANGED <<state, strays>>

(* Several children that end in a row may be announced by one signal.      *)
ReapsOneBug ==
  \E z \in Zombies :
    state' = [c \in Children |-> IF c = z THEN "gone" ELSE state[c]]
reapAll ==
  state' = [c \in Children |-> IF c \in Zombies THEN "gone" ELSE state[c]]

sigchild_handler ==
  /\ pending /\ pc # "exited" /\ pending' = FALSE
  /\ IF Zombies = {} THEN UNCHANGED state ELSE reapAll
  /\ UNCHANGED <<pc, current, waits, role, piping, strays>>

-----------------------------------------------------------------------------
(* Each side of a pipe closes its copy of the other end.  When execvp      *)
(* fails the child exits, as if its program had ended at once.             *)
KeepsReadEndBug(c) == readers
leftCloses(c) ==
  IF role[c] = "left" THEN readers \ {<<c, pipeOf[c]>>} ELSE readers
rightCloses(c) ==
  IF role[c] = "right" THEN writers \ {<<c, pipeOf[c]>>} ELSE writers

exec(c) ==
  /\ state[c] = "forked" /\ SetState(c, "running")
  /\ writers' = rightCloses(c) /\ readers' = leftCloses(c)
  /\ UNCHANGED <<pc, current, waits, pending, role, pipes, pipeOf, strays>>

(* A program may end at any moment, whatever it has read or written.       *)
exit(c) ==
  /\ state[c] = "running" /\ SetState(c, "zombie")
  /\ pending' = TRUE
  /\ writers' = writers \ ({c} \X (1 .. pipes))
  /\ readers' = readers \ ({c} \X (1 .. pipes))
  /\ UNCHANGED <<pc, current, waits, role, pipes, pipeOf, strays>>

(* What may keep a program from its end: one that reads from a pipe may    *)
(* read to the end of its input, and one that writes may block on a full   *)
(* pipe until somebody reads from it or SIGPIPE says that nobody can.      *)
SeesEnd(c) == ~ Held(pipeOf[c], writers)
IsRead(n)  == \E d \in Children :
                state[d] = "running" /\ role[d] = "right" /\ pipeOf[d] = n
Unhindered(c) ==
  /\ role[c] = "right" => SeesEnd(c)
  /\ role[c] = "left" => IsRead(pipeOf[c]) \/ ~ Held(pipeOf[c], readers)

ShellStep ==
  \/ forkLeft \/ forkRight \/ closePipe \/ waitCollects \/ waitNoChild

Next ==
  \/ runInBackground \/ runAlone \/ runPipe \/ fails \/ finalize
  \/ ShellStep \/ sigchild_handler
  \/ \E c \in Children : exec(c) \/ exit(c)

Spec == Init /\ [][Next]_vars

(* The shell and its handler run; programs that nothing hinders end,       *)
(* sooner or later.                                                        *)
FairSpec ==
  /\ Spec
  /\ WF_vars(ShellStep) /\ WF_vars(sigchild_handler)
  /\ \A c \in Children :
       WF_vars(exec(c)) /\ WF_vars(exit(c) /\ Unhindered(c))

-----------------------------------------------------------------------------
(* The shell is back at its prompt while a command that it should have     *)
(* waited for is still running only if wait() returned somebody else's     *)
(* child, one such child for each: without commands in the background it   *)
(* never is.                                                               *)
ForegroundAwaited ==
  pc = "prompt" =>
    Cardinality({c \in Children : Alive(c) /\ role[c] # "background"})
      <= Cardinality(strays)

(* Beyond the moments in which it makes a pipe, the shell holds no end of  *)
(* one, and of the programs that run only the left side of the command can *)
(* write to it and only the right side can read from it.  So the end of    *)
(* the writer is the end of the reader's input, and the end of the reader  *)
(* a SIGPIPE for the writer, whatever else was started before or since.    *)
Using(n, E) == {c \in Children : state[c] = "running" /\ <<c, n>> \in E}

OnlyFor(side, n, E) ==
  /\ pc \in {"prompt", "wait"} => <<Shell, n>> \notin E
  /\ \A c, d \in Using(n, E) : c = d /\ role[c] = side

OneUserEach ==
  \A n \in 1 .. pipes :
    OnlyFor("left", n, writers) /\ OnlyFor("right", n, readers)

(* "to prevent zombies from background" (2/myshell.c:26): every child that *)
(* has ended is collected, although signals are merged and the handler     *)
(* competes with wait().                                                   *)
NoZombieStays ==
  \A c \in Children : state[c] = "zombie" ~> state[c] = "gone" \/ pc = "exited"

(* If every program ends that nothing hinders, the shell comes back to its *)
(* prompt: no write end left open keeps a reader at its input, no read end *)
(* left open keeps a writer at a full pipe after its reader has gone, and  *)
(* no wait() blocks with nobody to wait for.                               *)
PromptReturns == pc = "wait" ~> pc \in {"prompt", "exited"}
=============================================================================
