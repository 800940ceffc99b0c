-------------------------- MODULE MessagePrograms --------------------------
(***************************************************************************)
(* The callers of the device of 3/message_slot.c: processes that run       *)
(* 3/message_sender.c and 3/message_reader.c, one program after another,   *)
(* each on a file of its own, or processes that call what they like.  The  *)
(* programs of different processes interleave; their calls take turns.     *)
(***************************************************************************)
EXTENDS MessageSlot

CONSTANTS
  FileOf,          (* the file that open gives to a process                *)
  TargetChannels,  (* the numbers on the command lines, ints               *)
  ULongLimit       (* 2^64                                                 *)

ASSUME ProgramsAssumption ==
  /\ FileOf \in [Processes -> Files]
  /\ \A p, q \in Processes : FileOf[p] = FileOf[q] => p = q
  /\ TargetChannels \subseteq Int

(* The argument of ioctl is an unsigned long: a negative int becomes one   *)
(* that is too large for a channel_id.                                     *)
toULong(targetChannel) == targetChannel % ULongLimit

ASSUME TargetsAssumption ==
  \A c \in TargetChannels :
    /\ c # 0 => toULong(c) \in Ids
    /\ IF c < 0 THEN toULong(c) >= IdLimit ELSE toULong(c) = c /\ c < IdLimit

Program(name, targetChannel, message_given) ==
  [name |-> name, channel |-> targetChannel, text |-> message_given]

CommandLines ==
  {Program("message_sender", c, m) : c \in TargetChannels, m \in Writable}
  \cup {Program("message_reader", c, <<>>) : c \in TargetChannels}

NoProgram == Program("none", 0, <<>>)

NothingSent == [n \in Minors |-> [c \in TargetChannels |-> <<>>]]

VARIABLES
  callers,   (* "programs", or "any" call in any order                     *)
  program,   (* what each process runs                                     *)
  step,      (* the system call it comes to, or is in                      *)
  sent       (* history: the message last sent to each channel of a device *)

programVars == <<program, step, sent>>
allVars     == <<vars, callers, programVars>>

ProgramsTypeOK ==
  /\ TypeOK
  /\ callers \in {"programs", "any"}
  /\ program \in [Processes -> CommandLines \cup {NoProgram}]
  /\ step \in [Processes -> {"open", "ioctl", "transfer", "close"}]
  /\ sent \in [Minors -> [TargetChannels -> Seq(Bytes)]]

ProgramsInit ==
  /\ Init
  /\ callers \in {"programs", "any"}
  /\ program = [p \in Processes |-> NoProgram]
  /\ step = [p \in Processes |-> "open"]
  /\ sent = NothingSent

Step(p, from, to) == step[p] = from /\ step' = [step EXCEPT ![p] = to]

-----------------------------------------------------------------------------
(* A program whose open fails exits and has done nothing.                  *)
openSlot(p) ==
  /\ Step(p, "open", "ioctl") /\ device_open(FileOf[p])
  /\ \E g \in CommandLines : program' = [program EXCEPT ![p] = g]
  /\ UNCHANGED sent

callIoctl(p) ==
  /\ step[p] = "ioctl" /\ program[p].channel # 0
  /\ ioctl(p, FileOf[p], toULong(program[p].channel))
  /\ UNCHANGED programVars

callIoctlZero(p) ==
  /\ program[p].channel = 0 /\ ioctlRefused(p, FileOf[p])
  /\ Step(p, "ioctl", "close")
  /\ UNCHANGED <<program, sent>>

callWrite(p) ==
  /\ step[p] = "transfer" /\ program[p].name = "message_sender"
  /\ writeStart(p, FileOf[p], program[p].text)
  /\ UNCHANGED programVars

callWriteTooLong(p) ==
  /\ program[p].name = "message_sender" /\ ~ properLength(program[p].text)
  /\ writeRefused(p, FileOf[p], program[p].text) /\ ret'.error = "EMSGSIZE"
  /\ Step(p, "transfer", "close")
  /\ UNCHANGED <<program, sent>>

callRead(p) ==
  /\ step[p] = "transfer" /\ program[p].name = "message_reader"
  /\ readStart(p, FileOf[p], BUF_LEN)
  /\ UNCHANGED programVars

(* The device goes on with a call.  The programs have buffers of BUF_LEN   *)
(* bytes in memory that is there.                                          *)
insideCall(p) ==
  /\ Finish(p) /\ pc'[p] # "idle"
  /\ UNCHANGED programVars

Returns(p) ==
  Finish(p) /\ pc'[p] = "idle" /\ ret'.error \notin {"ENOSPC", "EFAULT"}

ioctlReturns(p) ==
  /\ Returns(p)
  /\ Step(p, "ioctl", IF ret'.error = "none" THEN "transfer" ELSE "close")
  /\ UNCHANGED <<program, sent>>

transferReturns(p) ==
  /\ Returns(p) /\ Step(p, "transfer", "close")
  /\ sent' = IF program[p].name = "message_sender" /\ ret'.error = "none"
             THEN [sent EXCEPT ![MinorOf[FileOf[p]]][program[p].channel] =
                     program[p].text]
             ELSE sent
  /\ UNCHANGED program

(* By close, or by the kernel when a program exits before it.              *)
closeSlot(p) ==
  /\ Step(p, "close", "open") /\ slot_release(FileOf[p])
  /\ program' = [program EXCEPT ![p] = NoProgram]
  /\ UNCHANGED sent

Begin(p) ==
  \/ openSlot(p) \/ callIoctl(p) \/ callIoctlZero(p) \/ callWrite(p)
  \/ callWriteTooLong(p) \/ callRead(p)

Proceed(p) ==
  insideCall(p) \/ ioctlReturns(p) \/ transferReturns(p) \/ closeSlot(p)

load   == slot_init /\ UNCHANGED programVars
unload == slot_cleanup /\ sent' = NothingSent /\ UNCHANGED <<program, step>>

runPrograms ==
  /\ callers = "programs"
  /\ \/ load \/ unload
     \/ \E p \in Processes : Proceed(p) \/ (AllIdle /\ Begin(p))

callAnything == callers = "any" /\ TurnsNext /\ UNCHANGED programVars

ProgramsNext == (runPrograms \/ callAnything) /\ UNCHANGED callers

ProgramsSpec == ProgramsInit /\ [][ProgramsNext]_allVars

-----------------------------------------------------------------------------
(* A reader prints the whole of the message that was last sent to its      *)
(* channel, whichever processes were between ioctl and close meanwhile,    *)
(* and fails if there is none.  A message sent to a negative channel is    *)
(* never read, although the sender succeeded, nor in place of another.     *)
ReadsLastSent ==
  [][\A p \in Processes :
       transferReturns(p) /\ program[p].name = "message_reader" =>
         LET m == sent[MinorOf[FileOf[p]]][program[p].channel] IN
         ret' = IF m = <<>> \/ program[p].channel < 0
                THEN Slots!Failed("EWOULDBLOCK") ELSE Slots!Success(m)]_allVars
=============================================================================
