---------------------------- MODULE MessageSlot ----------------------------
(***************************************************************************)
(* The character device of 3/message_slot.c.  The kernel calls device_read,*)
(* device_write and device_ioctl from any process at any time, and the     *)
(* module takes no lock: a step here is the code between two accesses to   *)
(* memory that another call can reach.                                     *)
(***************************************************************************)
EXTENDS Integers, Sequences, FiniteSets

CONSTANTS
  Processes,
  Files,        (* the open files; two processes may share one             *)
  Minors,       (* the device files                                        *)
  MinorOf,      (* the device a file belongs to                            *)
  Ids,          (* the channel numbers the callers use, none of them 0     *)
  Bytes,
  Writable,     (* the buffers that callers pass to write                  *)
  BUF_LEN,
  IdLimit,      (* 2^32: a channel_id is an unsigned int, the argument of  *)
                (* an ioctl an unsigned long                               *)
  Garbage,      (* what an uninitialized byte of the stack holds           *)
  MaxChannels   (* bound: kmalloc fails when there are that many channels  *)

ASSUME SlotAssumption ==
  /\ MinorOf \in [Files -> Minors]
  /\ Ids \subseteq Nat \ {0}
  /\ BUF_LEN \in Nat \ {0}
  /\ IdLimit \in Nat \ {0}
  /\ Writable \subseteq Seq(Bytes)
  /\ Garbage \notin Bytes
  /\ MaxChannels \in Nat \ {0}

NULL == 0
Channels == 1 .. MaxChannels

VARIABLES
  loaded,                   (* between slot_init and slot_cleanup          *)
  channelHeadsForMinorKey,
  channel_id, message_length, message, next,  (* struct channel            *)
  allocated,                (* how many channels kmalloc has returned      *)
  opened, private_data      (* of a struct file                            *)

(* A call in progress: where it is, its arguments and its local variables. *)
VARIABLES pc, file, param, currChannel, buffer, i

(* History: the result of the last call that returned, the channel a file  *)
(* was last set to, and the last message written into each.                *)
VARIABLES ret, asked, lastWritten

heap    == <<channelHeadsForMinorKey, channel_id, message_length, message,
             next, allocated>>
locals  == <<file, param, currChannel, buffer, i>>
history == <<ret, asked, lastWritten>>
vars    == <<loaded, heap, opened, private_data, pc, locals, history>>

(* Channels whose number did not fit are told apart by their place.        *)
Slots == INSTANCE SlotMap WITH
  MaxLength <- BUF_LEN, box <- lastWritten, chosen <- asked,
  TooLarge <- {id \in Ids : id >= IdLimit},
  Hidden <- {IdLimit + a : a \in Channels}
Name(p, a) == IF param[p] < IdLimit THEN param[p] ELSE IdLimit + a

TypeOK ==
  /\ loaded \in BOOLEAN
  /\ channelHeadsForMinorKey \in [Minors -> Channels \cup {NULL}]
  /\ channel_id \in [Channels -> 0 .. IdLimit - 1]
  /\ message_length \in [Channels -> 0 .. BUF_LEN]
  /\ message \in [Channels -> [1 .. BUF_LEN -> Bytes \cup {Garbage, 0}]]
  /\ next \in [Channels -> Channels \cup {NULL}]
  /\ allocated \in 0 .. MaxChannels
  /\ opened \in [Files -> BOOLEAN]
  /\ private_data \in [Files -> Channels \cup {NULL}]
  /\ pc \in [Processes -> {"idle", "head", "walk", "append", "first",
                           "link", "set", "length", "store", "test", "fetch"}]
  /\ file \in [Processes -> Files \cup {NULL}]
  /\ param \in [Processes -> Ids \cup 0 .. BUF_LEN]
  /\ currChannel \in [Processes -> Channels \cup {NULL}]
  /\ buffer \in [Processes -> Seq(Bytes \cup {Garbage, 0})]
  /\ i \in [Processes -> 0 .. BUF_LEN]

Blank == [k \in 1 .. BUF_LEN |-> 0]

Init ==
  /\ loaded = FALSE
  /\ channelHeadsForMinorKey = [n \in Minors |-> NULL]
  /\ channel_id = [a \in Channels |-> 0]
  /\ message_length = [a \in Channels |-> 0]
  /\ message = [a \in Channels |-> Blank]
  /\ next = [a \in Channels |-> NULL]
  /\ allocated = 0
  /\ opened = [f \in Files |-> FALSE]
  /\ private_data = [f \in Files |-> NULL]
  /\ pc = [p \in Processes |-> "idle"]
  /\ file = [p \in Processes |-> NULL]
  /\ param = [p \in Processes |-> 0]
  /\ currChannel = [p \in Processes |-> NULL]
  /\ buffer = [p \in Processes |-> <<>>]
  /\ i = [p \in Processes |-> 0]
  /\ Slots!Init

-----------------------------------------------------------------------------
slot_init ==
  /\ ~ loaded /\ loaded' = TRUE
  /\ channelHeadsForMinorKey' = [n \in Minors |-> NULL]
  /\ UNCHANGED <<channel_id, message_length, message, next, allocated, opened,
                 private_data, pc, locals, history>>

(* The kernel unloads a module only when no file of it is open.  Channels  *)
(* that no list reaches any more are not freed.                            *)
slot_cleanup ==
  /\ loaded /\ \A f \in Files : ~ opened[f]
  /\ loaded' = FALSE
  /\ allocated' = 0
  /\ channel_id' = [a \in Channels |-> 0]
  /\ message_length' = [a \in Channels |-> 0]
  /\ message' = [a \in Channels |-> Blank]
  /\ next' = [a \in Channels |-> NULL]
  /\ lastWritten' = Slots!Empty
  /\ UNCHANGED <<channelHeadsForMinorKey, opened, private_data, pc, locals,
                 ret, asked>>

device_open(f) ==
  /\ loaded /\ ~ opened[f]
  /\ opened' = [opened EXCEPT ![f] = TRUE]
  /\ private_data' = [private_data EXCEPT ![f] = NULL]
  /\ asked' = [asked EXCEPT ![f] = 0]
  /\ UNCHANGED <<loaded, heap, pc, locals, ret, lastWritten>>

NoCall(f) == \A p \in Processes : pc[p] # "idle" => file[p] # f

slot_release(f) ==
  /\ opened[f] /\ NoCall(f)
  /\ opened' = [opened EXCEPT ![f] = FALSE]
  /\ asked' = [asked EXCEPT ![f] = 0]
  /\ UNCHANGED <<loaded, heap, private_data, pc, locals, ret, lastWritten>>

-----------------------------------------------------------------------------
Goto(p, l) == pc' = [pc EXCEPT ![p] = l]

Ready(p, f) == opened[f] /\ pc[p] = "idle"

Call(p, f, l) ==
  /\ Ready(p, f) /\ Goto(p, l)
  /\ file' = [file EXCEPT ![p] = f]

(* A call that returns leaves no local variable behind.                    *)
Return(p, r) ==
  /\ Goto(p, "idle") /\ ret' = r
  /\ file' = [file EXCEPT ![p] = NULL]
  /\ param' = [param EXCEPT ![p] = 0]
  /\ currChannel' = [currChannel EXCEPT ![p] = NULL]
  /\ buffer' = [buffer EXCEPT ![p] = <<>>]
  /\ i' = [i EXCEPT ![p] = 0]

(* A call that is refused, or that fails before it changed anything.       *)
Refuse(p, e) ==
  /\ Return(p, Slots!Failed(e))
  /\ UNCHANGED <<loaded, heap, opened, private_data, asked, lastWritten>>

(* device_ioctl walks the list of its minor, and reads every pointer when  *)
(* it gets there.                                                          *)
ioctl(p, f, id) ==
  /\ Call(p, f, "head")
  /\ param' = [param EXCEPT ![p] = id]
  /\ UNCHANGED <<loaded, heap, opened, private_data, currChannel, buffer, i,
                 history>>

(* The channel number 0, or another command.                               *)
ioctlRefused(p, f) == Ready(p, f) /\ Refuse(p, "EINVAL")

ioctlHead(p) ==
  /\ pc[p] = "head"
  /\ LET first == channelHeadsForMinorKey[MinorOf[file[p]]] IN
       /\ currChannel' = [currChannel EXCEPT ![p] = first]
       /\ Goto(p, IF first = NULL THEN "first" ELSE "walk")
  /\ UNCHANGED <<loaded, heap, opened, private_data, file, param, buffer, i,
                 history>>

SetFile(p, a) ==
  /\ private_data' = [private_data EXCEPT ![file[p]] = a]
  /\ asked' = [asked EXCEPT ![file[p]] = Name(p, a)]
  /\ Return(p, Slots!Success(<<>>))

NeverTheLastBug(p) ==
  /\ next[currChannel[p]] # NULL
  /\ channel_id[currChannel[p]] = param[p]
isFound(p) == channel_id[currChannel[p]] = param[p]

ioctlFound(p) ==
  /\ pc[p] = "walk" /\ isFound(p)
  /\ SetFile(p, currChannel[p])
  /\ UNCHANGED <<loaded, heap, opened, lastWritten>>

ioctlWalk(p) ==
  /\ pc[p] = "walk" /\ ~ isFound(p)
  /\ LET after == next[currChannel[p]] IN
       IF after = NULL
       THEN Goto(p, "append") /\ UNCHANGED currChannel
       ELSE /\ currChannel' = [currChannel EXCEPT ![p] = after]
            /\ UNCHANGED pc
  /\ UNCHANGED <<loaded, heap, opened, private_data, file, param, buffer, i,
                 history>>

(* A new channel, linked where the call found the end of the list or no    *)
(* list at all, whatever is there now.  The file is set to it in a step    *)
(* after or before that.                                                   *)
newChannel(p) ==
  /\ allocated < MaxChannels
  /\ allocated' = allocated + 1
  /\ channel_id' = [channel_id EXCEPT ![allocated + 1] = param[p] % IdLimit]
  /\ currChannel' = [currChannel EXCEPT ![p] = allocated + 1]
  /\ UNCHANGED <<loaded, message_length, message, opened, file, param, buffer,
                 i>>

linkLast(p) == next' = [next EXCEPT ![currChannel[p]] = allocated + 1]

ioctlAppend(p) ==
  /\ pc[p] = "append" /\ newChannel(p) /\ linkLast(p)
  /\ Goto(p, "set")
  /\ UNCHANGED <<channelHeadsForMinorKey, private_data, history>>

ioctlSet(p) ==
  /\ pc[p] = "set" /\ SetFile(p, currChannel[p])
  /\ UNCHANGED <<loaded, heap, opened, lastWritten>>

ioctlFirst(p) ==
  /\ pc[p] = "first" /\ newChannel(p)
  /\ private_data' = [private_data EXCEPT ![file[p]] = allocated + 1]
  /\ Goto(p, "link")
  /\ UNCHANGED <<channelHeadsForMinorKey, next, history>>

ioctlLink(p) ==
  /\ pc[p] = "link"
  /\ channelHeadsForMinorKey' =
       [channelHeadsForMinorKey EXCEPT ![MinorOf[file[p]]] = currChannel[p]]
  /\ asked' = [asked EXCEPT ![file[p]] = Name(p, currChannel[p])]
  /\ Return(p, Slots!Success(<<>>))
  /\ UNCHANGED <<loaded, channel_id, message_length, message, next, allocated,
                 opened, private_data, lastWritten>>

ioctlNoMemory(p) ==
  pc[p] \in {"append", "first"} /\ Refuse(p, "ENOMEM")

-----------------------------------------------------------------------------
(* device_write copies the caller's buffer to its stack, then the length   *)
(* and byte after byte into the channel, as long as the length says that   *)
(* the channel has by now.                                                 *)
LongerByOneBug(m) == Len(m) \in 1 .. BUF_LEN + 1
properLength(m) == Len(m) \in 1 .. BUF_LEN

writeRefused(p, f, m) ==
  /\ Ready(p, f)
  /\ \/ Refuse(p, "EINVAL")  (* no channel, or no buffer                   *)
     \/ private_data[f] # NULL /\ ~ properLength(m) /\ Refuse(p, "EMSGSIZE")
     \/ private_data[f] # NULL /\ properLength(m) /\ Refuse(p, "EFAULT")

writeStart(p, f, m) ==
  /\ Call(p, f, "length") /\ private_data[f] # NULL /\ properLength(m)
  /\ currChannel' = [currChannel EXCEPT ![p] = private_data[f]]
  /\ buffer' = [buffer EXCEPT ![p] = m]
  /\ UNCHANGED <<loaded, heap, opened, private_data, param, i, history>>

KeepsOldLengthBug(p) == UNCHANGED message_length
setLength(p) ==
  message_length' = [message_length EXCEPT ![currChannel[p]] = Len(buffer[p])]

writeLength(p) ==
  /\ pc[p] = "length" /\ setLength(p)
  /\ i' = [i EXCEPT ![p] = 0]
  /\ Goto(p, "store")
  /\ UNCHANGED <<loaded, channelHeadsForMinorKey, channel_id, message, next,
                 allocated, opened, private_data, file, param, currChannel,
                 buffer, history>>

More(p) == i[p] < message_length[currChannel[p]]

writeByte(p) ==
  /\ pc[p] = "store" /\ More(p)
  /\ i' = [i EXCEPT ![p] = i[p] + 1]
  /\ message' = [message EXCEPT ![currChannel[p]][i[p] + 1] =
                   IF i[p] < Len(buffer[p]) THEN buffer[p][i[p] + 1]
                                            ELSE Garbage]
  /\ UNCHANGED <<loaded, channelHeadsForMinorKey, channel_id, message_length,
                 next, allocated, opened, private_data, pc, file, param,
                 currChannel, buffer, history>>

writeEnd(p) ==
  /\ pc[p] = "store" /\ ~ More(p)
  /\ private_data' = [private_data EXCEPT ![file[p]] = currChannel[p]]
  /\ lastWritten' = [lastWritten EXCEPT ![MinorOf[file[p]]]
                       [asked[file[p]]] = buffer[p]]
  /\ Return(p, Slots!Success(<<>>))
  /\ UNCHANGED <<loaded, heap, opened, asked>>

-----------------------------------------------------------------------------
(* device_read looks at the length of the channel several times: in its    *)
(* tests and before every byte it copies to the caller.                    *)
readStart(p, f, length) ==
  /\ Call(p, f, "test") /\ private_data[f] # NULL
  /\ currChannel' = [currChannel EXCEPT ![p] = private_data[f]]
  /\ param' = [param EXCEPT ![p] = length]
  /\ UNCHANGED <<loaded, heap, opened, private_data, buffer, i, history>>

readUnset(p, f) == Ready(p, f) /\ private_data[f] = NULL /\ Refuse(p, "EINVAL")

readRefused(p) ==
  /\ pc[p] = "test"
  /\ \/ Refuse(p, "ENOSPC")  (* no buffer, or one too small                *)
     \/ message_length[currChannel[p]] = 0 /\ Refuse(p, "EWOULDBLOCK")

readTest(p) ==
  /\ pc[p] = "test" /\ message_length[currChannel[p]] \in 1 .. param[p]
  /\ Goto(p, "fetch")
  /\ UNCHANGED <<loaded, heap, opened, private_data, locals, history>>

readByte(p) ==
  /\ pc[p] = "fetch" /\ More(p)
  /\ i' = [i EXCEPT ![p] = i[p] + 1]
  /\ buffer' = [buffer EXCEPT ![p] =
                  Append(buffer[p], message[currChannel[p]][i[p] + 1])]
  /\ UNCHANGED <<loaded, heap, opened, private_data, pc, file, param,
                 currChannel, history>>

readFault(p) == pc[p] = "fetch" /\ More(p) /\ Refuse(p, "EFAULT")

readEnd(p) ==
  /\ pc[p] = "fetch" /\ ~ More(p)
  /\ Return(p, Slots!Success(buffer[p]))
  /\ UNCHANGED <<loaded, heap, opened, private_data, asked, lastWritten>>

-----------------------------------------------------------------------------
Finish(p) ==
  \/ ioctlHead(p) \/ ioctlFound(p) \/ ioctlWalk(p) \/ ioctlAppend(p)
  \/ ioctlFirst(p) \/ ioctlNoMemory(p) \/ ioctlSet(p) \/ ioctlLink(p)
  \/ writeLength(p) \/ writeByte(p) \/ writeEnd(p)
  \/ readRefused(p) \/ readTest(p) \/ readByte(p) \/ readFault(p) \/ readEnd(p)

Start(p, f) ==
  \/ ioctlRefused(p, f) \/ \E id \in Ids : ioctl(p, f, id)
  \/ \E m \in Writable : writeRefused(p, f, m) \/ writeStart(p, f, m)
  \/ \E n \in 0 .. BUF_LEN : readStart(p, f, n)
  \/ readUnset(p, f)

Administer ==
  \/ slot_init \/ slot_cleanup
  \/ \E f \in Files : device_open(f) \/ slot_release(f)

Next ==
  \/ Administer
  \/ \E p \in Processes : Finish(p) \/ \E f \in Files : Start(p, f)

Spec == Init /\ [][Next]_vars

(* The callers take turns: a call starts when no other is in progress.     *)
AllIdle == \A p \in Processes : pc[p] = "idle"
TurnsNext ==
  \/ Administer
  \/ \E p \in Processes :
       Finish(p) \/ (AllIdle /\ \E f \in Files : Start(p, f))
TurnsSpec == Init /\ [][TurnsNext]_vars

-----------------------------------------------------------------------------
(* Callers that take turns find a map from channels to messages: a channel *)
(* that was set once is found again, also from another file, holds exactly *)
(* the last message written, and shares it with no other channel.  A       *)
(* number that does not fit into channel_id gets an empty channel each     *)
(* time, which takes no message from anybody else.                         *)
KeepsMessages == Slots!Spec

(* The channels that the links lead to from a, and a itself: the least set *)
(* with a in it that no link leads out of.                                 *)
Closed(S) == \A a \in S : next[a] \in S \cup {NULL}
From(a)   == {b \in Channels :
                \A S \in SUBSET Channels : a \in S /\ Closed(S) => b \in S}

Listed(n) ==
  LET head == channelHeadsForMinorKey[n]
  IN IF head = NULL THEN {} ELSE From(head)

(* However the calls interleave, a list stays a list: it never leads back  *)
(* to an earlier element, no two elements lead to the same one, and none   *)
(* repeats the number of another.  So every walk along it ends.  Nor does  *)
(* a length exceed the buffer, so a copy that goes on to a length another  *)
(* call has set stays inside the channel.                                  *)
ListsSound ==
  \A n \in Minors : \A a \in Listed(n) :
    /\ next[a] # channelHeadsForMinorKey[n]
    /\ message_length[a] <= BUF_LEN
    /\ \A b \in Listed(n) \ {a} :
         /\ channel_id[a] # channel_id[b]
         /\ next[a] # next[b] \/ next[a] = NULL

(* "getting one before last in list, and adding to it, if don't exist it   *)
(* is the head" (3/message_slot.c:151): a channel that a file was set to   *)
(* is in the list of its minor, where every later ioctl looks for it, once *)
(* no call is in progress that may still link it.                          *)
ChannelsListed ==
  \A f \in Files : opened[f] /\ private_data[f] # NULL /\ NoCall(f) =>
    private_data[f] \in Listed(MinorOf[f])
=============================================================================
