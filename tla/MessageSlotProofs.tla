------------------------- MODULE MessageSlotProofs -------------------------
(***************************************************************************)
(* For any number of processes that are in the driver of 3/message_slot.c  *)
(* at once: its heap keeps its types, and the lists of channels no loops,  *)
(* no forks and no number twice, as long as every number fits into the     *)
(* field that holds it.  Calls that take turns find a map from channels to *)
(* messages (SlotMap), and a program that reads gets what was last sent.   *)
(***************************************************************************)
EXTENDS MessagePrograms, SequenceTheorems, TLAPS

(* The places of a call that use a channel.                                *)
Refers    == {"walk", "append", "set", "link", "length", "store", "test",
              "fetch"}

(* The places of ioctl that use the number it was called with.             *)
Searching == {"head", "walk", "append", "first", "set", "link"}

(* Whoever is in the driver has an open file of the loaded module; what a  *)
(* call or a file refers to is a channel that was allocated; a write in    *)
(* progress has a message of a legal length.                               *)
Handles ==
  /\ ~ loaded => allocated = 0
  /\ \A f \in Files : opened[f] => loaded /\ private_data[f] <= allocated
  /\ \A p \in Processes : pc[p] # "idle" => file[p] \in Files /\ opened[file[p]]
  /\ \A p \in Processes : pc[p] \in Refers => currChannel[p] \in 1 .. allocated
  /\ \A p \in Processes : pc[p] \in Searching => param[p] \in Ids
  /\ \A p \in Processes : pc[p] = "length" => Len(buffer[p]) \in 1 .. BUF_LEN

(* The links lead to channels that kmalloc returned later, no two of them  *)
(* to the same one, and none to the head of a list or to a channel that is *)
(* about to become one.                                                    *)
Chained ==
  /\ loaded => \A n \in Minors : channelHeadsForMinorKey[n] <= allocated
  /\ \A a \in Channels : next[a] # NULL => a < next[a] /\ next[a] <= allocated
  /\ \A a, b \in Channels : next[a] = next[b] => a = b \/ next[a] = NULL
  /\ \A a \in Channels, n \in Minors :
       next[a] = channelHeadsForMinorKey[n] => next[a] = NULL
  /\ \A a \in Channels, p \in Processes :
       pc[p] = "link" => next[a] # currChannel[p]

(* At the start nothing is loaded and every call is idle.                  *)
LEMMA TypeInit == Init => TypeOK
<1> SUFFICES ASSUME Init PROVE TypeOK
  OBVIOUS
<1>0. BUF_LEN \in Nat \ {0} /\ IdLimit \in Nat \ {0} /\ MaxChannels \in Nat \ {0}
  BY SlotAssumption
<1>1. loaded \in BOOLEAN /\ opened \in [Files -> BOOLEAN]
  BY Zenon DEF Init
<1>2. /\ channelHeadsForMinorKey \in [Minors -> Channels \cup {NULL}]
      /\ channel_id \in [Channels -> 0 .. IdLimit - 1]
      /\ message_length \in [Channels -> 0 .. BUF_LEN]
      /\ next \in [Channels -> Channels \cup {NULL}]
      /\ allocated \in 0 .. MaxChannels
      /\ private_data \in [Files -> Channels \cup {NULL}]
  BY <1>0 DEF Init, Channels
<1>3. message \in [Channels -> [1 .. BUF_LEN -> Bytes \cup {Garbage, 0}]]
  BY DEF Init, Blank
<1>4. /\ pc \in [Processes -> {"idle", "head", "walk", "append", "first",
                           "link", "set", "length", "store", "test", "fetch"}]
      /\ file \in [Processes -> Files \cup {NULL}]
      /\ param \in [Processes -> Ids \cup 0 .. BUF_LEN]
      /\ currChannel \in [Processes -> Channels \cup {NULL}]
      /\ i \in [Processes -> 0 .. BUF_LEN]
  BY <1>0 DEF Init
<1>5. buffer \in [Processes -> Seq(Bytes \cup {Garbage, 0})]
  BY EmptySeq DEF Init
<1> QED BY <1>1, <1>2, <1>3, <1>4, <1>5, Zenon DEF TypeOK

(* The types, in parts: the channels, the open files, the calls.           *)
HeapOK ==
  /\ channelHeadsForMinorKey \in [Minors -> Channels \cup {NULL}]
  /\ channel_id \in [Channels -> 0 .. IdLimit - 1]
  /\ message_length \in [Channels -> 0 .. BUF_LEN]
  /\ message \in [Channels -> [1 .. BUF_LEN -> Bytes \cup {Garbage, 0}]]
  /\ next \in [Channels -> Channels \cup {NULL}]
  /\ allocated \in 0 .. MaxChannels

FilesOK ==
  /\ loaded \in BOOLEAN
  /\ opened \in [Files -> BOOLEAN]
  /\ private_data \in [Files -> Channels \cup {NULL}]

CallsOK ==
  /\ pc \in [Processes -> {"idle", "head", "walk", "append", "first",
                           "link", "set", "length", "store", "test", "fetch"}]
  /\ file \in [Processes -> Files \cup {NULL}]
  /\ param \in [Processes -> Ids \cup 0 .. BUF_LEN]
  /\ currChannel \in [Processes -> Channels \cup {NULL}]
  /\ buffer \in [Processes -> Seq(Bytes \cup {Garbage, 0})]
  /\ i \in [Processes -> 0 .. BUF_LEN]

(* TypeOK in three parts, for the variables of the heap, of the files and  *)
(* of the calls.                                                           *)
LEMMA TypeParts ==
  /\ TypeOK <=> HeapOK /\ FilesOK /\ CallsOK
  /\ TypeOK' <=> HeapOK' /\ FilesOK' /\ CallsOK'
BY DEF TypeOK, HeapOK, FilesOK, CallsOK

(* What the assumptions say of the numbers.                                *)
LEMMA Sizes ==
  /\ BUF_LEN \in Nat /\ BUF_LEN >= 1
  /\ IdLimit \in Nat /\ IdLimit >= 1
  /\ MaxChannels \in Nat /\ MaxChannels >= 1
  /\ MinorOf \in [Files -> Minors] /\ Ids \subseteq Nat /\ 0 \notin Ids
  /\ Channels = 1 .. MaxChannels /\ NULL = 0
BY SlotAssumption DEF Channels, NULL

(* A number stored in fewer bits is below their limit.                     *)
LEMMA Remainders == \A k \in Nat, m \in Nat : m >= 1 => k % m \in 0 .. m - 1
OBVIOUS

(* A call that returns keeps the types of the calls.                       *)
LEMMA ReturnOK ==
  ASSUME CallsOK, NEW p \in Processes, NEW r, Return(p, r) PROVE CallsOK'
BY EmptySeq, Sizes DEF CallsOK, Return, Goto

(* A new channel is one of the channels, and the number stored in it fits. *)
LEMMA NewChannel ==
  ASSUME HeapOK, CallsOK, NEW p \in Processes, newChannel(p)
  PROVE  allocated + 1 \in Channels /\ param[p] % IdLimit \in 0 .. IdLimit - 1
<1>1. allocated + 1 \in Channels
  BY Sizes DEF newChannel, HeapOK
<1>2. param[p] \in Nat
  <2>1. param[p] \in Ids \cup 0 .. BUF_LEN
    BY DEF CallsOK
  <2>2. CASE param[p] \in Ids
    BY <2>2, Sizes
  <2>3. CASE param[p] \in 0 .. BUF_LEN
    BY <2>3, Sizes
  <2> QED BY <2>1, <2>2, <2>3
<1> QED BY <1>1, <1>2, Sizes, Remainders

(* The byte a call is about to read or write is inside its channel.        *)
LEMMA InsideChannel ==
  ASSUME HeapOK, CallsOK, Handles, NEW p \in Processes,
         pc[p] \in {"store", "fetch"}, More(p)
  PROVE  /\ currChannel[p] \in Channels
         /\ i[p] + 1 \in 1 .. BUF_LEN /\ i[p] + 1 \in 0 .. BUF_LEN
         /\ message[currChannel[p]] \in [1 .. BUF_LEN -> Bytes \cup {Garbage, 0}]
<1>1. currChannel[p] \in Channels
  BY Sizes DEF HeapOK, Handles, Refers
<1>2. message_length[currChannel[p]] \in 0 .. BUF_LEN /\ i[p] \in 0 .. BUF_LEN
  BY <1>1 DEF HeapOK, CallsOK
<1>3. i[p] + 1 \in 1 .. BUF_LEN /\ i[p] + 1 \in 0 .. BUF_LEN
  <2>1. i[p] < message_length[currChannel[p]]
    BY DEF More
  <2> QED BY <1>2, <2>1, Sizes
<1>4. message[currChannel[p]] \in [1 .. BUF_LEN -> Bytes \cup {Garbage, 0}]
  BY <1>1 DEF HeapOK
<1> QED BY <1>1, <1>3, <1>4

(* Every step keeps the types.                                             *)
LEMMA TypeFinish ==
  ASSUME TypeOK, Handles, NEW p \in Processes, Finish(p) PROVE TypeOK'
<1>1. HeapOK /\ FilesOK /\ CallsOK
  BY TypeParts
<1>2. CASE ioctlHead(p)
  <2>1. HeapOK' /\ FilesOK'
    BY <1>1, <1>2 DEF ioctlHead, heap, HeapOK, FilesOK
  <2>2. channelHeadsForMinorKey[MinorOf[file[p]]] \in Channels \cup {NULL}
    BY <1>1, <1>2, Sizes DEF ioctlHead, HeapOK, Handles
  <2>3. CallsOK'
    BY <1>1, <1>2, <2>2 DEF ioctlHead, CallsOK, Goto
  <2> QED BY <2>1, <2>3, TypeParts
<1>3. CASE ioctlFound(p)
  <2>1. CallsOK' /\ HeapOK'
    BY <1>1, <1>3, ReturnOK DEF ioctlFound, SetFile, heap, HeapOK
  <2>2. FilesOK'
    BY <1>1, <1>3 DEF ioctlFound, SetFile, FilesOK, CallsOK
  <2> QED BY <2>1, <2>2, TypeParts
<1>4. CASE ioctlWalk(p)
  <2>1. HeapOK' /\ FilesOK'
    BY <1>1, <1>4 DEF ioctlWalk, heap, HeapOK, FilesOK
  <2>2. next[currChannel[p]] \in Channels \cup {NULL}
    BY <1>1, <1>4, Sizes DEF ioctlWalk, HeapOK, Handles, Refers
  <2>3. CallsOK'
    BY <1>1, <1>4, <2>2 DEF ioctlWalk, CallsOK, Goto
  <2> QED BY <2>1, <2>3, TypeParts
<1>5. CASE ioctlAppend(p)
  <2>1. allocated + 1 \in Channels /\ param[p] % IdLimit \in 0 .. IdLimit - 1
    BY <1>1, <1>5, NewChannel DEF ioctlAppend
  <2>2. HeapOK'
    <3>1. currChannel[p] \in Channels
      BY <1>1, <1>5, Sizes DEF ioctlAppend, Handles, Refers, HeapOK
    <3>2. next' \in [Channels -> Channels \cup {NULL}]
      BY <1>1, <1>5, <2>1, <3>1 DEF ioctlAppend, linkLast, HeapOK
    <3>3. allocated' \in 0 .. MaxChannels
      BY <1>1, <1>5, <2>1, Sizes DEF ioctlAppend, newChannel, HeapOK
    <3>4. channel_id' \in [Channels -> 0 .. IdLimit - 1]
      BY <1>1, <1>5, <2>1 DEF ioctlAppend, newChannel, HeapOK
    <3> QED BY <1>1, <1>5, <3>2, <3>3, <3>4 DEF ioctlAppend, newChannel, HeapOK
  <2>3. CallsOK' /\ FilesOK'
    BY <1>1, <1>5, <2>1 DEF ioctlAppend, newChannel, CallsOK, FilesOK, Goto
  <2> QED BY <2>2, <2>3, TypeParts
<1>6. CASE ioctlFirst(p)
  <2>1. allocated + 1 \in Channels /\ param[p] % IdLimit \in 0 .. IdLimit - 1
    BY <1>1, <1>6, NewChannel DEF ioctlFirst
  <2>2. HeapOK'
    <3>1. allocated' \in 0 .. MaxChannels
      BY <1>1, <1>6, <2>1, Sizes DEF ioctlFirst, newChannel, HeapOK
    <3>2. channel_id' \in [Channels -> 0 .. IdLimit - 1]
      BY <1>1, <1>6, <2>1 DEF ioctlFirst, newChannel, HeapOK
    <3> QED BY <1>1, <1>6, <3>1, <3>2 DEF ioctlFirst, newChannel, HeapOK
  <2>3. CallsOK' /\ FilesOK'
    BY <1>1, <1>6, <2>1 DEF ioctlFirst, newChannel, CallsOK, FilesOK, Goto
  <2> QED BY <2>2, <2>3, TypeParts
<1>7. CASE ioctlNoMemory(p)
  <2>1. CallsOK' /\ HeapOK' /\ FilesOK'
    BY <1>1, <1>7, ReturnOK DEF ioctlNoMemory, Refuse, heap, HeapOK, FilesOK
  <2> QED BY <2>1, TypeParts
<1>8. CASE ioctlSet(p)
  <2>1. CallsOK' /\ HeapOK'
    BY <1>1, <1>8, ReturnOK DEF ioctlSet, SetFile, heap, HeapOK
  <2>2. FilesOK'
    BY <1>1, <1>8 DEF ioctlSet, SetFile, FilesOK, CallsOK
  <2> QED BY <2>1, <2>2, TypeParts
<1>9. CASE ioctlLink(p)
  <2>1. CallsOK' /\ FilesOK'
    BY <1>1, <1>9, ReturnOK DEF ioctlLink, FilesOK
  <2>2. HeapOK'
    BY <1>1, <1>9 DEF ioctlLink, HeapOK, CallsOK
  <2> QED BY <2>1, <2>2, TypeParts
<1>10. CASE writeLength(p)
  <2>1. Len(buffer[p]) \in 0 .. BUF_LEN
    BY <1>10, Sizes DEF writeLength, Handles
  <2>2. HeapOK'
    BY <1>1, <1>10, <2>1 DEF writeLength, setLength, HeapOK
  <2>3. CallsOK' /\ FilesOK'
    BY <1>1, <1>10, Sizes DEF writeLength, CallsOK, FilesOK, Goto
  <2> QED BY <2>2, <2>3, TypeParts
<1>11. CASE writeByte(p)
  <2>1. /\ i[p] + 1 \in 1 .. BUF_LEN /\ i[p] + 1 \in 0 .. BUF_LEN
        /\ currChannel[p] \in Channels
    BY <1>1, <1>11, InsideChannel DEF writeByte
  <2>2. ASSUME i[p] < Len(buffer[p])
        PROVE  buffer[p][i[p] + 1] \in Bytes \cup {Garbage, 0}
    BY <1>1, <2>1, <2>2, ElementOfSeq, LenProperties DEF CallsOK
  <2> DEFINE byte == IF i[p] < Len(buffer[p]) THEN buffer[p][i[p] + 1] ELSE Garbage
  <2>3. byte \in Bytes \cup {Garbage, 0}
    BY <2>2
  <2>4. message' = [message EXCEPT ![currChannel[p]][i[p] + 1] = byte]
    BY <1>11 DEF writeByte
  <2> HIDE DEF byte
  <2>5. HeapOK'
    <3>1. message' \in [Channels -> [1 .. BUF_LEN -> Bytes \cup {Garbage, 0}]]
      BY <1>1, <2>1, <2>3, <2>4 DEF HeapOK
    <3> QED BY <1>1, <1>11, <3>1 DEF writeByte, HeapOK
  <2>6. CallsOK' /\ FilesOK'
    BY <1>1, <1>11, <2>1 DEF writeByte, CallsOK, FilesOK
  <2> QED BY <2>5, <2>6, TypeParts
<1>12. CASE writeEnd(p)
  <2>1. CallsOK' /\ HeapOK'
    BY <1>1, <1>12, ReturnOK DEF writeEnd, heap, HeapOK
  <2>2. FilesOK'
    BY <1>1, <1>12 DEF writeEnd, FilesOK, CallsOK
  <2> QED BY <2>1, <2>2, TypeParts
<1>13. CASE readRefused(p)
  <2>1. CallsOK' /\ HeapOK' /\ FilesOK'
    BY <1>1, <1>13, ReturnOK DEF readRefused, Refuse, heap, HeapOK, FilesOK
  <2> QED BY <2>1, TypeParts
<1>14. CASE readTest(p)
  <2>1. CallsOK' /\ HeapOK' /\ FilesOK'
    BY <1>1, <1>14 DEF readTest, heap, locals, HeapOK, FilesOK, CallsOK, Goto
  <2> QED BY <2>1, TypeParts
<1>15. CASE readByte(p)
  <2>1. /\ i[p] + 1 \in 0 .. BUF_LEN
        /\ message[currChannel[p]][i[p] + 1] \in Bytes \cup {Garbage, 0}
    BY <1>1, <1>15, InsideChannel DEF readByte
  <2>2. Append(buffer[p], message[currChannel[p]][i[p] + 1])
          \in Seq(Bytes \cup {Garbage, 0})
    BY <1>1, <2>1, AppendProperties DEF CallsOK
  <2>3. CallsOK' /\ HeapOK' /\ FilesOK'
    BY <1>1, <1>15, <2>1, <2>2 DEF readByte, heap, HeapOK, FilesOK, CallsOK
  <2> QED BY <2>3, TypeParts
<1>16. CASE readFault(p)
  <2>1. CallsOK' /\ HeapOK' /\ FilesOK'
    BY <1>1, <1>16, ReturnOK DEF readFault, Refuse, heap, HeapOK, FilesOK
  <2> QED BY <2>1, TypeParts
<1>17. CASE readEnd(p)
  <2>1. CallsOK' /\ HeapOK' /\ FilesOK'
    BY <1>1, <1>17, ReturnOK DEF readEnd, heap, HeapOK, FilesOK
  <2> QED BY <2>1, TypeParts
<1> QED BY <1>2, <1>3, <1>4, <1>5, <1>6, <1>7, <1>8, <1>9, <1>10, <1>11, <1>12,
           <1>13, <1>14, <1>15, <1>16, <1>17 DEF Finish

(* A call that starts, and every system call on a file, keeps the types    *)
(* ...                                                                     *)
LEMMA TypeStart ==
  ASSUME TypeOK, NEW p \in Processes, NEW f \in Files, Start(p, f)
  PROVE  TypeOK'
<1>1. HeapOK /\ FilesOK /\ CallsOK
  BY TypeParts
<1>2. ASSUME NEW e, Refuse(p, e) PROVE TypeOK'
  <2>1. CallsOK' /\ HeapOK' /\ FilesOK'
    BY <1>1, <1>2, ReturnOK DEF Refuse, heap, HeapOK, FilesOK
  <2> QED BY <2>1, TypeParts
<1>3. ASSUME NEW id \in Ids, ioctl(p, f, id) PROVE TypeOK'
  <2>1. CallsOK' /\ HeapOK' /\ FilesOK'
    BY <1>1, <1>3 DEF ioctl, Call, Goto, heap, HeapOK, FilesOK, CallsOK
  <2> QED BY <2>1, TypeParts
<1>4. ASSUME NEW m \in Writable, writeStart(p, f, m) PROVE TypeOK'
  <2>1. m \in Seq(Bytes \cup {Garbage, 0})
    BY SlotAssumption, SeqMonotonic
  <2>2. CallsOK'
    BY <1>1, <1>4, <2>1 DEF writeStart, Call, Goto, FilesOK, CallsOK
  <2>3. HeapOK' /\ FilesOK'
    BY <1>1, <1>4 DEF writeStart, heap, HeapOK, FilesOK
  <2> QED BY <2>2, <2>3, TypeParts
<1>5. ASSUME NEW n \in 0 .. BUF_LEN, readStart(p, f, n) PROVE TypeOK'
  <2>1. CallsOK' /\ HeapOK' /\ FilesOK'
    BY <1>1, <1>5 DEF readStart, Call, Goto, heap, HeapOK, FilesOK, CallsOK
  <2> QED BY <2>1, TypeParts
<1> QED BY <1>2, <1>3, <1>4, <1>5
        DEF Start, ioctlRefused, writeRefused, readUnset

(* ... as do loading and unloading the module.                             *)
LEMMA TypeAdminister == TypeOK /\ Administer => TypeOK'
<1> SUFFICES ASSUME TypeOK, Administer PROVE TypeOK'
  OBVIOUS
<1>1. HeapOK /\ FilesOK /\ CallsOK
  BY TypeParts
<1>2. CASE slot_init
  <2>1. CallsOK' /\ HeapOK' /\ FilesOK'
    BY <1>1, <1>2 DEF slot_init, locals, HeapOK, FilesOK, CallsOK
  <2> QED BY <2>1, TypeParts
<1>3. CASE slot_cleanup
  <2>1. CallsOK' /\ FilesOK'
    BY <1>1, <1>3 DEF slot_cleanup, locals, FilesOK, CallsOK
  <2>2. HeapOK'
    BY <1>1, <1>3, Sizes DEF slot_cleanup, HeapOK, Blank
  <2> QED BY <2>1, <2>2, TypeParts
<1>4. ASSUME NEW f \in Files, device_open(f) \/ slot_release(f) PROVE TypeOK'
  <2>1. CallsOK' /\ HeapOK' /\ FilesOK'
    BY <1>1, <1>4
       DEF device_open, slot_release, heap, locals, HeapOK, FilesOK, CallsOK
  <2> QED BY <2>1, TypeParts
<1> QED BY <1>2, <1>3, <1>4 DEF Administer

(* Every step of the module keeps the types.                               *)
LEMMA TypeStep == TypeOK /\ Handles /\ [Next]_vars => TypeOK'
<1>1. CASE UNCHANGED vars
  BY <1>1 DEF vars, heap, locals, TypeOK
<1> QED BY <1>1, TypeFinish, TypeStart, TypeAdminister DEF Next

-----------------------------------------------------------------------------
(* Before the module is loaded nobody refers to a channel.                 *)
LEMMA HandlesInit == Init => Handles
BY Sizes DEF Init, Handles, Refers, Searching

(* A step of a call refers to no channel but one that it found by          *)
(* following the lists or has just allocated: here the chains are needed.  *)
LEMMA HandlesFinish ==
  ASSUME TypeOK, Handles, Chained, NEW p \in Processes, Finish(p)
  PROVE  Handles'
<1>1. HeapOK /\ FilesOK /\ CallsOK
  BY TypeParts
<1> USE DEF Handles, Refers, Searching
<1>2. CASE ioctlHead(p)
  <2> DEFINE first == channelHeadsForMinorKey[MinorOf[file[p]]]
  <2>1. first \in Channels \cup {NULL} /\ first <= allocated
    BY <1>1, <1>2, Sizes DEF ioctlHead, Chained, HeapOK
  <2>2. first # NULL => first \in 1 .. allocated
    BY <1>1, <2>1, Sizes DEF HeapOK
  <2> HIDE DEF first
  <2>3. /\ currChannel' = [currChannel EXCEPT ![p] = first]
        /\ pc' = [pc EXCEPT ![p] = IF first = NULL THEN "first" ELSE "walk"]
    BY <1>2 DEF ioctlHead, Goto, first
  <2> QED BY <1>1, <1>2, <2>2, <2>3 DEF ioctlHead, heap, CallsOK
<1>3. CASE ioctlFound(p)
  BY <1>1, <1>3, Sizes DEF ioctlFound, SetFile, Return, Goto, heap, CallsOK, FilesOK
<1>4. CASE ioctlWalk(p)
  <2> DEFINE after == next[currChannel[p]]
  <2>1. after # NULL => after \in 1 .. allocated
    BY <1>1, <1>4, Sizes DEF ioctlWalk, Chained, HeapOK
  <2> HIDE DEF after
  <2>2. CASE after = NULL
    BY <1>1, <1>4, <2>2 DEF ioctlWalk, heap, CallsOK, Goto, after
  <2>3. CASE after # NULL
    <3>1. currChannel' = [currChannel EXCEPT ![p] = after] /\ pc' = pc
      BY <1>4, <2>3 DEF ioctlWalk, after
    <3> QED BY <1>1, <1>4, <2>1, <2>3, <3>1 DEF ioctlWalk, heap, CallsOK
  <2> QED BY <2>2, <2>3
<1>5. CASE ioctlAppend(p)
  <2>1. allocated \in Nat /\ allocated' = allocated + 1
    BY <1>1, <1>5, Sizes DEF ioctlAppend, newChannel, HeapOK
  <2>2. /\ ~ loaded' => allocated' = 0
        /\ \A f \in Files :
             opened'[f] => loaded' /\ private_data'[f] <= allocated'
    BY <1>1, <1>5, <2>1, Sizes DEF ioctlAppend, newChannel, FilesOK
  <2>3. \A q \in Processes : pc'[q] \in Refers => currChannel'[q] \in 1 .. allocated'
    BY <1>1, <1>5, <2>1 DEF ioctlAppend, newChannel, CallsOK, Goto
  <2>4. \A q \in Processes :
          /\ pc'[q] # "idle" => file'[q] \in Files /\ opened'[file'[q]]
          /\ pc'[q] \in Searching => param'[q] \in Ids
          /\ pc'[q] = "length" => Len(buffer'[q]) \in 1 .. BUF_LEN
    BY <1>1, <1>5 DEF ioctlAppend, newChannel, CallsOK, Goto
  <2> QED BY <2>2, <2>3, <2>4
<1>6. CASE ioctlFirst(p)
  <2>1. allocated \in Nat /\ allocated' = allocated + 1
    BY <1>1, <1>6, Sizes DEF ioctlFirst, newChannel, HeapOK
  <2>2. /\ ~ loaded' => allocated' = 0
        /\ \A f \in Files :
             opened'[f] => loaded' /\ private_data'[f] <= allocated'
    BY <1>1, <1>6, <2>1, Sizes DEF ioctlFirst, newChannel, FilesOK
  <2>3. \A q \in Processes : pc'[q] \in Refers => currChannel'[q] \in 1 .. allocated'
    BY <1>1, <1>6, <2>1 DEF ioctlFirst, newChannel, CallsOK, Goto
  <2>4. \A q \in Processes :
          /\ pc'[q] # "idle" => file'[q] \in Files /\ opened'[file'[q]]
          /\ pc'[q] \in Searching => param'[q] \in Ids
          /\ pc'[q] = "length" => Len(buffer'[q]) \in 1 .. BUF_LEN
    BY <1>1, <1>6 DEF ioctlFirst, newChannel, CallsOK, Goto
  <2> QED BY <2>2, <2>3, <2>4
<1>7. CASE ioctlNoMemory(p)
  BY <1>1, <1>7 DEF ioctlNoMemory, Refuse, Return, Goto, heap, CallsOK
<1>8. CASE ioctlSet(p)
  BY <1>1, <1>8, Sizes DEF ioctlSet, SetFile, Return, Goto, heap, CallsOK, FilesOK
<1>9. CASE ioctlLink(p)
  BY <1>1, <1>9, Sizes DEF ioctlLink, Return, Goto, CallsOK
<1>10. CASE writeLength(p)
  BY <1>1, <1>10 DEF writeLength, CallsOK, Goto
<1>11. CASE writeByte(p)
  BY <1>1, <1>11 DEF writeByte, CallsOK
<1>12. CASE writeEnd(p)
  BY <1>1, <1>12, Sizes DEF writeEnd, Return, Goto, heap, CallsOK, FilesOK
<1>13. CASE readRefused(p)
  <2>1. ASSUME NEW e, Refuse(p, e) PROVE Handles'
    BY <1>1, <2>1 DEF Refuse, Return, Goto, heap, CallsOK
  <2> QED BY <1>13, <2>1 DEF readRefused
<1>14. CASE readTest(p)
  BY <1>1, <1>14 DEF readTest, heap, locals, CallsOK, Goto
<1>15. CASE readByte(p)
  BY <1>1, <1>15 DEF readByte, heap, CallsOK
<1>16. CASE readFault(p)
  BY <1>1, <1>16 DEF readFault, Refuse, Return, Goto, heap, CallsOK
<1>17. CASE readEnd(p)
  BY <1>1, <1>17 DEF readEnd, Return, Goto, heap, CallsOK
<1> QED BY <1>2, <1>3, <1>4, <1>5, <1>6, <1>7, <1>8, <1>9, <1>10, <1>11, <1>12,
           <1>13, <1>14, <1>15, <1>16, <1>17 DEF Finish

(* A call starts on an open file, and a write or a read on the channel     *)
(* that the file was given.                                                *)
LEMMA HandlesStart ==
  ASSUME TypeOK, Handles, NEW p \in Processes, NEW f \in Files, Start(p, f)
  PROVE  Handles'
<1>1. HeapOK /\ FilesOK /\ CallsOK
  BY TypeParts
<1> USE DEF Handles, Refers, Searching
<1>2. ASSUME NEW e, Refuse(p, e) PROVE Handles'
  BY <1>1, <1>2 DEF Refuse, Return, Goto, heap, CallsOK
<1>3. ASSUME NEW id \in Ids, ioctl(p, f, id) PROVE Handles'
  BY <1>1, <1>3 DEF ioctl, Call, Ready, Goto, heap, CallsOK
<1>4. ASSUME NEW m \in Writable, writeStart(p, f, m) PROVE Handles'
  <2>1. private_data[f] \in 1 .. allocated /\ Len(m) \in 1 .. BUF_LEN
    BY <1>1, <1>4, Sizes DEF writeStart, Call, Ready, properLength, FilesOK, HeapOK
  <2> QED BY <1>1, <1>4, <2>1 DEF writeStart, Call, Ready, Goto, heap, CallsOK
<1>5. ASSUME NEW n \in 0 .. BUF_LEN, readStart(p, f, n) PROVE Handles'
  <2>1. private_data[f] \in 1 .. allocated
    BY <1>1, <1>5, Sizes DEF readStart, Call, Ready, FilesOK, HeapOK
  <2> QED BY <1>1, <1>5, <2>1 DEF readStart, Call, Ready, Goto, heap, CallsOK
<1> QED BY <1>2, <1>3, <1>4, <1>5
        DEF Start, ioctlRefused, writeRefused, readUnset

(* The module is not unloaded while a file is open.                        *)
LEMMA HandlesAdminister == TypeOK /\ Handles /\ Administer => Handles'
<1> SUFFICES ASSUME TypeOK, Handles, Administer PROVE Handles'
  OBVIOUS
<1>1. HeapOK /\ FilesOK /\ CallsOK
  BY TypeParts
<1> USE DEF Handles, Refers, Searching
<1>2. CASE slot_init
  BY <1>2 DEF slot_init, locals
<1>3. CASE slot_cleanup
  BY <1>3 DEF slot_cleanup, locals
<1>4. ASSUME NEW f \in Files, device_open(f) PROVE Handles'
  BY <1>1, <1>4, Sizes DEF device_open, heap, locals, FilesOK, HeapOK
<1>5. ASSUME NEW f \in Files, slot_release(f) PROVE Handles'
  BY <1>1, <1>5 DEF slot_release, NoCall, heap, locals, FilesOK
<1> QED BY <1>2, <1>3, <1>4, <1>5 DEF Administer

(* So every step keeps what is referred to allocated.                      *)
LEMMA HandlesStep == TypeOK /\ Handles /\ Chained /\ [Next]_vars => Handles'
<1>1. CASE UNCHANGED vars
  BY <1>1 DEF vars, heap, locals, Handles
<1> QED BY <1>1, HandlesFinish, HandlesStart, HandlesAdminister DEF Next

-----------------------------------------------------------------------------
(* There are no links at first.                                            *)
LEMMA ChainedInit == Init => Chained
BY Sizes DEF Init, Chained

(* A step that leaves the links, the heads and the number of channels, and *)
(* brings no other call to where it links a channel, keeps the chains.     *)
LEMMA ChainedKept ==
  ASSUME Chained, UNCHANGED <<loaded, heap>>,
         \A q \in Processes :
           pc'[q] = "link" => pc[q] = "link" /\ currChannel'[q] = currChannel[q]
  PROVE  Chained'
BY DEF Chained, heap

(* A step of a call links a channel to the one that it has just allocated, *)
(* which nothing led to before, or makes that one a head: no chain forks,  *)
(* none comes back.                                                        *)
LEMMA ChainedFinish ==
  ASSUME TypeOK, Handles, Chained, NEW p \in Processes, Finish(p)
  PROVE  Chained'
<1>1. HeapOK /\ FilesOK /\ CallsOK
  BY TypeParts
<1>2. CASE ioctlAppend(p)
  <2>1. /\ allocated + 1 \in Channels /\ allocated' = allocated + 1
        /\ allocated \in 0 .. MaxChannels /\ currChannel[p] \in 1 .. allocated
        /\ next' = [next EXCEPT ![currChannel[p]] = allocated + 1]
    BY <1>1, <1>2, NewChannel
       DEF ioctlAppend, newChannel, linkLast, HeapOK, Handles, Refers
  <2>2. /\ currChannel[p] \in Channels
        /\ \A a \in Channels : /\ next'[a] \in Channels \cup {NULL}
                               /\ next[a] \in Channels \cup {NULL}
                               /\ a # currChannel[p] => next'[a] = next[a]
        /\ next'[currChannel[p]] = allocated + 1
    <3>1. currChannel[p] \in Channels
      BY <2>1, Sizes
    <3>2. next \in [Channels -> Channels \cup {NULL}]
      BY <1>1 DEF HeapOK
    <3> QED BY <2>1, <3>1, <3>2
  <2>3. \A a \in Channels : next[a] <= allocated
    BY <2>1, <2>2, Sizes DEF Chained
  <2>4. loaded' => \A n \in Minors : channelHeadsForMinorKey'[n] <= allocated'
    <3>1. UNCHANGED <<loaded, channelHeadsForMinorKey>>
      BY <1>2 DEF ioctlAppend, newChannel
    <3>2. \A n \in Minors : channelHeadsForMinorKey[n] \in Nat
      BY <1>1, Sizes DEF HeapOK
    <3> QED BY <2>1, <3>1, <3>2, Sizes DEF Chained
  <2>5. \A a \in Channels :
          next'[a] # NULL => a < next'[a] /\ next'[a] <= allocated'
    BY <2>1, <2>2, Sizes DEF Chained
  <2>6. \A a, b \in Channels :
          next'[a] = next'[b] => a = b \/ next'[a] = NULL
    BY <2>1, <2>2, <2>3 DEF Chained
  <2>7. \A a \in Channels, n \in Minors :
          next'[a] = channelHeadsForMinorKey'[n] => next'[a] = NULL
    <3>1. loaded
      BY <1>1, <1>2 DEF ioctlAppend, Handles
    <3>2. \A n \in Minors : channelHeadsForMinorKey[n] # allocated + 1
      BY <1>1, <2>1, <3>1, Sizes DEF Chained, HeapOK
    <3> QED BY <1>2, <2>1, <2>2, <3>2 DEF ioctlAppend, Chained
  <2>8. \A a \in Channels, q \in Processes :
          pc'[q] = "link" => next'[a] # currChannel'[q]
    <3> SUFFICES ASSUME NEW q \in Processes, pc'[q] = "link"
                 PROVE  \A a \in Channels : next'[a] # currChannel'[q]
      OBVIOUS
    <3>1. q # p /\ pc[q] = "link" /\ currChannel'[q] = currChannel[q]
      BY <1>1, <1>2 DEF ioctlAppend, newChannel, Goto, CallsOK
    <3>2. currChannel[q] \in 1 .. allocated
      BY <3>1 DEF Handles, Refers
    <3> QED BY <2>1, <2>2, <3>1, <3>2 DEF Chained
  <2> QED BY <2>4, <2>5, <2>6, <2>7, <2>8 DEF Chained
<1>3. CASE ioctlFirst(p)
  <2>1. /\ allocated + 1 \in Channels /\ allocated' = allocated + 1
        /\ allocated \in 0 .. MaxChannels /\ next' = next
        /\ channelHeadsForMinorKey' = channelHeadsForMinorKey
        /\ loaded' = loaded
        /\ currChannel' = [currChannel EXCEPT ![p] = allocated + 1]
        /\ pc' = [pc EXCEPT ![p] = "link"]
    BY <1>1, <1>3, NewChannel DEF ioctlFirst, newChannel, HeapOK, Goto
  <2>2. \A a \in Channels : next[a] \in Channels \cup {NULL} /\ next[a] <= allocated
    BY <1>1, <2>1, Sizes DEF Chained, HeapOK
  <2>3. loaded' => \A n \in Minors : channelHeadsForMinorKey'[n] <= allocated'
    <3>1. \A n \in Minors : channelHeadsForMinorKey[n] \in Nat
      BY <1>1, Sizes DEF HeapOK
    <3> QED BY <2>1, <3>1, Sizes DEF Chained
  <2>4. \A a \in Channels, q \in Processes :
          pc'[q] = "link" => next'[a] # currChannel'[q]
    <3> SUFFICES ASSUME NEW a \in Channels, NEW q \in Processes, pc'[q] = "link"
                 PROVE  next'[a] # currChannel'[q]
      OBVIOUS
    <3>1. CASE q = p
      BY <1>1, <2>1, <2>2, <3>1, Sizes DEF CallsOK
    <3>2. CASE q # p
      BY <1>1, <2>1, <3>2 DEF CallsOK, Chained
    <3> QED BY <3>1, <3>2
  <2>5. \A a \in Channels :
          next'[a] # NULL => a < next'[a] /\ next'[a] <= allocated'
    BY <2>1, <2>2, Sizes DEF Chained
  <2> QED BY <2>1, <2>3, <2>4, <2>5 DEF Chained
<1>4. CASE ioctlLink(p)
  <2>1. /\ channelHeadsForMinorKey' =
             [channelHeadsForMinorKey EXCEPT ![MinorOf[file[p]]] = currChannel[p]]
        /\ UNCHANGED <<next, allocated, loaded>>
        /\ pc[p] = "link" /\ pc' = [pc EXCEPT ![p] = "idle"]
        /\ currChannel' = [currChannel EXCEPT ![p] = NULL]
    BY <1>4 DEF ioctlLink, Return, Goto
  <2>2. currChannel[p] <= allocated /\ MinorOf[file[p]] \in Minors
    BY <1>1, <2>1, Sizes DEF Handles, Refers, HeapOK
  <2>3. \A a \in Channels : next[a] # currChannel[p]
    BY <2>1 DEF Chained
  <2>4. loaded' => \A n \in Minors : channelHeadsForMinorKey'[n] <= allocated'
    BY <1>1, <2>1, <2>2 DEF Chained, HeapOK
  <2>5. \A a \in Channels, n \in Minors :
          next'[a] = channelHeadsForMinorKey'[n] => next'[a] = NULL
    BY <1>1, <2>1, <2>2, <2>3 DEF Chained, HeapOK
  <2>6. \A a \in Channels, q \in Processes :
          pc'[q] = "link" => next'[a] # currChannel'[q]
    BY <1>1, <2>1 DEF Chained, CallsOK
  <2> QED BY <2>1, <2>4, <2>5, <2>6 DEF Chained
<1>5. CASE ioctlHead(p) \/ ioctlWalk(p) \/ writeLength(p) \/ writeByte(p)
           \/ readTest(p) \/ readByte(p)
  <2>1. UNCHANGED <<loaded, channelHeadsForMinorKey, next, allocated>>
    BY <1>5 DEF ioctlHead, ioctlWalk, writeLength, writeByte, readTest,
                readByte, heap
  <2>2. \A q \in Processes :
          pc'[q] = "link" => pc[q] = "link" /\ currChannel'[q] = currChannel[q]
    BY <1>1, <1>5 DEF ioctlHead, ioctlWalk, writeLength, writeByte, readTest,
                      readByte, locals, Goto, CallsOK
  <2> QED BY <2>1, <2>2 DEF Chained
<1>6. CASE ioctlFound(p) \/ ioctlSet(p) \/ writeEnd(p) \/ readEnd(p)
  <2>1. UNCHANGED <<loaded, heap>> /\ \E r : Return(p, r)
    BY <1>6 DEF ioctlFound, ioctlSet, SetFile, writeEnd, readEnd
  <2> QED BY <1>1, <2>1, ChainedKept DEF Return, Goto, CallsOK
<1>7. CASE ioctlNoMemory(p) \/ readRefused(p) \/ readFault(p)
  <2>1. \E e : Refuse(p, e)
    BY <1>7 DEF ioctlNoMemory, readRefused, readFault
  <2> QED BY <1>1, <2>1, ChainedKept DEF Refuse, Return, Goto, CallsOK
<1> QED BY <1>2, <1>3, <1>4, <1>5, <1>6, <1>7 DEF Finish

(* A call that starts links nothing.                                       *)
LEMMA ChainedStart ==
  ASSUME TypeOK, Chained, NEW p \in Processes, NEW f \in Files, Start(p, f)
  PROVE  Chained'
<1>1. HeapOK /\ FilesOK /\ CallsOK
  BY TypeParts
<1>2. ASSUME NEW e, Refuse(p, e) PROVE Chained'
  BY <1>1, <1>2, ChainedKept DEF Refuse, Return, Goto, CallsOK
<1>3. ASSUME NEW id \in Ids, ioctl(p, f, id) PROVE Chained'
  BY <1>1, <1>3, ChainedKept DEF ioctl, Call, Goto, CallsOK
<1>4. ASSUME NEW m \in Writable, writeStart(p, f, m) PROVE Chained'
  BY <1>1, <1>4, ChainedKept DEF writeStart, Call, Goto, CallsOK
<1>5. ASSUME NEW n \in 0 .. BUF_LEN, readStart(p, f, n) PROVE Chained'
  BY <1>1, <1>5, ChainedKept DEF readStart, Call, Goto, CallsOK
<1> QED BY <1>2, <1>3, <1>4, <1>5
        DEF Start, ioctlRefused, writeRefused, readUnset

(* Loading clears the heads, and unloading ends all the chains.            *)
LEMMA ChainedAdminister == TypeOK /\ Handles /\ Chained /\ Administer => Chained'
<1> SUFFICES ASSUME TypeOK, Handles, Chained, Administer PROVE Chained'
  OBVIOUS
<1>1. HeapOK /\ FilesOK /\ CallsOK
  BY TypeParts
<1>2. CASE slot_init
  <2>1. /\ channelHeadsForMinorKey' = [n \in Minors |-> NULL]
        /\ UNCHANGED <<next, allocated, pc, currChannel>>
    BY <1>2 DEF slot_init, locals
  <2> QED BY <1>1, <2>1, Sizes DEF Chained, HeapOK
<1>3. CASE slot_cleanup
  <2>1. next' = [a \in Channels |-> NULL] /\ ~ loaded'
        /\ \A q \in Processes : pc'[q] # "link"
    BY <1>3 DEF slot_cleanup, locals, Handles
  <2> QED BY <2>1 DEF Chained
<1>4. ASSUME NEW f \in Files, device_open(f) \/ slot_release(f) PROVE Chained'
  BY <1>4, ChainedKept DEF device_open, slot_release, locals
<1> QED BY <1>2, <1>3, <1>4 DEF Administer

(* So every step keeps the chains apart.                                   *)
LEMMA ChainedStep ==
  TypeOK /\ Handles /\ Chained /\ [Next]_vars => Chained'
<1>1. CASE UNCHANGED vars
  BY <1>1, ChainedKept DEF vars, locals
<1> QED BY <1>1, ChainedFinish, ChainedStart, ChainedAdminister DEF Next

-----------------------------------------------------------------------------
(* The channels that links lead to from a: a is one of them, and where one *)
(* of them leads to is one of them.                                        *)
LEMMA FromIsClosed ==
  ASSUME TypeOK, NEW a \in Channels
  PROVE  a \in From(a) /\ From(a) \subseteq Channels /\ Closed(From(a))
<1>1. \A b \in Channels : next[b] \in Channels \cup {NULL}
  BY DEF TypeOK
<1> QED BY <1>1 DEF From, Closed

(* They are in every set that has a in it and that no link leads out of.   *)
LEMMA FromIsLeast ==
  ASSUME NEW a \in Channels, NEW S, S \subseteq Channels, a \in S, Closed(S)
  PROVE  From(a) \subseteq S
BY DEF From

(* What they are reached from, other than a itself, they are reached from  *)
(* through one of themselves: no two links lead to the same channel.       *)
LEMMA OneStepBack ==
  ASSUME TypeOK, Chained, NEW a \in Channels, NEW c \in Channels,
         next[c] \in From(a), next[c] # a
  PROVE  c \in From(a)
<1> SUFFICES ASSUME c \notin From(a) PROVE FALSE
  OBVIOUS
<1> DEFINE S == From(a) \ {next[c]}
<1>1. next[c] # NULL
  BY Sizes DEF From
<1>2. a \in S /\ S \subseteq Channels
  BY FromIsClosed
<1>3. Closed(S)
  BY <1>1, FromIsClosed DEF Closed, Chained
<1> QED BY <1>2, <1>3, FromIsLeast

(* The head of a list is reached from itself only.                         *)
LEMMA HeadIsFirst ==
  ASSUME TypeOK, Chained, NEW n \in Minors, NEW a \in Channels,
         channelHeadsForMinorKey[n] \in From(a)
  PROVE  a = channelHeadsForMinorKey[n]
<1> SUFFICES ASSUME a # channelHeadsForMinorKey[n] PROVE FALSE
  OBVIOUS
<1> DEFINE S == From(a) \ {channelHeadsForMinorKey[n]}
<1>1. a \in S /\ S \subseteq Channels
  BY FromIsClosed
<1>2. Closed(S)
  BY FromIsClosed DEF Closed, Chained
<1> QED BY <1>1, <1>2, FromIsLeast

(* From a channel that kmalloc returned, links lead to such channels.      *)
LEMMA FromAllocated ==
  ASSUME TypeOK, Chained, NEW a \in Channels, a <= allocated
  PROVE  From(a) \subseteq 1 .. allocated
<1> DEFINE S == 1 .. allocated
<1>1. a \in S /\ S \subseteq Channels
  BY Sizes DEF TypeOK
<1>2. \A b \in S : next[b] \in S \cup {NULL}
  BY <1>1, Sizes DEF TypeOK, Chained
<1> QED BY <1>1, <1>2, FromIsLeast DEF Closed

(* From the last channel of a list, links lead nowhere.                    *)
LEMMA FromLast ==
  ASSUME TypeOK, NEW a \in Channels, next[a] = NULL PROVE From(a) = {a}
<1>1. Closed({a})
  BY DEF Closed
<1> QED BY <1>1, FromIsLeast, FromIsClosed

(* From any other channel they lead where they lead from its successor.    *)
LEMMA FromNext ==
  ASSUME TypeOK, NEW a \in Channels, next[a] # NULL
  PROVE  next[a] \in Channels /\ From(a) \subseteq {a} \cup From(next[a])
<1>1. next[a] \in Channels
  BY DEF TypeOK
<1> DEFINE S == {a} \cup From(next[a])
<1>2. S \subseteq Channels /\ a \in S
  BY <1>1, FromIsClosed
<1>3. Closed(S)
  BY <1>1, FromIsClosed DEF Closed
<1> QED BY <1>1, <1>2, <1>3, FromIsLeast

(* Of two channels of a list, links lead from the one to the other.        *)
LEMMA Comparable ==
  ASSUME TypeOK, NEW h \in Channels, NEW a \in From(h), NEW b \in From(h)
  PROVE  b \in From(a) \/ a \in From(b)
<1> DEFINE S == {x \in Channels : x \in From(a) \/ a \in From(x)}
<1>1. a \in Channels /\ b \in Channels
  BY FromIsClosed
<1>2. S \subseteq Channels /\ h \in S
  OBVIOUS
<1>3. Closed(S)
  <2> SUFFICES ASSUME NEW x \in S, next[x] # NULL PROVE next[x] \in S
    BY DEF Closed
  <2>1. next[x] \in Channels /\ From(x) \subseteq {x} \cup From(next[x])
    BY FromNext
  <2>2. CASE x \in From(a)
    BY <1>1, <2>1, <2>2, FromIsClosed DEF Closed
  <2>3. CASE x \notin From(a) /\ a \in From(x)
    <3>1. a # x
      BY <1>1, <2>3, FromIsClosed
    <3> QED BY <2>1, <2>3, <3>1
  <2> QED BY <2>2, <2>3
<1> QED BY <1>2, <1>3, FromIsLeast

-----------------------------------------------------------------------------
(* No two channels of a list have the same number, and a call that looks   *)
(* for a number has not passed it by: no channel it has left behind, and,  *)
(* once it is at the end, not the last one either, has that number.        *)
DistinctIds ==
  /\ \A a \in Channels : \A b \in From(a) \ {a} : channel_id[a] # channel_id[b]
  /\ \A p \in Processes, a \in Channels :
       pc[p] \in {"walk", "append"} /\ currChannel[p] \in From(a) =>
         \/ channel_id[a] # param[p]
         \/ a = currChannel[p] /\ pc[p] = "walk"

SlotInv == TypeOK /\ Handles /\ Chained /\ DistinctIds

(* A step that leaves links and numbers, and brings no other call to where *)
(* it looks for a number, keeps the numbers apart.                         *)
LEMMA DistinctKept ==
  ASSUME DistinctIds, UNCHANGED <<next, channel_id>>,
         \A q \in Processes :
           pc'[q] \in {"walk", "append"} =>
             /\ pc'[q] = pc[q] /\ currChannel'[q] = currChannel[q]
             /\ param'[q] = param[q]
  PROVE  DistinctIds'
<1>1. \A a : From(a)' = From(a)
  BY DEF From, Closed
<1> QED BY <1>1 DEF DistinctIds

(* A search starts with the head of the list: it has passed nothing.       *)
LEMMA DistinctHead ==
  ASSUME SlotInv, NEW p \in Processes, ioctlHead(p) PROVE DistinctIds'
<1>1. HeapOK /\ FilesOK /\ CallsOK
  BY TypeParts DEF SlotInv
<1> DEFINE n == MinorOf[file[p]]
           first == channelHeadsForMinorKey[n]
<1>2. UNCHANGED <<next, channel_id, param>> /\ pc[p] = "head"
  BY DEF ioctlHead, heap
<1>3. \A a : From(a)' = From(a)
  BY <1>2 DEF From, Closed
<1>4. n \in Minors
  BY <1>1, <1>2, Sizes DEF SlotInv, Handles
<1>5. /\ currChannel' = [currChannel EXCEPT ![p] = first]
      /\ pc' = [pc EXCEPT ![p] = IF first = NULL THEN "first" ELSE "walk"]
  BY DEF ioctlHead, Goto
<1>6. ASSUME NEW a \in Channels, first \in From(a) PROVE a = first
  BY <1>4, <1>6, HeadIsFirst DEF SlotInv
<1> HIDE DEF first, n
<1>7. ASSUME NEW q \in Processes, NEW a \in Channels,
             pc'[q] \in {"walk", "append"}, currChannel'[q] \in From(a)
      PROVE  \/ channel_id[a] # param[q]
             \/ a = currChannel'[q] /\ pc'[q] = "walk"
  <2>1. CASE q = p
    BY <1>1, <1>5, <1>6, <1>7, <2>1 DEF CallsOK
  <2>2. CASE q # p
    BY <1>1, <1>5, <1>7, <2>2 DEF CallsOK, SlotInv, DistinctIds
  <2> QED BY <2>1, <2>2
<1> QED BY <1>2, <1>3, <1>7 DEF SlotInv, DistinctIds

(* It goes on from a channel with another number than its own: what it has *)
(* passed does not have its number.                                        *)
LEMMA DistinctWalk ==
  ASSUME SlotInv, NEW p \in Processes, ioctlWalk(p) PROVE DistinctIds'
<1>1. HeapOK /\ FilesOK /\ CallsOK
  BY TypeParts DEF SlotInv
<1> DEFINE c == currChannel[p]
<1>2. /\ UNCHANGED <<next, channel_id, param>> /\ pc[p] = "walk"
      /\ channel_id[c] # param[p]
  BY DEF ioctlWalk, heap, isFound
<1>3. \A a : From(a)' = From(a)
  BY <1>2 DEF From, Closed
<1>4. c \in Channels
  BY <1>1, <1>2, Sizes DEF SlotInv, Handles, Refers, HeapOK
<1>5. ASSUME NEW a \in Channels, c \in From(a) PROVE channel_id[a] # param[p]
  BY <1>2, <1>5 DEF SlotInv, DistinctIds
<1>6. ASSUME NEW q \in Processes, NEW a \in Channels,
             pc'[q] \in {"walk", "append"}, currChannel'[q] \in From(a)
      PROVE  \/ channel_id[a] # param[q]
             \/ a = currChannel'[q] /\ pc'[q] = "walk"
  <2>1. CASE q # p
    <3>1. pc'[q] = pc[q] /\ currChannel'[q] = currChannel[q]
      BY <1>1, <2>1 DEF ioctlWalk, Goto, CallsOK
    <3> QED BY <1>6, <3>1 DEF SlotInv, DistinctIds
  <2>2. CASE q = p /\ next[c] = NULL
    <3>1. currChannel'[p] = c
      BY <2>2 DEF ioctlWalk
    <3> QED BY <1>5, <1>6, <2>2, <3>1
  <2>3. CASE q = p /\ next[c] # NULL
    <3>1. currChannel'[p] = next[c] /\ pc'[p] = "walk"
      BY <1>1, <1>2, <2>3 DEF ioctlWalk, CallsOK
    <3>2. CASE a = next[c]
      BY <2>3, <3>1, <3>2
    <3>3. CASE a # next[c]
      <4>1. c \in From(a)
        BY <1>4, <1>6, <2>3, <3>1, <3>3, OneStepBack DEF SlotInv
      <4> QED BY <1>5, <2>3, <4>1
    <3> QED BY <3>2, <3>3
  <2> QED BY <2>1, <2>2, <2>3
<1> QED BY <1>2, <1>3, <1>6 DEF SlotInv, DistinctIds

(* The number of a new channel is the one that was looked for: it fits.    *)
LEMMA NumberFits ==
  ASSUME SlotInv, \A id \in Ids : id < IdLimit, NEW p \in Processes,
         pc[p] \in Searching, newChannel(p)
  PROVE  channel_id' = [channel_id EXCEPT ![allocated + 1] = param[p]]
<1>1. param[p] \in Nat /\ param[p] < IdLimit
  BY Sizes DEF SlotInv, Handles
<1>2. \A k \in Nat : k < IdLimit => k % IdLimit = k
  BY Sizes
<1> QED BY <1>1, <1>2 DEF newChannel

(* At the end of the list, therefore, no channel has the number, and the   *)
(* channel appended there is the only one with it.                         *)
LEMMA DistinctAppend ==
  ASSUME SlotInv, \A id \in Ids : id < IdLimit,
         NEW p \in Processes, ioctlAppend(p)
  PROVE  DistinctIds'
<1>1. HeapOK /\ FilesOK /\ CallsOK
  BY TypeParts DEF SlotInv
<1> DEFINE c == currChannel[p]
           N == allocated + 1
<1>2. /\ N \in Channels /\ allocated \in 0 .. MaxChannels
      /\ c \in 1 .. allocated /\ c \in Channels /\ N # c
      /\ next' = [next EXCEPT ![c] = N]
      /\ channel_id' = [channel_id EXCEPT ![N] = param[p]]
      /\ pc[p] = "append"
  <2>1. c \in 1 .. allocated /\ allocated \in 0 .. MaxChannels
    BY <1>1 DEF ioctlAppend, SlotInv, Handles, Refers, HeapOK
  <2> QED BY <1>1, <2>1, NewChannel, NumberFits, Sizes
          DEF ioctlAppend, linkLast, Searching
<1>3. next[N] = NULL
  BY <1>1, <1>2, Sizes DEF SlotInv, Chained, HeapOK
<1> HIDE DEF N, c
<1>4. \A a \in Channels : /\ next'[a] = IF a = c THEN N ELSE next[a]
                          /\ channel_id'[a] = IF a = N THEN param[p] ELSE channel_id[a]
  BY <1>1, <1>2 DEF HeapOK
<1>5. ASSUME NEW a \in Channels, NEW b \in From(a)'
      PROVE  b \in Channels /\ (b \in From(a) \/ (b = N /\ c \in From(a)))
  <2> DEFINE S == From(a) \cup {x \in {N} : c \in From(a)}
  <2>1. a \in S /\ S \subseteq Channels
    BY <1>2, FromIsClosed DEF SlotInv
  <2>2. \A x \in S : next'[x] \in S \cup {NULL}
    <3> SUFFICES ASSUME NEW x \in S PROVE next'[x] \in S \cup {NULL}
      OBVIOUS
    <3>1. CASE x = c
      BY <1>2, <1>4, <2>1, <3>1
    <3>2. CASE x # c /\ x = N
      BY <1>2, <1>3, <1>4, <3>2
    <3>3. CASE x # c /\ x # N
      BY <1>4, <2>1, <3>3, FromIsClosed DEF SlotInv, Closed
    <3> QED BY <3>1, <3>2, <3>3
  <2>3. b \in S
    BY <2>1, <2>2 DEF From, Closed
  <2> QED BY <2>1, <2>3
<1>6. ASSUME NEW a \in Channels, c \in From(a) PROVE channel_id[a] # param[p]
  BY <1>2, <1>6 DEF SlotInv, DistinctIds, c
<1>7. ASSUME NEW a \in Channels, NEW b \in From(a), a = N \/ b = N PROVE a = b
  <2>1. CASE a = N
    BY <1>3, <1>7, <2>1, FromLast DEF SlotInv
  <2>2. CASE a # N /\ b = N
    <3>1. CASE a <= allocated
      <4>1. N \in 1 .. allocated
        BY <1>7, <2>2, <3>1, FromAllocated DEF SlotInv
      <4> QED BY <1>2, <4>1 DEF N
    <3>2. CASE a > allocated
      <4>1. next[a] = NULL
        <5>1. next[a] \in Channels \cup {NULL} /\ allocated \in Nat
          BY <1>1, Sizes DEF HeapOK
        <5>2. next[a] # NULL => a < next[a] /\ next[a] <= allocated
          BY DEF SlotInv, Chained
        <5>3. next[a] # NULL => next[a] \in Nat /\ a \in Nat
          BY <5>1, Sizes
        <5> QED BY <3>2, <5>1, <5>2, <5>3
      <4> QED BY <1>7, <4>1, FromLast DEF SlotInv
    <3> QED BY <1>2, <3>1, <3>2, Sizes
  <2> QED BY <1>7, <2>1, <2>2
<1>8. ASSUME NEW a \in Channels, NEW b \in From(a)', b # a
      PROVE  channel_id'[a] # channel_id'[b]
  <2>1. CASE b \in From(a)
    <3>1. a # N /\ b # N
      BY <1>7, <1>8, <2>1
    <3> QED BY <1>4, <1>5, <1>8, <2>1, <3>1 DEF SlotInv, DistinctIds
  <2>2. CASE b = N /\ c \in From(a)
    BY <1>4, <1>5, <1>6, <1>8, <2>2
  <2> QED BY <1>5, <1>8, <2>1, <2>2
<1>9. ASSUME NEW q \in Processes, NEW a \in Channels,
             pc'[q] \in {"walk", "append"}, currChannel'[q] \in From(a)'
      PROVE  \/ channel_id'[a] # param'[q]
             \/ a = currChannel'[q] /\ pc'[q] = "walk"
  <2>1. /\ q # p /\ pc'[q] = pc[q] /\ currChannel'[q] = currChannel[q]
        /\ param'[q] = param[q]
    BY <1>1, <1>9 DEF ioctlAppend, newChannel, Goto, CallsOK
  <2>2. currChannel[q] # N
    BY <1>2, <1>9, <2>1 DEF SlotInv, Handles, Refers, N
  <2>3. currChannel[q] \in From(a)
    BY <1>5, <1>9, <2>1, <2>2
  <2>4. a # N
    BY <1>7, <2>2, <2>3
  <2> QED BY <1>4, <1>9, <2>1, <2>3, <2>4 DEF SlotInv, DistinctIds
<1> QED BY <1>8, <1>9 DEF DistinctIds

(* The first channel of a list is alone in it.                             *)
LEMMA DistinctFirst ==
  ASSUME SlotInv, NEW p \in Processes, ioctlFirst(p) PROVE DistinctIds'
<1>1. HeapOK /\ FilesOK /\ CallsOK
  BY TypeParts DEF SlotInv
<1> DEFINE N == allocated + 1
<1>2. /\ N \in Channels /\ allocated \in 0 .. MaxChannels /\ next' = next
      /\ \A a \in Channels : a # N => channel_id'[a] = channel_id[a]
  BY <1>1, NewChannel DEF ioctlFirst, newChannel, HeapOK
<1>3. \A a : From(a)' = From(a)
  BY <1>2 DEF From, Closed
<1>4. next[N] = NULL
  <2>1. next[N] \in Nat /\ (next[N] # NULL => N < next[N] /\ next[N] <= allocated)
    BY <1>1, <1>2, Sizes DEF SlotInv, Chained, HeapOK
  <2> QED BY <1>2, <2>1
<1>5. ASSUME NEW a \in Channels, NEW b \in From(a), a = N \/ b = N PROVE a = b
  <2>1. CASE a = N
    BY <1>4, <1>5, <2>1, FromLast DEF SlotInv
  <2>2. CASE a <= allocated /\ b = N
    <3>1. N \in 1 .. allocated
      BY <1>5, <2>2, FromAllocated DEF SlotInv
    <3> QED BY <1>2, <3>1
  <2>3. CASE a > allocated
    <3>1. next[a] = NULL
      BY <1>1, <1>2, <2>3, Sizes DEF SlotInv, Chained, HeapOK
    <3> QED BY <1>5, <3>1, FromLast DEF SlotInv
  <2> QED BY <1>2, <1>5, <2>1, <2>2, <2>3, Sizes
<1>6. ASSUME NEW a \in Channels, NEW b \in From(a), b # a
      PROVE  channel_id'[a] # channel_id'[b]
  <2>1. a # N /\ b # N /\ b \in Channels
    BY <1>5, <1>6 DEF From
  <2> QED BY <1>2, <1>6, <2>1 DEF SlotInv, DistinctIds
<1>7. ASSUME NEW q \in Processes, NEW a \in Channels,
             pc'[q] \in {"walk", "append"}, currChannel'[q] \in From(a)
      PROVE  \/ channel_id'[a] # param'[q]
             \/ a = currChannel'[q] /\ pc'[q] = "walk"
  <2>1. /\ q # p /\ pc'[q] = pc[q] /\ currChannel'[q] = currChannel[q]
        /\ param'[q] = param[q]
    BY <1>1, <1>7 DEF ioctlFirst, newChannel, Goto, CallsOK
  <2>2. currChannel[q] # N
    BY <1>2, <1>7, <2>1 DEF SlotInv, Handles, Refers
  <2>3. a # N
    BY <1>5, <1>7, <2>1, <2>2
  <2> QED BY <1>2, <1>7, <2>1, <2>3 DEF SlotInv, DistinctIds
<1> QED BY <1>3, <1>6, <1>7 DEF DistinctIds

(* Every step of a call keeps the numbers of a list apart.                 *)
LEMMA DistinctFinish ==
  ASSUME SlotInv, \A id \in Ids : id < IdLimit, NEW p \in Processes, Finish(p)
  PROVE  DistinctIds'
<1>1. CallsOK
  BY TypeParts DEF SlotInv
<1>2. CASE ioctlHead(p) \/ ioctlWalk(p) \/ ioctlAppend(p) \/ ioctlFirst(p)
  BY <1>2, DistinctHead, DistinctWalk, DistinctAppend, DistinctFirst
<1>3. CASE ioctlFound(p) \/ ioctlSet(p) \/ ioctlLink(p) \/ writeEnd(p) \/ readEnd(p)
  <2>1. UNCHANGED <<next, channel_id>> /\ \E r : Return(p, r)
    BY <1>3 DEF ioctlFound, ioctlSet, ioctlLink, SetFile, writeEnd, readEnd, heap
  <2> QED BY <1>1, <2>1, DistinctKept DEF SlotInv, Return, Goto, CallsOK
<1>4. CASE writeLength(p) \/ writeByte(p) \/ readTest(p) \/ readByte(p)
  <2>1. UNCHANGED <<next, channel_id, currChannel, param>>
    BY <1>4 DEF writeLength, writeByte, readTest, readByte, heap, locals
  <2>2. \A q \in Processes : pc'[q] \in {"walk", "append"} => pc'[q] = pc[q]
    BY <1>1, <1>4 DEF writeLength, writeByte, readTest, readByte, Goto, CallsOK
  <2> QED BY <2>1, <2>2, DistinctKept DEF SlotInv
<1>5. CASE ioctlNoMemory(p) \/ readRefused(p) \/ readFault(p)
  <2>1. UNCHANGED <<next, channel_id>> /\ \E r : Return(p, r)
    BY <1>5 DEF ioctlNoMemory, readRefused, readFault, Refuse, heap
  <2> QED BY <1>1, <2>1, DistinctKept DEF SlotInv, Return, Goto, CallsOK
<1> QED BY <1>2, <1>3, <1>4, <1>5 DEF Finish

(* A call that starts stores no number.                                    *)
LEMMA DistinctStart ==
  ASSUME SlotInv, NEW p \in Processes, NEW f \in Files, Start(p, f)
  PROVE  DistinctIds'
<1>1. CallsOK
  BY TypeParts DEF SlotInv
<1>2. ASSUME NEW e, Refuse(p, e) PROVE DistinctIds'
  BY <1>1, <1>2, DistinctKept DEF SlotInv, Refuse, Return, Goto, CallsOK, heap
<1>3. ASSUME NEW id \in Ids, ioctl(p, f, id) PROVE DistinctIds'
  BY <1>1, <1>3, DistinctKept DEF SlotInv, ioctl, Call, Goto, CallsOK, heap
<1>4. ASSUME NEW m \in Writable, writeStart(p, f, m) PROVE DistinctIds'
  BY <1>1, <1>4, DistinctKept DEF SlotInv, writeStart, Call, Goto, CallsOK, heap
<1>5. ASSUME NEW n \in 0 .. BUF_LEN, readStart(p, f, n) PROVE DistinctIds'
  BY <1>1, <1>5, DistinctKept DEF SlotInv, readStart, Call, Goto, CallsOK, heap
<1> QED BY <1>2, <1>3, <1>4, <1>5
        DEF Start, ioctlRefused, writeRefused, readUnset

(* Nor does loading the module; unloading it ends all the lists.           *)
LEMMA DistinctAdminister == SlotInv /\ Administer => DistinctIds'
<1> SUFFICES ASSUME SlotInv, Administer PROVE DistinctIds'
  OBVIOUS
<1>1. CASE slot_cleanup
  <2>1. /\ next' = [a \in Channels |-> NULL]
        /\ \A q \in Processes : pc'[q] \notin {"walk", "append"}
    BY <1>1 DEF slot_cleanup, locals, SlotInv, Handles
  <2>2. ASSUME NEW a \in Channels, NEW b \in From(a)' PROVE b = a
    <3> DEFINE S == {a}
    <3>1. S \in SUBSET Channels /\ a \in S /\ \A x \in S : next'[x] = NULL
      BY <2>1
    <3>2. b \in S
      <4> HIDE DEF S
      <4> QED BY <3>1 DEF From, Closed
    <3> QED BY <3>2
  <2> QED BY <2>1, <2>2 DEF DistinctIds
<1>2. CASE slot_init
  BY <1>2, DistinctKept DEF slot_init, locals, SlotInv
<1>3. ASSUME NEW f \in Files, device_open(f) \/ slot_release(f)
      PROVE  DistinctIds'
  BY <1>3, DistinctKept DEF device_open, slot_release, heap, locals, SlotInv
<1> QED BY <1>1, <1>2, <1>3 DEF Administer

(* There is no list at first.                                              *)
LEMMA DistinctInit == Init => DistinctIds
<1> SUFFICES ASSUME Init PROVE DistinctIds
  OBVIOUS
<1>1. TypeOK
  BY TypeInit
<1>2. \A a \in Channels : From(a) = {a}
  BY <1>1, FromLast DEF Init
<1> QED BY <1>2 DEF Init, DistinctIds

-----------------------------------------------------------------------------
(* The state of the driver and of every call keeps its type: the links and *)
(* the pointers kept in files stay within the channels, and no length or   *)
(* position leaves the buffer.                                             *)
THEOREM TypeCorrect == Spec => [](TypeOK /\ Handles /\ Chained)
<1>1. Init => TypeOK /\ Handles /\ Chained
  BY TypeInit, HandlesInit, ChainedInit
<1>2. TypeOK /\ Handles /\ Chained /\ [Next]_vars => (TypeOK /\ Handles /\ Chained)'
  BY TypeStep, HandlesStep, ChainedStep
<1> QED BY <1>1, <1>2, PTL DEF Spec

(* The invariant gives the property: a list has no loop, no fork and, if   *)
(* the numbers fit, no number twice.                                       *)
LEMMA InvIsSound == SlotInv => ListsSound
<1> SUFFICES ASSUME SlotInv, NEW n \in Minors, NEW a \in Listed(n)
             PROVE  /\ next[a] # channelHeadsForMinorKey[n]
                    /\ message_length[a] <= BUF_LEN
                    /\ \A b \in Listed(n) \ {a} :
                         /\ channel_id[a] # channel_id[b]
                         /\ next[a] # next[b] \/ next[a] = NULL
  BY DEF ListsSound
<1> DEFINE head == channelHeadsForMinorKey[n]
<1>1. head \in Channels /\ Listed(n) = From(head)
  BY DEF Listed, SlotInv, TypeOK
<1>2. From(head) \subseteq Channels
  BY <1>1, FromIsClosed DEF SlotInv
<1>3. next[a] # head
  BY <1>1, <1>2, Sizes DEF SlotInv, Chained
<1>4. message_length[a] <= BUF_LEN
  BY <1>1, <1>2, Sizes DEF SlotInv, TypeOK
<1>5. ASSUME NEW b \in Listed(n) \ {a}
      PROVE  channel_id[a] # channel_id[b] /\ (next[a] # next[b] \/ next[a] = NULL)
  <2>1. b \in From(a) \/ a \in From(b)
    BY <1>1, <1>5, Comparable DEF SlotInv
  <2>2. channel_id[a] # channel_id[b]
    BY <1>1, <1>2, <1>5, <2>1 DEF SlotInv, DistinctIds
  <2> QED BY <1>1, <1>2, <1>5, <2>2 DEF SlotInv, Chained
<1> QED BY <1>3, <1>4, <1>5

(* However many processes, files, devices and channels there are, and      *)
(* however the calls interleave, lists stay lists (ListsSound).  The       *)
(* channel numbers must fit into channel_id: a number that does not is     *)
(* stored as its remainder, never found again, and stored once more by the *)
(* next call, so that two channels of a list do have the same number.      *)
THEOREM ListsStaySound ==
  ASSUME \A id \in Ids : id < IdLimit PROVE Spec => []ListsSound
<1>1. Init => SlotInv
  BY TypeInit, HandlesInit, ChainedInit, DistinctInit DEF SlotInv
<1>2. SlotInv /\ [Next]_vars => SlotInv'
  <2> SUFFICES ASSUME SlotInv, [Next]_vars PROVE DistinctIds'
    BY TypeStep, HandlesStep, ChainedStep DEF SlotInv
  <2>1. CASE UNCHANGED vars
    BY <2>1, DistinctKept DEF vars, heap, locals, SlotInv
  <2> QED BY <2>1, DistinctFinish, DistinctStart, DistinctAdminister DEF Next
<1> QED BY <1>1, <1>2, InvIsSound, PTL DEF Spec
-----------------------------------------------------------------------------
(* Callers that take turns.  own gives each channel the device it is of.   *)
(* The rest of this module shows that they find a SlotMap.                 *)
Kept     == 1 .. allocated
Minor(p) == MinorOf[file[p]]

(* The name that SlotMap knows a channel by.                               *)
NameOf(a) == IF channel_id[a] \in Ids THEN channel_id[a] ELSE IdLimit + a

(* No call is in progress but that of p.                                   *)
Alone(p) == \A q \in Processes : pc[q] # "idle" => q = p
OneCall  == \A p \in Processes : pc[p] # "idle" => Alone(p)

(* What is not allocated is blank.                                         *)
Unkept == \A a \in Channels \ Kept : next[a] = NULL /\ message_length[a] = 0

HistoryOK ==
  /\ lastWritten \in [Minors -> [Slots!Names -> Seq(Bytes)]]
  /\ asked \in [Files -> Slots!Names \cup {0}]

(* The channel that ioctl is about to make the head of a list.             *)
Linking(a) == \E p \in Processes : pc[p] = "link" /\ currChannel[p] = a

(* The list of a device has all its channels, in the order of their        *)
(* allocation, no two of them with the same number.                        *)
Sorted(own) ==
  /\ \A a \in Kept : own[a] \in Minors
  /\ \A n \in Minors : loaded /\ channelHeadsForMinorKey[n] # NULL =>
       own[channelHeadsForMinorKey[n]] = n
  /\ \A a \in Kept : next[a] # NULL => own[next[a]] = own[a]
  /\ \A a, b \in Kept :
       a < b /\ own[a] = own[b] => next[a] # NULL /\ next[a] <= b
  /\ \A a \in Kept : \/ /\ channelHeadsForMinorKey[own[a]] # NULL
                        /\ channelHeadsForMinorKey[own[a]] <= a
                     \/ Linking(a)
  /\ \A a, b \in Kept :
       own[a] = own[b] /\ channel_id[a] = channel_id[b] /\ channel_id[a] \in Ids
       => a = b

(* A file is set to a channel of its device, and was asked for it, but     *)
(* while ioctl is about to link one.  No file was asked for a channel that *)
(* ioctl has not set one to.                                               *)
Chosen(own) ==
  /\ \A f \in Files : ~ opened[f] => asked[f] = 0
  /\ \A f \in Files : opened[f] /\ private_data[f] # NULL =>
       own[private_data[f]] = MinorOf[f]
  /\ \A f \in Files : opened[f] =>
       \/ asked[f] = IF private_data[f] = NULL THEN 0 ELSE NameOf(private_data[f])
       \/ \E p \in Processes : pc[p] = "link" /\ file[p] = f
  /\ \A f \in Files : asked[f] # 0 =>
       \E a \in Kept :
         /\ asked[f] = NameOf(a)
         /\ \A p \in Processes : pc[p] \in {"set", "link"} => a # currChannel[p]

(* What a call has found where it is.                                      *)
Found(own, p) ==
  /\ pc[p] \in Refers => own[currChannel[p]] = Minor(p)
  /\ pc[p] = "walk" =>
       \A b \in Kept : own[b] = Minor(p) /\ channel_id[b] = param[p] =>
         currChannel[p] <= b
  /\ pc[p] = "append" =>
       /\ next[currChannel[p]] = NULL
       /\ \A b \in Kept : own[b] = Minor(p) => channel_id[b] # param[p]
  /\ pc[p] \in {"first", "link"} => channelHeadsForMinorKey[Minor(p)] = NULL
  /\ pc[p] \in {"set", "link"} =>
       /\ channel_id[currChannel[p]] = param[p] % IdLimit
       /\ message_length[currChannel[p]] = 0
  /\ pc[p] \in {"link", "length", "store", "test", "fetch"} =>
       currChannel[p] = private_data[file[p]]

(* A channel holds its message, but while write stores another into it.    *)
Holds(a, m) ==
  message_length[a] = Len(m) /\ \A k \in 1 .. Len(m) : message[a][k] = m[k]

Writes(a) == \E p \in Processes : pc[p] = "store" /\ currChannel[p] = a

Stored(own) ==
  /\ \A a \in Kept : Writes(a) \/ Holds(a, lastWritten[own[a]][NameOf(a)])
  /\ \A n \in Minors, k \in Slots!Names :
       lastWritten[n][k] # <<>> => \E a \in Kept : own[a] = n /\ NameOf(a) = k

(* How much of a message a call has copied.                                *)
Copied(p) ==
  /\ pc[p] \in {"length", "store"} =>
       buffer[p] \in Seq(Bytes) /\ Len(buffer[p]) \in 1 .. BUF_LEN
  /\ pc[p] = "store" =>
       /\ message_length[currChannel[p]] = Len(buffer[p])
       /\ i[p] <= Len(buffer[p])
       /\ \A k \in 1 .. i[p] : message[currChannel[p]][k] = buffer[p][k]
  /\ pc[p] \notin {"length", "store", "fetch"} => i[p] = 0 /\ buffer[p] = <<>>
  /\ pc[p] = "fetch" =>
       /\ message_length[currChannel[p]] >= 1
       /\ i[p] <= message_length[currChannel[p]]
       /\ Len(buffer[p]) = i[p]
       /\ \A k \in 1 .. i[p] : buffer[p][k] = message[currChannel[p]][k]

Base == TypeOK /\ Handles /\ Chained /\ OneCall /\ Unkept /\ HistoryOK

Turns(own) ==
  /\ Sorted(own) /\ Chosen(own) /\ Stored(own)
  /\ \A p \in Processes : Found(own, p) /\ Copied(p)

TurnsInv == Base /\ \E own \in [Channels -> Minors \cup {NULL}] : Turns(own)

(* No number that is stored as its remainder is taken for another one.     *)
NoAliases == \A id \in Ids : id >= IdLimit => id % IdLimit \notin Ids

(* At the start, nothing is asked for and nothing is stored.               *)
LEMMA TurnsInit == Init => TurnsInv
<1> SUFFICES ASSUME Init PROVE TurnsInv
  OBVIOUS
<1>1. HistoryOK
  <2>1. /\ lastWritten = [n \in Minors |-> [k \in Slots!Names |-> <<>>]]
        /\ asked = [f \in Files |-> 0]
    BY DEF Init, Slots!Init, Slots!Empty
  <2> QED BY <2>1, EmptySeq DEF HistoryOK
<1>2. Base
  BY <1>1, TypeInit, HandlesInit, ChainedInit
     DEF Base, OneCall, Unkept, Init
<1>3. \A p \in Processes : pc[p] = "idle" /\ i[p] = 0 /\ buffer[p] = <<>>
  BY DEF Init
<1>4. Kept = {}
  BY DEF Init, Kept
<1> DEFINE own == [a \in Channels |-> NULL]
<1>5. Sorted(own)
  BY <1>4 DEF Init, Sorted
<1>6. Chosen(own)
  BY DEF Init, Slots!Init, Chosen
<1>7. Stored(own)
  BY <1>4 DEF Init, Slots!Init, Slots!Empty, Stored
<1>8. \A p \in Processes : Found(own, p) /\ Copied(p)
  BY <1>3 DEF Found, Copied, Refers
<1> QED BY <1>2, <1>5, <1>6, <1>7, <1>8 DEF TurnsInv, Turns

(* A channel has a name in SlotMap, and no other of its device has it.     *)
LEMMA NameFacts ==
  ASSUME TypeOK, NEW a \in Channels
  PROVE  /\ NameOf(a) \in Slots!Names /\ NameOf(a) # 0
         /\ channel_id[a] \in Ids => NameOf(a) = channel_id[a] /\ NameOf(a) < IdLimit
         /\ channel_id[a] \notin Ids => NameOf(a) = IdLimit + a
<1>1. channel_id[a] \in Nat /\ channel_id[a] < IdLimit
  BY Sizes DEF TypeOK
<1>2. IdLimit + a \in Nat /\ IdLimit + a > 0 /\ ~ (channel_id[a] >= IdLimit)
  BY <1>1, Sizes
<1>3. CASE channel_id[a] \in Ids
  BY <1>1, <1>2, <1>3, Sizes DEF NameOf, Slots!Names
<1>4. CASE channel_id[a] \notin Ids
  BY <1>1, <1>2, <1>4, Sizes DEF NameOf, Slots!Names
<1> QED BY <1>3, <1>4

(* The heads and the links lead to channels that were allocated.           *)
LEMMA LinksLeadTo ==
  ASSUME TypeOK, Chained
  PROVE  /\ \A a \in Channels : next[a] # NULL =>
              next[a] \in Channels /\ next[a] <= allocated
         /\ \A m \in Minors : loaded /\ channelHeadsForMinorKey[m] # NULL =>
              /\ channelHeadsForMinorKey[m] \in Channels
              /\ channelHeadsForMinorKey[m] <= allocated
<1>1. /\ next \in [Channels -> Channels \cup {NULL}]
      /\ channelHeadsForMinorKey \in [Minors -> Channels \cup {NULL}]
  BY DEF TypeOK
<1>2. /\ \A a \in Channels : next[a] # NULL => next[a] <= allocated
      /\ \A m \in Minors : loaded => channelHeadsForMinorKey[m] <= allocated
  BY DEF Chained
<1> QED BY <1>1, <1>2

(* Two channels of a device have different names.                          *)
LEMMA NamesApart ==
  ASSUME TypeOK, NEW own, Sorted(own), NEW a \in Kept, NEW b \in Kept,
         own[a] = own[b], NameOf(a) = NameOf(b)
  PROVE  a = b
<1>1. a \in Channels /\ b \in Channels /\ Kept \subseteq Channels
  BY Sizes DEF Kept, TypeOK
<1>2. CASE channel_id[a] \in Ids /\ channel_id[b] \in Ids
  BY <1>1, <1>2, NameFacts DEF Sorted
<1>3. CASE channel_id[a] \notin Ids \/ channel_id[b] \notin Ids
  BY <1>1, <1>3, NameFacts, Sizes
<1> QED BY <1>2, <1>3

(* A step of one call leaves the others idle.                              *)
LEMMA OthersIdle ==
  ASSUME OneCall, NEW p \in Processes, pc[p] # "idle" \/ AllIdle
  PROVE  Alone(p)
BY DEF OneCall, Alone, AllIdle

(* Nothing is linked or written but by the call in progress.               *)
LEMMA OnlyCall ==
  ASSUME NEW p \in Processes, Alone(p)
  PROVE  /\ pc[p] # "link" => \A a \in Channels : ~ Linking(a)
         /\ pc[p] # "store" => \A a \in Channels : ~ Writes(a)
BY DEF Alone, Linking, Writes

(* A call that returns leaves every process idle.                          *)
LEMMA ReturnIdle ==
  ASSUME TypeOK, NEW p \in Processes, Alone(p), NEW r, Return(p, r),
         NEW own
  PROVE  /\ \A q \in Processes : pc'[q] = "idle"
         /\ OneCall'
         /\ (\A q \in Processes : Copied(q)) =>
              \A q \in Processes : Found(own, q)' /\ Copied(q)'
<1>1. \A q \in Processes : pc'[q] = "idle"
  BY DEF Return, Goto, TypeOK, Alone
<1>2. OneCall'
  BY <1>1 DEF OneCall, Alone
<1>3. ASSUME \A q \in Processes : Copied(q), NEW q \in Processes
      PROVE  Found(own, q)' /\ Copied(q)'
  <2>1. i'[q] = 0 /\ buffer'[q] = <<>>
    <3>1. q # p => pc[q] = "idle" /\ i[q] = 0 /\ buffer[q] = <<>>
      BY <1>3 DEF Alone, Copied
    <3> QED BY <3>1 DEF Return, TypeOK
  <2> QED BY <1>1, <2>1 DEF Found, Copied, Refers
<1> QED BY <1>1, <1>2, <1>3

(* A step that leaves the lists, the files and the messages alone keeps    *)
(* what is said of them.                                                   *)
LEMMA QuietStep ==
  ASSUME Base, NEW own, Turns(own), NEW p \in Processes, Alone(p),
         pc[p] \notin {"link", "store"},
         UNCHANGED <<loaded, heap, opened, private_data, asked, lastWritten>>,
         \A q \in Processes : pc'[q] \notin {"set", "link"}
  PROVE  Sorted(own)' /\ Chosen(own)' /\ Stored(own)' /\ Unkept' /\ HistoryOK'
<1>1. /\ UNCHANGED <<loaded, channelHeadsForMinorKey, channel_id, message_length,
                     message, next, allocated, opened, private_data, asked,
                     lastWritten>>
      /\ Kept' = Kept /\ \A a : NameOf(a)' = NameOf(a)
  BY DEF heap, Kept, NameOf
<1>2. /\ \A a \in Channels : ~ Linking(a) /\ ~ Writes(a)
      /\ Kept \subseteq Channels
  BY OnlyCall, Sizes DEF Kept, Base, TypeOK
<1>3. Sorted(own)'
  BY <1>1, <1>2 DEF Sorted, Turns
<1>4. Chosen(own)'
  <2>1. \A q \in Processes : pc[q] # "link"
    BY DEF Alone
  <2> QED BY <1>1, <2>1 DEF Chosen, Turns
<1>5. Stored(own)'
  BY <1>1, <1>2 DEF Stored, Turns, Holds
<1> QED BY <1>1, <1>3, <1>4, <1>5 DEF Unkept, HistoryOK, Base

(* A step of p that leaves it in a call keeps the others idle, and what is *)
(* said of them.                                                           *)
LEMMA MoveOn ==
  ASSUME TypeOK, NEW p \in Processes, Alone(p), NEW own,
         \A q \in Processes : Copied(q),
         NEW l, Goto(p, l),
         \A q \in Processes \ {p} : i'[q] = i[q] /\ buffer'[q] = buffer[q],
         Found(own, p)', Copied(p)'
  PROVE  /\ OneCall' /\ pc'[p] = l
         /\ \A q \in Processes : q # p => pc'[q] = "idle"
         /\ \A q \in Processes : Found(own, q)' /\ Copied(q)'
<1>1. /\ pc'[p] = l
      /\ \A q \in Processes : q # p => pc'[q] = "idle" /\ pc[q] = "idle"
  BY DEF Goto, TypeOK, Alone
<1>2. OneCall'
  BY <1>1 DEF OneCall, Alone
<1>3. ASSUME NEW q \in Processes, q # p PROVE Found(own, q)' /\ Copied(q)'
  <2>1. pc'[q] = "idle" /\ i'[q] = 0 /\ buffer'[q] = <<>>
    BY <1>1, <1>3 DEF Copied
  <2> QED BY <2>1 DEF Found, Copied, Refers
<1> QED BY <1>1, <1>2, <1>3

(* The parts together.                                                     *)
LEMMA Together ==
  ASSUME NEW own \in [Channels -> Minors \cup {NULL}],
         (TypeOK /\ Handles /\ Chained)', OneCall',
         Sorted(own)' /\ Chosen(own)' /\ Stored(own)' /\ Unkept' /\ HistoryOK',
         \A q \in Processes : Found(own, q)' /\ Copied(q)'
  PROVE  TurnsInv'
BY DEF TurnsInv, Turns, Base

(* What every case below starts from.                                      *)
Case(own, p) ==
  /\ Base /\ Turns(own) /\ own \in [Channels -> Minors \cup {NULL}]
  /\ p \in Processes /\ Alone(p)

Goal == TurnsInv' /\ [Slots!Next]_(Slots!vars)

(* The call in progress, its file and its channel.                         *)
LEMMA CaseFacts ==
  ASSUME NEW own, NEW p, Case(own, p)
  PROVE  /\ TypeOK /\ p \in Processes /\ Found(own, p) /\ Copied(p)
         /\ Kept \subseteq Channels /\ allocated \in Nat
         /\ \A a : a \in Kept <=> a \in Nat /\ 1 <= a /\ a <= allocated
         /\ pc[p] # "idle" =>
              /\ file[p] \in Files /\ opened[file[p]] /\ loaded
              /\ MinorOf[file[p]] = Minor(p) /\ Minor(p) \in Minors
         /\ pc[p] \in Refers => currChannel[p] \in Kept
         /\ pc[p] \in Searching => param[p] \in Ids
<1>1. /\ TypeOK /\ p \in Processes /\ Found(own, p) /\ Copied(p)
      /\ Kept \subseteq Channels /\ allocated \in Nat
  <2>1. TypeOK /\ p \in Processes /\ Found(own, p) /\ Copied(p)
    BY DEF Case, Base, Turns
  <2>2. allocated \in Nat /\ allocated <= MaxChannels
    BY <2>1, Sizes DEF TypeOK
  <2> QED BY <2>1, <2>2, Sizes DEF Kept
<1>2. \A a : a \in Kept <=> a \in Nat /\ 1 <= a /\ a <= allocated
  BY <1>1 DEF Kept
<1>3. pc[p] # "idle" =>
        /\ file[p] \in Files /\ opened[file[p]] /\ loaded
        /\ MinorOf[file[p]] = Minor(p) /\ Minor(p) \in Minors
  BY <1>1, Sizes DEF Case, Base, Handles, Minor
<1>4. pc[p] \in Refers => currChannel[p] \in Kept
  BY <1>1 DEF Case, Base, Handles, Kept
<1>5. pc[p] \in Searching => param[p] \in Ids
  BY <1>1 DEF Case, Base, Handles
<1> QED BY <1>1, <1>2, <1>3, <1>4, <1>5

(* A call that goes on, and leaves lists, files and messages alone.        *)
LEMMA QuietMove ==
  ASSUME NEW own, NEW p, Case(own, p), (TypeOK /\ Handles /\ Chained)',
         pc[p] \notin {"link", "store"},
         UNCHANGED <<loaded, heap, opened, private_data, history>>,
         NEW l, Goto(p, l), l \notin {"set", "link"},
         \A q \in Processes \ {p} : i'[q] = i[q] /\ buffer'[q] = buffer[q],
         Found(own, p)', Copied(p)'
  PROVE  Goal
<1>0. /\ Base /\ TypeOK /\ Turns(own) /\ p \in Processes /\ Alone(p)
      /\ own \in [Channels -> Minors \cup {NULL}]
      /\ \A q \in Processes : Copied(q)
  BY DEF Case, Base, Turns
<1>1. /\ OneCall' /\ pc'[p] = l
      /\ \A q \in Processes : q # p => pc'[q] = "idle"
      /\ \A q \in Processes : Found(own, q)' /\ Copied(q)'
  BY <1>0, MoveOn
<1>2. UNCHANGED <<ret, asked, lastWritten>>
  BY DEF history
<1>3. Sorted(own)' /\ Chosen(own)' /\ Stored(own)' /\ Unkept' /\ HistoryOK'
  BY <1>0, <1>1, <1>2, QuietStep
<1>4. TurnsInv'
  BY <1>0, <1>1, <1>3, Together
<1> QED BY <1>2, <1>4 DEF Goal, Slots!vars

(* A call that returns, and leaves lists, files and messages alone.        *)
LEMMA QuietReturn ==
  ASSUME NEW own, NEW p, Case(own, p), (TypeOK /\ Handles /\ Chained)',
         pc[p] \notin {"link", "store"},
         UNCHANGED <<loaded, heap, opened, private_data, asked, lastWritten>>,
         NEW r, Return(p, r)
  PROVE  TurnsInv'
<1>0. /\ Base /\ TypeOK /\ Turns(own) /\ p \in Processes /\ Alone(p)
      /\ own \in [Channels -> Minors \cup {NULL}]
      /\ \A q \in Processes : Copied(q)
  BY DEF Case, Base, Turns
<1>1. /\ OneCall' /\ \A q \in Processes : pc'[q] = "idle"
      /\ \A q \in Processes : Found(own, q)' /\ Copied(q)'
  BY <1>0, ReturnIdle
<1>2. Sorted(own)' /\ Chosen(own)' /\ Stored(own)' /\ Unkept' /\ HistoryOK'
  BY <1>0, <1>1, QuietStep
<1> QED BY <1>0, <1>1, <1>2, Together

(* A call that is refused.                                                 *)
LEMMA CaseRefused ==
  ASSUME NEW own, NEW p, Case(own, p), (TypeOK /\ Handles /\ Chained)',
         pc[p] \notin {"link", "store"},
         NEW e \in Slots!Errors \ {"EWOULDBLOCK"}, Refuse(p, e)
  PROVE  Goal
<1>1. /\ ret' = Slots!Failed(e) /\ UNCHANGED <<lastWritten, asked>>
      /\ Return(p, Slots!Failed(e))
  BY DEF Refuse, Return
<1>2. TurnsInv'
  BY <1>1, QuietReturn DEF Refuse
<1> QED BY <1>1, <1>2 DEF Goal, Slots!Next, Slots!Fail

(* ioctl looks for the head of the list ...                                *)
LEMMA CaseHead ==
  ASSUME NEW own, NEW p, Case(own, p), (TypeOK /\ Handles /\ Chained)',
         ioctlHead(p)
  PROVE  Goal
<1> DEFINE c == channelHeadsForMinorKey[Minor(p)]
           l == IF c = NULL THEN "first" ELSE "walk"
<1>1. /\ pc[p] = "head" /\ TypeOK /\ p \in Processes
      /\ Minor(p) \in Minors /\ MinorOf[file[p]] = Minor(p) /\ loaded
      /\ Kept \subseteq Channels
  BY CaseFacts DEF ioctlHead
<1>2. /\ currChannel'[p] = c /\ Goto(p, l) /\ pc'[p] = l
      /\ UNCHANGED <<loaded, heap, opened, private_data, file, param, buffer, i,
                     history>>
  BY <1>1 DEF ioctlHead, Goto, TypeOK
<1>3. /\ Minor(p)' = Minor(p) /\ Kept' = Kept
      /\ UNCHANGED <<channelHeadsForMinorKey, channel_id>>
  BY <1>2 DEF Minor, Kept, heap
<1>4. Found(own, p)'
  <2>1. CASE c = NULL
    BY <1>2, <1>3, <2>1 DEF Found, Refers
  <2>2. CASE c # NULL
    <3>1. own[c] = Minor(p)
      BY <1>1, <2>2 DEF Case, Turns, Sorted
    <3>2. \A b \in Kept : own[b] = Minor(p) => c <= b
      BY <1>1, <2>2, OnlyCall DEF Case, Turns, Sorted
    <3> QED BY <1>2, <1>3, <2>2, <3>1, <3>2 DEF Found
  <2> QED BY <2>1, <2>2
<1>5. Copied(p)'
  <2>1. i'[p] = 0 /\ buffer'[p] = <<>>
    BY <1>1, <1>2, CaseFacts DEF Copied
  <2> QED BY <1>2, <2>1 DEF Copied
<1>6. l \notin {"set", "link"} /\ UNCHANGED <<i, buffer>>
  BY <1>2
<1> HIDE DEF l, c
<1> QED BY <1>1, <1>2, <1>4, <1>5, <1>6, QuietMove

(* ... and for the end of it: the channels it has passed have other        *)
(* numbers, and those that follow are newer.                               *)
LEMMA CaseWalk ==
  ASSUME NEW own, NEW p, Case(own, p), (TypeOK /\ Handles /\ Chained)',
         ioctlWalk(p)
  PROVE  Goal
<1> DEFINE c == currChannel[p]
           l == IF next[c] = NULL THEN "append" ELSE "walk"
<1>1. /\ pc[p] = "walk" /\ TypeOK /\ p \in Processes /\ c \in Kept
      /\ Kept \subseteq Channels /\ channel_id[c] # param[p] /\ own[c] = Minor(p)
      /\ \A b \in Kept : own[b] = Minor(p) /\ channel_id[b] = param[p] => c <= b
      /\ Kept \subseteq Nat
  BY CaseFacts DEF ioctlWalk, isFound, Found, Refers
<1>2. /\ Goto(p, l) /\ pc'[p] = l
      /\ currChannel'[p] = IF next[c] = NULL THEN c ELSE next[c]
      /\ UNCHANGED <<loaded, heap, opened, private_data, file, param, buffer, i,
                     history>>
  <2>1. CASE next[c] = NULL
    BY <1>1, <2>1 DEF ioctlWalk, Goto, TypeOK
  <2>2. CASE next[c] # NULL
    BY <1>1, <2>2 DEF ioctlWalk, Goto, TypeOK
  <2> QED BY <2>1, <2>2
<1>3. Minor(p)' = Minor(p) /\ Kept' = Kept /\ UNCHANGED <<next, channel_id>>
  BY <1>2 DEF Minor, Kept, heap
<1>4. \A b \in Kept : own[b] = Minor(p) /\ channel_id[b] = param[p] =>
        next[c] # NULL /\ next[c] <= b
  <2> SUFFICES ASSUME NEW b \in Kept, own[b] = Minor(p), channel_id[b] = param[p]
               PROVE  next[c] # NULL /\ next[c] <= b
    OBVIOUS
  <2>1. c \in Nat /\ b \in Nat /\ c <= b /\ c # b
    BY <1>1
  <2>2. c < b
    BY <2>1
  <2> QED BY <1>1, <2>2 DEF Case, Turns, Sorted
<1>5. Found(own, p)'
  <2>1. CASE next[c] = NULL
    BY <1>1, <1>2, <1>3, <1>4, <2>1 DEF Found
  <2>2. CASE next[c] # NULL
    <3>1. own[next[c]] = Minor(p)
      BY <1>1, <2>2 DEF Case, Turns, Sorted
    <3> QED BY <1>1, <1>2, <1>3, <1>4, <2>2, <3>1 DEF Found
  <2> QED BY <2>1, <2>2
<1>6. Copied(p)'
  <2>1. i'[p] = 0 /\ buffer'[p] = <<>>
    BY <1>1, <1>2, CaseFacts DEF Copied
  <2> QED BY <1>2, <2>1 DEF Copied
<1>7. l \notin {"set", "link"} /\ UNCHANGED <<i, buffer>>
  BY <1>2
<1> HIDE DEF l, c
<1> QED BY <1>1, <1>2, <1>5, <1>6, <1>7, QuietMove

(* A file that is read or written was asked for the channel it refers to,  *)
(* which belongs to its device ...                                         *)
LEMMA AskedFor ==
  ASSUME NEW own, NEW p, Case(own, p),
         pc[p] \in {"length", "store", "test", "fetch"}
  PROVE  LET c == currChannel[p] IN
         /\ c \in Kept /\ c \in Channels /\ own[c] = Minor(p)
         /\ c = private_data[file[p]] /\ asked[file[p]] = NameOf(c)
         /\ NameOf(c) \in Slots!Names /\ NameOf(c) # 0
         /\ lastWritten[Minor(p)][NameOf(c)] \in Seq(Bytes)
<1> DEFINE c == currChannel[p]
<1>1. /\ c \in Kept /\ own[c] = Minor(p) /\ c = private_data[file[p]]
      /\ c \in Channels /\ file[p] \in Files /\ opened[file[p]] /\ TypeOK
      /\ Minor(p) \in Minors
  BY CaseFacts DEF Found, Refers
<1>2. NameOf(c) \in Slots!Names /\ NameOf(c) # 0
  BY <1>1, NameFacts
<1>3. asked[file[p]] = NameOf(c)
  <2>1. \A q \in Processes : pc[q] # "link"
    BY DEF Case, Alone
  <2>2. c # NULL
    BY <1>1, Sizes
  <2> QED BY <1>1, <2>1, <2>2 DEF Case, Turns, Chosen
<1>4. lastWritten[Minor(p)][NameOf(c)] \in Seq(Bytes)
  BY <1>1, <1>2 DEF Case, Base, HistoryOK
<1> QED BY <1>1, <1>2, <1>3, <1>4

(* ... and holds its message when nobody writes.                           *)
LEMMA HoldsWritten ==
  ASSUME NEW own, NEW p, Case(own, p), pc[p] # "store", NEW a \in Kept
  PROVE  Holds(a, lastWritten[own[a]][NameOf(a)])
<1>1. a \in Channels
  BY CaseFacts
<1> QED BY <1>1, OnlyCall DEF Case, Turns, Stored

(* A read that finds the channel empty says so.                            *)
LEMMA CaseEmpty ==
  ASSUME NEW own, NEW p, Case(own, p), (TypeOK /\ Handles /\ Chained)',
         pc[p] = "test", message_length[currChannel[p]] = 0,
         Refuse(p, "EWOULDBLOCK")
  PROVE  Goal /\ Slots!Read(file[p])
<1> DEFINE c == currChannel[p]
           m == lastWritten[Minor(p)][NameOf(c)]
<1>1. /\ ret' = Slots!Failed("EWOULDBLOCK") /\ UNCHANGED <<lastWritten, asked>>
      /\ Return(p, Slots!Failed("EWOULDBLOCK"))
  BY DEF Refuse, Return
<1>2. TurnsInv'
  BY <1>1, QuietReturn DEF Refuse
<1>3. file[p] \in Files /\ MinorOf[file[p]] = Minor(p)
  BY CaseFacts
<1>4. /\ c \in Kept /\ own[c] = Minor(p) /\ asked[file[p]] = NameOf(c)
      /\ NameOf(c) # 0 /\ m \in Seq(Bytes)
  BY AskedFor
<1>5. m = <<>>
  <2>1. Len(m) = 0
    BY <1>4, HoldsWritten DEF Holds
  <2> QED BY <2>1, <1>4, EmptySeq
<1>6. Slots!Read(file[p])
  BY <1>1, <1>3, <1>4, <1>5 DEF Slots!Read
<1> QED BY <1>2, <1>3, <1>6 DEF Goal, Slots!Next

(* A read that ends returns the message that was last written.             *)
LEMMA CaseReadEnd ==
  ASSUME NEW own, NEW p, Case(own, p), (TypeOK /\ Handles /\ Chained)',
         readEnd(p)
  PROVE  Goal /\ Slots!Read(file[p])
<1> DEFINE c == currChannel[p]
           m == lastWritten[Minor(p)][NameOf(c)]
<1>1. /\ ret' = Slots!Success(buffer[p]) /\ UNCHANGED <<lastWritten, asked>>
      /\ Return(p, Slots!Success(buffer[p])) /\ pc[p] = "fetch"
      /\ ~ (i[p] < message_length[c])
  BY DEF readEnd, Return, More
<1>2. TurnsInv'
  BY <1>1, QuietReturn DEF readEnd
<1>3. file[p] \in Files /\ MinorOf[file[p]] = Minor(p)
  BY <1>1, CaseFacts
<1>4. /\ c \in Kept /\ c \in Channels /\ own[c] = Minor(p)
      /\ asked[file[p]] = NameOf(c)
      /\ NameOf(c) # 0 /\ m \in Seq(Bytes)
  BY <1>1, AskedFor
<1>5. /\ message_length[c] = Len(m)
      /\ \A k \in 1 .. Len(m) : message[c][k] = m[k]
  BY <1>1, <1>4, HoldsWritten DEF Holds
<1>6. /\ i[p] \in Int /\ message_length[c] \in Int /\ p \in Processes
      /\ buffer[p] \in Seq(Bytes \cup {Garbage, 0})
  <2>1. TypeOK /\ p \in Processes
    BY CaseFacts
  <2>2. message_length[c] \in 0 .. BUF_LEN /\ i[p] \in 0 .. BUF_LEN
    BY <2>1, <1>4 DEF TypeOK
  <2>3. buffer[p] \in Seq(Bytes \cup {Garbage, 0})
    BY <2>1 DEF TypeOK
  <2> QED BY <2>1, <2>2, <2>3, Sizes
<1>7. /\ message_length[c] >= 1 /\ i[p] <= message_length[c] /\ Len(buffer[p]) = i[p]
      /\ \A k \in 1 .. i[p] : buffer[p][k] = message[c][k]
  BY <1>1, CaseFacts DEF Copied
<1>8. Len(buffer[p]) = Len(m) /\ i[p] = Len(m) /\ Len(m) # 0
  BY <1>1, <1>5, <1>6, <1>7
<1>9. buffer[p] = m
  <2>1. m \in Seq(Bytes \cup {Garbage, 0})
    BY <1>4, SeqMonotonic
  <2>2. \A k \in 1 .. Len(m) : buffer[p][k] = m[k]
    BY <1>5, <1>7, <1>8
  <2> QED BY <1>6, <1>8, <2>1, <2>2, SeqEqual
<1>10. m # <<>>
  BY <1>8, EmptySeq
<1>11. Slots!Read(file[p])
  BY <1>1, <1>3, <1>4, <1>9, <1>10 DEF Slots!Read
<1> QED BY <1>2, <1>3, <1>11 DEF Goal, Slots!Next

(* Before that it has copied the part that it has come to.                 *)
LEMMA CaseReads ==
  ASSUME NEW own, NEW p, Case(own, p), (TypeOK /\ Handles /\ Chained)',
         readTest(p) \/ readByte(p)
  PROVE  Goal
<1> DEFINE c == currChannel[p]
<1>0. /\ pc[p] \in {"test", "fetch"} /\ TypeOK /\ p \in Processes
      /\ Found(own, p) /\ Copied(p) /\ c \in Channels
      /\ UNCHANGED <<loaded, heap, opened, private_data, history, file, param,
                     currChannel>>
  <2>1. pc[p] \in {"test", "fetch"}
    BY DEF readTest, readByte
  <2> QED BY <2>1, CaseFacts, AskedFor DEF readTest, readByte, locals
<1>1. /\ pc'[p] = "fetch" /\ Goto(p, "fetch")
      /\ \A q \in Processes \ {p} : i'[q] = i[q] /\ buffer'[q] = buffer[q]
  BY <1>0 DEF readTest, readByte, Goto, TypeOK, locals
<1>2. /\ UNCHANGED <<channelHeadsForMinorKey, channel_id, message_length, message,
                     next, allocated>>
      /\ Minor(p)' = Minor(p)
  BY <1>0 DEF heap, Minor
<1>3. Found(own, p)'
  BY <1>0, <1>1, <1>2 DEF Found, Refers
<1>4. message_length[c] \in Int /\ i[p] \in Int
  BY <1>0, Sizes DEF TypeOK
<1>5. Copied(p)'
  <2>1. CASE readTest(p)
    <3>1. /\ message_length[c] \in 1 .. param[p] /\ pc[p] = "test"
          /\ i'[p] = i[p] /\ buffer'[p] = buffer[p]
      BY <2>1 DEF readTest, locals
    <3>2. message_length[c] >= 1 /\ i[p] = 0 /\ buffer[p] = <<>>
      BY <1>0, <3>1, <1>4 DEF Copied
    <3>3. Len(buffer[p]) = 0
      BY <3>2, EmptySeq
    <3> QED BY <1>0, <1>1, <1>2, <1>4, <3>1, <3>2, <3>3 DEF Copied
  <2>2. CASE readByte(p)
    <3>1. /\ pc[p] = "fetch" /\ i[p] < message_length[c] /\ i'[p] = i[p] + 1
          /\ buffer'[p] = Append(buffer[p], message[c][i[p] + 1])
      BY <1>0, <2>2 DEF readByte, More, TypeOK
    <3>2. /\ Len(buffer[p]) = i[p] /\ message_length[c] >= 1
          /\ \A k \in 1 .. i[p] : buffer[p][k] = message[c][k]
      BY <1>0, <3>1 DEF Copied
    <3>3. /\ buffer[p] \in Seq(Bytes \cup {Garbage, 0})
          /\ message[c][i[p] + 1] \in Bytes \cup {Garbage, 0}
      <4>1. i[p] + 1 \in 1 .. BUF_LEN
        <5>1. message_length[c] <= BUF_LEN /\ i[p] >= 0
          BY <1>0, Sizes DEF TypeOK
        <5> QED BY <5>1, <3>1, <1>4, Sizes
      <4>2. message[c] \in [1 .. BUF_LEN -> Bytes \cup {Garbage, 0}]
        BY <1>0 DEF TypeOK
      <4>3. buffer[p] \in Seq(Bytes \cup {Garbage, 0})
        BY <1>0 DEF TypeOK
      <4> QED BY <4>1, <4>2, <4>3
    <3>4. /\ Len(buffer'[p]) = i[p] + 1
          /\ \A k \in 1 .. i[p] : buffer'[p][k] = buffer[p][k]
          /\ buffer'[p][i[p] + 1] = message[c][i[p] + 1]
      BY <3>1, <3>2, <3>3, AppendProperties
    <3>5. \A k \in 1 .. i[p] + 1 : buffer'[p][k] = message[c][k]
      <4> SUFFICES ASSUME NEW k \in 1 .. i[p] + 1
                   PROVE  buffer'[p][k] = message[c][k]
        OBVIOUS
      <4>1. k = i[p] + 1 \/ k \in 1 .. i[p]
        BY <1>4
      <4> QED BY <4>1, <3>2, <3>4
    <3>6. i[p] + 1 <= message_length[c]
      BY <3>1, <1>4
    <3> QED BY <1>0, <1>1, <1>2, <3>1, <3>2, <3>4, <3>5, <3>6 DEF Copied
  <2> QED BY <2>1, <2>2
<1> QED BY <1>0, <1>1, <1>3, <1>5, QuietMove

(* A file that ioctl sets to a channel is asked for by its name.           *)
LEMMA Settled ==
  ASSUME NEW own, NEW p, Case(own, p), pc[p] \in {"walk", "set", "link"},
         private_data' = [private_data EXCEPT ![file[p]] = currChannel[p]],
         asked' = [asked EXCEPT ![file[p]] = NameOf(currChannel[p])],
         UNCHANGED <<opened, allocated, channel_id, lastWritten>>,
         \A q \in Processes : pc'[q] = "idle"
  PROVE  Chosen(own)' /\ HistoryOK'
<1> DEFINE c == currChannel[p]
           f == file[p]
<1>1. /\ TypeOK /\ c \in Kept /\ c \in Channels /\ own[c] = MinorOf[f]
      /\ f \in Files /\ opened[f] /\ p \in Processes /\ c # NULL
      /\ Chosen(own) /\ HistoryOK /\ Alone(p)
  <2>1. TypeOK /\ p \in Processes /\ Chosen(own) /\ HistoryOK /\ Alone(p)
    BY DEF Case, Turns, Base
  <2>2. pc[p] # "idle" /\ pc[p] \in Refers
    BY DEF Refers
  <2>3. /\ c \in Kept /\ own[c] = Minor(p) /\ f \in Files /\ opened[f]
        /\ MinorOf[f] = Minor(p) /\ Kept \subseteq Channels
    BY <2>2, CaseFacts DEF Found
  <2>4. c \in Channels
    BY <2>3
  <2>5. \A x \in Channels : x # NULL
    BY Sizes
  <2> QED BY <2>1, <2>3, <2>4, <2>5
<1>2. NameOf(c) \in Slots!Names /\ NameOf(c) # 0
  BY <1>1, NameFacts
<1>3. Kept' = Kept /\ \A a : NameOf(a)' = NameOf(a)
  BY DEF Kept, NameOf
<1>4. /\ asked'[f] = NameOf(c) /\ private_data'[f] = c
      /\ \A g \in Files : g # f =>
           asked'[g] = asked[g] /\ private_data'[g] = private_data[g]
  BY <1>1 DEF HistoryOK, TypeOK
<1>5. HistoryOK'
  BY <1>1, <1>2 DEF HistoryOK
<1> HIDE DEF c, f
<1>6. ASSUME NEW g \in Files, ~ opened'[g] PROVE asked'[g] = 0
  BY <1>1, <1>4, <1>6 DEF Chosen
<1>7. ASSUME NEW g \in Files, opened'[g], private_data'[g] # NULL
      PROVE  own[private_data'[g]] = MinorOf[g]
  BY <1>1, <1>4, <1>7 DEF Chosen
<1>8. ASSUME NEW g \in Files, opened'[g]
      PROVE  asked'[g] = IF private_data'[g] = NULL THEN 0
                                                  ELSE NameOf(private_data'[g])
  <2>1. g # f => ~ \E q \in Processes : pc[q] = "link" /\ file[q] = g
    BY <1>1 DEF Alone, f
  <2> QED BY <1>1, <1>4, <1>8, <2>1 DEF Chosen
<1>9. ASSUME NEW g \in Files, asked'[g] # 0
      PROVE  \E a \in Kept : asked'[g] = NameOf(a)
  BY <1>1, <1>4, <1>9 DEF Chosen
<1>10. Chosen(own)'
  BY <1>3, <1>6, <1>7, <1>8, <1>9 DEF Chosen
<1> QED BY <1>5, <1>10

(* The lists and the messages are as they were when ioctl sets a file to a *)
(* channel that is in its list.                                            *)
LEMMA StillSorted ==
  ASSUME NEW own, NEW p, Case(own, p), pc[p] \in {"walk", "set"},
         UNCHANGED <<loaded, heap, lastWritten>>
  PROVE  Sorted(own)' /\ Stored(own)' /\ Unkept'
<1>1. /\ UNCHANGED <<loaded, channelHeadsForMinorKey, channel_id, message_length,
                     message, next, allocated, lastWritten>>
      /\ Kept' = Kept /\ \A a : NameOf(a)' = NameOf(a)
  BY DEF heap, Kept, NameOf
<1>2. /\ \A a \in Channels : ~ Linking(a) /\ ~ Writes(a)
      /\ Kept \subseteq Channels
  BY OnlyCall, CaseFacts DEF Case
<1>3. Sorted(own)'
  BY <1>1, <1>2 DEF Sorted, Turns, Case
<1>4. Stored(own)'
  BY <1>1, <1>2 DEF Stored, Turns, Holds, Case
<1> QED BY <1>1, <1>3, <1>4 DEF Unkept, Base, Case

(* A channel that was just allocated has a name that nobody uses ...       *)
LEMMA NewName ==
  ASSUME NoAliases, NEW own, NEW p, Case(own, p), pc[p] \in {"set", "link"}
  PROVE  LET c == currChannel[p] IN
         /\ NameOf(c) = Name(p, c)
         /\ NameOf(c) \in IF param[p] < IdLimit THEN {param[p]}
                                                ELSE Slots!Unused(Minor(p))
<1> DEFINE c == currChannel[p]
<1>1. /\ TypeOK /\ p \in Processes /\ c \in Kept /\ c \in Channels
      /\ param[p] \in Ids /\ Minor(p) \in Minors
      /\ own[c] = Minor(p)
      /\ channel_id[c] = param[p] % IdLimit /\ message_length[c] = 0
  BY CaseFacts DEF Found, Refers, Searching
<1>2. param[p] \in Nat /\ IdLimit \in Nat /\ IdLimit >= 1
  <2>1. param[p] \in Ids
    BY <1>1
  <2> QED BY <2>1, Sizes
<1>3. CASE param[p] < IdLimit
  <2>1. channel_id[c] = param[p]
    <3>1. \A a \in Nat, b \in Nat : a < b => a % b = a
      OBVIOUS
    <3> QED BY <1>1, <1>2, <1>3, <3>1
  <2> QED BY <1>1, <1>3, <2>1, NameFacts DEF Name
<1>4. CASE ~ (param[p] < IdLimit)
  <2>1. NameOf(c) = IdLimit + c
    <3>1. param[p] >= IdLimit
      BY <1>2, <1>4
    <3> QED BY <1>1, <3>1, NameFacts DEF NoAliases
  <2>2. lastWritten[Minor(p)][NameOf(c)] = <<>>
    <3>1. Len(lastWritten[Minor(p)][NameOf(c)]) = 0
      BY <1>1, HoldsWritten DEF Holds
    <3>2. lastWritten[Minor(p)][NameOf(c)] \in Seq(Bytes)
      BY <1>1, NameFacts DEF Case, Base, HistoryOK
    <3> QED BY <3>1, <3>2, EmptySeq
  <2>3. ASSUME NEW f \in Files, asked[f] = IdLimit + c PROVE FALSE
    <3>1. IdLimit + c # 0
      BY <1>2, <1>1, Sizes
    <3>2. PICK a \in Kept : asked[f] = NameOf(a) /\ a # c
      BY <1>1, <2>3, <3>1 DEF Case, Turns, Chosen
    <3>3. a \in Channels
      BY CaseFacts
    <3>4. IdLimit + c = NameOf(a) /\ ~ (IdLimit + c < IdLimit)
          /\ (IdLimit + c = IdLimit + a => a = c)
      BY <3>2, <2>3, <3>3, <1>1, <1>2, Sizes
    <3> QED BY <1>1, <3>2, <3>3, <3>4, NameFacts
  <2> QED BY <1>1, <1>4, <2>1, <2>2, <2>3 DEF Name, Slots!Unused
<1> QED BY <1>3, <1>4

(* ... and so does a file that is set to one choose it.                    *)
LEMMA Chooses ==
  ASSUME NEW own, NEW p, Case(own, p), pc[p] \in Searching,
         NEW k \in IF param[p] < IdLimit THEN {param[p]}
                                         ELSE Slots!Unused(Minor(p)),
         asked' = [asked EXCEPT ![file[p]] = k],
         ret' = Slots!Success(<<>>), UNCHANGED lastWritten
  PROVE  Slots!Choose(file[p], param[p]) /\ Slots!Next
<1>1. /\ param[p] \in Ids /\ file[p] \in Files /\ MinorOf[file[p]] = Minor(p)
      /\ pc[p] # "idle"
  BY CaseFacts DEF Searching
<1>2. param[p] < IdLimit <=> ~ (param[p] >= IdLimit)
  <2>1. \A a \in Nat, b \in Nat : a < b <=> ~ (a >= b)
    OBVIOUS
  <2>2. param[p] \in Nat /\ IdLimit \in Nat
    <3>1. param[p] \in Ids
      BY <1>1
    <3> QED BY <3>1, Sizes
  <2> QED BY <2>1, <2>2
<1>3. Slots!Choose(file[p], param[p])
  BY <1>1, <1>2 DEF Slots!Choose
<1> QED BY <1>1, <1>3 DEF Slots!Next

(* ioctl sets a file to a channel of the list, found or just appended ...  *)
LEMMA CaseSet ==
  ASSUME NoAliases, NEW own, NEW p, Case(own, p), (TypeOK /\ Handles /\ Chained)',
         ioctlFound(p) \/ ioctlSet(p)
  PROVE  Goal /\ Slots!Choose(file[p], param[p])
<1> DEFINE c == currChannel[p]
<1>1. /\ pc[p] \in {"walk", "set"} /\ Return(p, Slots!Success(<<>>))
      /\ UNCHANGED <<loaded, heap, opened, lastWritten>>
      /\ private_data' = [private_data EXCEPT ![file[p]] = c]
      /\ asked' = [asked EXCEPT ![file[p]] = Name(p, c)]
      /\ ret' = Slots!Success(<<>>)
  BY DEF ioctlFound, ioctlSet, SetFile, Return
<1>2. /\ TypeOK /\ p \in Processes /\ Alone(p) /\ \A q \in Processes : Copied(q)
      /\ own \in [Channels -> Minors \cup {NULL}]
  BY DEF Case, Base, Turns
<1>3. /\ \A q \in Processes : pc'[q] = "idle"
      /\ OneCall'
      /\ \A q \in Processes : Found(own, q)' /\ Copied(q)'
  BY <1>1, <1>2, ReturnIdle
<1>4. /\ NameOf(c) = Name(p, c)
      /\ NameOf(c) \in IF param[p] < IdLimit THEN {param[p]}
                                             ELSE Slots!Unused(Minor(p))
  <2>1. CASE pc[p] = "set"
    BY <2>1, NewName
  <2>2. CASE pc[p] = "walk"
    <3>1. /\ channel_id[c] = param[p] /\ param[p] \in Ids /\ c \in Channels
      BY <1>1, <2>2, CaseFacts DEF ioctlFound, ioctlSet, isFound, Refers, Searching
    <3> QED BY <1>2, <3>1, NameFacts DEF Name
  <2> QED BY <1>1, <2>1, <2>2
<1>5. Chosen(own)' /\ HistoryOK'
  <2>1. UNCHANGED <<opened, allocated, channel_id, lastWritten>>
    BY <1>1 DEF heap
  <2> QED BY <1>1, <1>3, <1>4, <2>1, Settled
<1>6. Sorted(own)' /\ Stored(own)' /\ Unkept'
  BY <1>1, StillSorted
<1>7. TurnsInv'
  BY <1>2, <1>3, <1>5, <1>6, Together
<1>8. Slots!Choose(file[p], param[p]) /\ Slots!Next
  BY <1>1, <1>4, Chooses DEF Searching
<1> QED BY <1>7, <1>8 DEF Goal

(* ... or to the first channel, which is a list from then on.              *)
LEMMA CaseLink ==
  ASSUME NoAliases, NEW own, NEW p, Case(own, p), (TypeOK /\ Handles /\ Chained)',
         ioctlLink(p)
  PROVE  Goal /\ Slots!Choose(file[p], param[p])
<1> DEFINE c == currChannel[p]
           n == Minor(p)
<1>1. /\ pc[p] = "link" /\ Return(p, Slots!Success(<<>>))
      /\ UNCHANGED <<loaded, channel_id, message_length, message, next, allocated,
                     opened, private_data, lastWritten>>
      /\ channelHeadsForMinorKey' = [channelHeadsForMinorKey EXCEPT ![n] = c]
      /\ asked' = [asked EXCEPT ![file[p]] = Name(p, c)]
      /\ ret' = Slots!Success(<<>>)
  BY DEF ioctlLink, Return, Minor
<1>2. /\ TypeOK /\ p \in Processes /\ Alone(p) /\ \A q \in Processes : Copied(q)
      /\ own \in [Channels -> Minors \cup {NULL}]
  BY DEF Case, Base, Turns
<1>3. /\ c \in Kept /\ c \in Channels /\ own[c] = n /\ n \in Minors /\ c # NULL
      /\ Kept \subseteq Channels /\ Kept \subseteq Nat
      /\ c = private_data[file[p]] /\ channelHeadsForMinorKey[n] = NULL
      /\ file[p] \in Files /\ param[p] \in Ids
  BY <1>1, CaseFacts, Sizes DEF Found, Refers, Searching
<1>4. /\ \A q \in Processes : pc'[q] = "idle"
      /\ OneCall'
      /\ \A q \in Processes : Found(own, q)' /\ Copied(q)'
  BY <1>1, <1>2, ReturnIdle
<1>5. /\ NameOf(c) = Name(p, c)
      /\ NameOf(c) \in IF param[p] < IdLimit THEN {param[p]}
                                             ELSE Slots!Unused(Minor(p))
  BY <1>1, NewName
<1>6. Chosen(own)' /\ HistoryOK'
  <2>1. private_data' = [private_data EXCEPT ![file[p]] = c]
    BY <1>1, <1>2, <1>3 DEF TypeOK
  <2> QED BY <1>1, <1>4, <1>5, <2>1, Settled
<1>7. Kept' = Kept /\ \A a : NameOf(a)' = NameOf(a)
  BY <1>1 DEF Kept, NameOf
<1>8. Sorted(own)'
  <2>1. /\ channelHeadsForMinorKey'[n] = c
        /\ \A k \in Minors : k # n =>
             channelHeadsForMinorKey'[k] = channelHeadsForMinorKey[k]
    BY <1>1, <1>2, <1>3 DEF TypeOK
  <2>2. Sorted(own)
    BY DEF Case, Turns
  <2>3. \A a \in Kept : Linking(a) => a = c
    BY <1>1, <1>2 DEF Alone, Linking
  <2> HIDE DEF c, n
  <2>4. \A a \in Kept : /\ channelHeadsForMinorKey'[own[a]] # NULL
                        /\ channelHeadsForMinorKey'[own[a]] <= a
    <3> SUFFICES ASSUME NEW a \in Kept
                 PROVE  /\ channelHeadsForMinorKey'[own[a]] # NULL
                        /\ channelHeadsForMinorKey'[own[a]] <= a
      OBVIOUS
    <3>1. CASE a = c
      BY <1>3, <2>1, <3>1
    <3>2. CASE a # c
      <4>1. /\ channelHeadsForMinorKey[own[a]] # NULL /\ own[a] \in Minors
            /\ channelHeadsForMinorKey[own[a]] <= a
        BY <2>2, <2>3, <3>2 DEF Sorted
      <4> QED BY <4>1, <1>3, <2>1
    <3> QED BY <3>1, <3>2
  <2>5. \A k \in Minors : loaded /\ channelHeadsForMinorKey'[k] # NULL =>
          own[channelHeadsForMinorKey'[k]] = k
    BY <1>3, <2>1, <2>2 DEF Sorted
  <2> QED BY <1>1, <1>7, <2>2, <2>4, <2>5 DEF Sorted
<1>9. Stored(own)'
  <2>1. \A a \in Kept : ~ Writes(a)
    BY <1>1, <1>2, <1>3, OnlyCall
  <2> QED BY <1>1, <1>7, <2>1 DEF Stored, Turns, Holds, Case
<1>10. Unkept'
  BY <1>1, <1>7 DEF Unkept, Base, Case
<1>11. TurnsInv'
  BY <1>2, <1>4, <1>6, <1>8, <1>9, <1>10, Together
<1>12. Slots!Choose(file[p], param[p]) /\ Slots!Next
  BY <1>1, <1>5, Chooses DEF Searching
<1> QED BY <1>11, <1>12 DEF Goal

(* N is a new channel of the device n, and own2 says so: it is empty, and   *)
(* no other channel of that device has its name or its number.             *)
Added(own, own2, N, n) ==
  /\ own2 \in [Channels -> Minors \cup {NULL}] /\ own2[N] = n
  /\ N \in Channels /\ N \notin Kept /\ Kept' = Kept \cup {N}
  /\ \A a \in Kept : a < N /\ own2[a] = own[a] /\ NameOf(a)' = NameOf(a)
  /\ message_length'[N] = 0 /\ next[N] = NULL
  /\ \A a, b \in Kept' :
       own2[a] = own2[b] /\ channel_id'[a] = channel_id'[b]
       /\ channel_id'[a] \in Ids => a = b
  /\ Stored(own2)'

(* The channel that ioctl allocates is new in this sense.                  *)
LEMMA Allocates ==
  ASSUME NoAliases, NEW own, NEW p, Case(own, p), pc[p] \in {"append", "first"},
         \A b \in Kept : own[b] = Minor(p) => channel_id[b] # param[p],
         newChannel(p), UNCHANGED <<lastWritten, asked>>,
         pc'[p] # "store", Alone(p)',
         NEW N, N = allocated + 1,
         NEW own2 \in [Channels -> Minors \cup {NULL}], own2[N] = Minor(p),
         \A a \in Kept : own2[a] = own[a]
  PROVE  /\ Added(own, own2, N, Minor(p))
         /\ channel_id'[N] = param[p] % IdLimit /\ currChannel'[p] = N
<1>0. N = allocated + 1
  OBVIOUS
<1> DEFINE n == Minor(p)
           k == NameOf(N)'
<1>1. /\ TypeOK /\ p \in Processes /\ param[p] \in Ids /\ n \in Minors
      /\ Kept \subseteq Channels /\ allocated \in Nat
      /\ own \in [Channels -> Minors \cup {NULL}] /\ Alone(p)
      /\ Unkept /\ HistoryOK /\ Stored(own)
  BY CaseFacts DEF Case, Base, Turns, Searching
<1>2. N \in Channels
  BY <1>0, <1>1, Sizes DEF newChannel
<1>3. /\ N \notin Kept /\ Kept' = Kept \cup {N} /\ \A a \in Kept : a < N /\ a # N
  <2>1. allocated' = N
    BY <1>0 DEF newChannel
  <2> QED BY <1>0, <1>1, <2>1 DEF Kept
<1>4. /\ own2 \in [Channels -> Minors \cup {NULL}] /\ own2[N] = n
      /\ \A a \in Kept : own2[a] = own[a]
  BY <1>0, <1>1, <1>2, <1>3
<1>5. /\ channel_id'[N] = param[p] % IdLimit
      /\ \A a \in Kept : channel_id'[a] = channel_id[a]
      /\ currChannel'[p] = N
      /\ UNCHANGED <<message_length, message>>
  BY <1>0, <1>1, <1>2, <1>3 DEF newChannel, TypeOK
<1>6. \A a \in Kept : NameOf(a)' = NameOf(a)
  BY <1>5 DEF NameOf
<1>7. next[N] = NULL /\ message_length'[N] = 0
  BY <1>1, <1>2, <1>3, <1>5 DEF Unkept
<1>8. \/ k = param[p] /\ param[p] < IdLimit /\ channel_id'[N] = param[p]
      \/ k = IdLimit + N /\ channel_id'[N] \notin Ids
  <2>1. param[p] \in Nat /\ IdLimit \in Nat
    BY <1>1, Sizes
  <2>2. CASE channel_id'[N] \in Ids
    <3>1. param[p] < IdLimit
      <4>1. ~ (param[p] >= IdLimit)
        BY <1>1, <1>5, <2>2 DEF NoAliases
      <4> QED BY <2>1, <4>1
    <3>2. \A a \in Nat, b \in Nat : a < b => a % b = a
      OBVIOUS
    <3>3. channel_id'[N] = param[p]
      BY <1>5, <2>1, <3>1, <3>2
    <3> QED BY <2>2, <3>1, <3>3 DEF NameOf
  <2>3. CASE channel_id'[N] \notin Ids
    BY <2>3 DEF NameOf
  <2> QED BY <2>2, <2>3
<1>9. ASSUME NEW a \in Kept, own[a] = n PROVE NameOf(a) # k /\
        (channel_id'[N] \in Ids => channel_id[a] # channel_id'[N])
  <2>1. a \in Channels /\ a # N /\ channel_id[a] # param[p]
    BY <1>1, <1>3, <1>9
  <2>2. /\ channel_id[a] \in Ids => NameOf(a) = channel_id[a] /\ NameOf(a) < IdLimit
        /\ channel_id[a] \notin Ids => NameOf(a) = IdLimit + a
    BY <1>1, <2>1, NameFacts
  <2>3. /\ IdLimit + a \in Nat /\ IdLimit + N \in Nat /\ IdLimit \in Nat
        /\ IdLimit + a # IdLimit + N
        /\ ~ (IdLimit + a < IdLimit) /\ ~ (IdLimit + N < IdLimit)
    BY <1>2, <2>1, Sizes
  <2> HIDE DEF k
  <2> QED BY <1>8, <2>1, <2>2, <2>3
<1>10. \A a, b \in Kept' :
         own2[a] = own2[b] /\ channel_id'[a] = channel_id'[b]
         /\ channel_id'[a] \in Ids => a = b
  <2> SUFFICES ASSUME NEW a \in Kept', NEW b \in Kept', own2[a] = own2[b],
                      channel_id'[a] = channel_id'[b], channel_id'[a] \in Ids
               PROVE  a = b
    OBVIOUS
  <2> HIDE DEF n
  <2>1. CASE a \in Kept /\ b \in Kept
    BY <1>4, <1>5, <2>1 DEF Case, Turns, Sorted
  <2>2. CASE a \in Kept /\ b = N
    BY <1>4, <1>5, <1>9, <2>2
  <2>3. CASE a = N /\ b \in Kept
    BY <1>4, <1>5, <1>9, <2>3
  <2> QED BY <1>3, <2>1, <2>2, <2>3
<1>11. k \in Slots!Names /\ lastWritten[n][k] = <<>>
  <2>1. k \in Slots!Names
    <3>1. param[p] < IdLimit => ~ (param[p] >= IdLimit)
      <4>1. param[p] \in Nat /\ IdLimit \in Nat
        BY <1>1, Sizes
      <4> QED BY <4>1
    <3> HIDE DEF k
    <3> QED BY <1>1, <1>2, <1>8, <3>1 DEF Slots!Names
  <2> HIDE DEF k, n
  <2> QED BY <1>1, <1>9, <2>1 DEF Stored
<1>12. Stored(own2)'
  <2>1. ASSUME NEW a \in Kept' PROVE Holds(a, lastWritten[own2[a]][NameOf(a)])'
    <3>1. CASE a \in Kept
      <4>1. ~ Writes(a)
        BY <1>1, <3>1, OnlyCall
      <4> QED BY <1>1, <1>4, <1>5, <1>6, <3>1, <4>1 DEF Stored, Holds
    <3>2. CASE a = N
      <4>1. Len(lastWritten[n][k]) = 0
        BY <1>11, EmptySeq
      <4> QED BY <1>4, <1>5, <1>7, <3>2, <4>1 DEF Holds
    <3> QED BY <1>3, <2>1, <3>1, <3>2
  <2>2. ASSUME NEW m \in Minors, NEW j \in Slots!Names, lastWritten'[m][j] # <<>>
        PROVE  \E a \in Kept' : own2[a] = m /\ NameOf(a)' = j
    BY <1>1, <1>3, <1>4, <1>6, <2>2 DEF Stored
  <2>3. (Slots!Names)' = Slots!Names
    BY DEF Slots!Names
  <2> QED BY <2>1, <2>2, <2>3 DEF Stored
<1> QED BY <1>0, <1>2, <1>3, <1>4, <1>5, <1>6, <1>7, <1>10, <1>12 DEF Added

(* Files that were asked for a channel refer to an older one.              *)
LEMMA StillChosen ==
  ASSUME NEW own, NEW p, Case(own, p), pc[p] # "link", Alone(p)', NEW own2,
         Kept \subseteq Kept', currChannel'[p] \notin Kept,
         \A a \in Kept : own2[a] = own[a] /\ NameOf(a)' = NameOf(a),
         UNCHANGED <<asked, opened, lastWritten>>,
         \A f \in Files :
           \/ private_data'[f] = private_data[f]
           \/ /\ pc'[p] = "link" /\ file'[p] = f
              /\ own2[private_data'[f]] = MinorOf[f]
  PROVE  Chosen(own2)' /\ HistoryOK'
<1>1. /\ TypeOK /\ Chosen(own) /\ HistoryOK /\ p \in Processes
      /\ \A q \in Processes : pc[q] # "link"
  BY DEF Case, Base, Turns, Alone
<1>2. \A f \in Files : opened[f] /\ private_data[f] # NULL => private_data[f] \in Kept
  <2>1. \A f \in Files :
          /\ opened[f] => private_data[f] <= allocated
          /\ private_data[f] # NULL => private_data[f] \in Nat /\ 1 <= private_data[f]
    BY <1>1, Sizes DEF Case, Base, Handles, TypeOK
  <2> QED BY <2>1, CaseFacts
<1>3. ASSUME NEW f \in Files, opened'[f], private_data'[f] # NULL
      PROVE  own2[private_data'[f]] = MinorOf[f]
  BY <1>1, <1>2, <1>3 DEF Chosen
<1>4. ASSUME NEW f \in Files, opened'[f]
      PROVE  \/ (asked[f] = IF private_data[f] = NULL THEN 0
                                                     ELSE NameOf(private_data[f]))'
             \/ \E q \in Processes : pc'[q] = "link" /\ file'[q] = f
  <2>1. CASE private_data'[f] = private_data[f]
    <3>1. asked[f] = IF private_data[f] = NULL THEN 0 ELSE NameOf(private_data[f])
      BY <1>1, <1>4 DEF Chosen
    <3>2. \A a \in Kept : NameOf(a)' = NameOf(a)
      OBVIOUS
    <3>3. PICK a : a = private_data[f]
      OBVIOUS
    <3>4. a # NULL => NameOf(a)' = NameOf(a)
      BY <1>2, <1>4, <3>2, <3>3
    <3>5. asked'[f] = IF a = NULL THEN 0 ELSE NameOf(a)'
      BY <3>1, <3>3, <3>4
    <3> QED BY <2>1, <3>3, <3>5
  <2>2. CASE private_data'[f] # private_data[f]
    BY <1>1, <2>2
  <2> QED BY <2>1, <2>2
<1>5. ASSUME NEW f \in Files, asked'[f] # 0
      PROVE  \E a \in Kept' :
               /\ asked'[f] = NameOf(a)'
               /\ \A q \in Processes : pc'[q] \in {"set", "link"} => a # currChannel'[q]
  <2>1. PICK a \in Kept : asked[f] = NameOf(a)
    BY <1>1, <1>5 DEF Chosen
  <2>2. ASSUME NEW q \in Processes, pc'[q] \in {"set", "link"}
        PROVE  a # currChannel'[q]
    BY <2>1, <2>2 DEF Alone
  <2> QED BY <2>1, <2>2
<1>6. \A f \in Files : ~ opened'[f] => asked'[f] = 0
  BY <1>1 DEF Chosen
<1>7. HistoryOK'
  <2>1. (Slots!Names)' = Slots!Names
    BY DEF Slots!Names
  <2> QED BY <1>1, <2>1 DEF HistoryOK
<1>8. Chosen(own2)'
  BY <1>3, <1>4, <1>5, <1>6 DEF Chosen
<1> QED BY <1>7, <1>8

(* ioctl appends a channel where the list ends: there, for nobody else is  *)
(* about to append.                                                        *)
LEMMA CaseAppend ==
  ASSUME NoAliases, NEW own, NEW p, Case(own, p), (TypeOK /\ Handles /\ Chained)',
         ioctlAppend(p)
  PROVE  Goal
<1>0. PICK N, c, n : N = allocated + 1 /\ c = currChannel[p] /\ n = Minor(p)
  OBVIOUS
<1>1. /\ TypeOK /\ p \in Processes /\ Alone(p) /\ Base /\ Turns(own)
      /\ own \in [Channels -> Minors \cup {NULL}]
      /\ Sorted(own) /\ \A q \in Processes : Copied(q)
  BY DEF Case, Base, Turns
<1>2. /\ pc[p] = "append" /\ newChannel(p) /\ Goto(p, "set")
      /\ next' = [next EXCEPT ![c] = N]
      /\ UNCHANGED <<loaded, opened, private_data, asked, lastWritten, ret, file,
                     param, buffer, i, channelHeadsForMinorKey>>
  BY <1>0 DEF ioctlAppend, linkLast, newChannel, history
<1>3. /\ c \in Kept /\ own[c] = n /\ next[c] = NULL /\ n \in Minors
      /\ \A b \in Kept : own[b] = n => channel_id[b] # param[p]
      /\ Kept \subseteq Channels /\ Kept \subseteq Nat
  BY <1>0, <1>2, CaseFacts DEF Found, Refers
<1>4. pc'[p] = "set" /\ Alone(p)' /\ file'[p] = file[p]
  BY <1>1, <1>2 DEF Goto, TypeOK, Alone
<1>a. N \in Channels /\ N \notin Kept
  BY <1>0, <1>2, CaseFacts, Sizes DEF newChannel
<1>b. PICK own2 \in [Channels -> Minors \cup {NULL}] :
        own2[N] = n /\ \A a \in Kept : own2[a] = own[a]
  <2>1. /\ [own EXCEPT ![N] = n] \in [Channels -> Minors \cup {NULL}]
        /\ [own EXCEPT ![N] = n][N] = n
        /\ \A a \in Kept : [own EXCEPT ![N] = n][a] = own[a]
    BY <1>1, <1>3, <1>a
  <2> QED BY <2>1
<1>c. /\ Added(own, own2, N, n)
      /\ channel_id'[N] = param[p] % IdLimit /\ currChannel'[p] = N
  <2>1. /\ own2[N] = Minor(p) /\ N = allocated + 1 /\ newChannel(p) /\ Alone(p)'
        /\ pc[p] \in {"append", "first"} /\ pc'[p] # "store"
        /\ \A b \in Kept : own[b] = Minor(p) => channel_id[b] # param[p]
        /\ UNCHANGED <<lastWritten, asked>>
    BY <1>0, <1>2, <1>3, <1>4, <1>b
  <2>2. /\ Added(own, own2, N, Minor(p))
        /\ channel_id'[N] = param[p] % IdLimit /\ currChannel'[p] = N
    BY <2>1, <1>b, Allocates
  <2> QED BY <1>0, <2>2
<1>5. /\ own2 \in [Channels -> Minors \cup {NULL}] /\ own2[N] = n
      /\ N \in Channels /\ N \notin Kept /\ Kept' = Kept \cup {N}
      /\ \A a \in Kept : a < N /\ own2[a] = own[a] /\ NameOf(a)' = NameOf(a)
      /\ channel_id'[N] = param[p] % IdLimit /\ next[N] = NULL
      /\ message_length'[N] = 0 /\ currChannel'[p] = N
      /\ \A a, b \in Kept' :
           own2[a] = own2[b] /\ channel_id'[a] = channel_id'[b]
           /\ channel_id'[a] \in Ids => a = b
      /\ Stored(own2)'
  BY <1>c DEF Added
<1>6. Chosen(own2)' /\ HistoryOK'
  BY <1>2, <1>4, <1>5, StillChosen
<1>7. next'[c] = N /\ \A a \in Channels : a # c => next'[a] = next[a]
  BY <1>1, <1>2, <1>3 DEF TypeOK
<1>8. /\ \A a \in Kept : next[a] # NULL => next[a] \in Kept
      /\ \A m \in Minors : loaded /\ channelHeadsForMinorKey[m] # NULL =>
           channelHeadsForMinorKey[m] \in Kept
  <2>1. /\ \A a \in Channels : next[a] # NULL =>
             next[a] \in Channels /\ next[a] <= allocated
        /\ \A m \in Minors : loaded /\ channelHeadsForMinorKey[m] # NULL =>
             /\ channelHeadsForMinorKey[m] \in Channels
             /\ channelHeadsForMinorKey[m] <= allocated
    BY <1>1, LinksLeadTo DEF Base
  <2> QED BY <1>3, <2>1, CaseFacts, Sizes
<1>9. Sorted(own2)'
  <2>1. \A a \in Kept' : own2[a] \in Minors
    BY <1>1, <1>3, <1>5 DEF Sorted
  <2>2. \A m \in Minors : loaded' /\ channelHeadsForMinorKey'[m] # NULL =>
          own2[channelHeadsForMinorKey'[m]] = m
    BY <1>1, <1>2, <1>5, <1>8 DEF Sorted
  <2>3. ASSUME NEW a \in Kept', next'[a] # NULL PROVE own2[next'[a]] = own2[a]
    <3>1. CASE a = c
      BY <1>3, <1>5, <1>7, <3>1
    <3>2. CASE a # c
      <4>1. a \in Kept /\ next'[a] = next[a]
        BY <1>3, <1>5, <1>7, <2>3, <3>2
      <4> QED BY <1>1, <1>5, <1>8, <2>3, <4>1 DEF Sorted
    <3> QED BY <3>1, <3>2
  <2>4. ASSUME NEW a \in Kept, own[a] = n, a # c PROVE next[a] # NULL /\ next[a] <= c
    <3>1. a < c \/ c < a
      <4>1. a \in Nat /\ c \in Nat
        BY <1>3
      <4> QED BY <2>4, <4>1
    <3>2. ~ (c < a)
      BY <1>1, <1>3, <2>4 DEF Sorted
    <3> QED BY <1>1, <1>3, <2>4, <3>1, <3>2 DEF Sorted
  <2>5. ASSUME NEW a \in Kept', NEW b \in Kept', a < b, own2[a] = own2[b]
        PROVE  next'[a] # NULL /\ next'[a] <= b
    <3>1. CASE b = N
      <4>1. a \in Kept /\ own[a] = n
        <5>1. a # N
          <6>1. N \in Nat
            BY <1>5, Sizes
          <6> QED BY <2>5, <3>1, <6>1
        <5> QED BY <1>5, <2>5, <3>1, <5>1
      <4>2. CASE a = c
        BY <1>5, <1>7, <3>1, <4>2, Sizes
      <4>3. CASE a # c
        <5>1. next'[a] = next[a] /\ next[a] # NULL /\ next[a] <= c
          BY <1>3, <1>7, <2>4, <4>1, <4>3
        <5>2. next[a] \in Nat /\ c \in Nat /\ c < N /\ N \in Nat
          <6>1. next[a] \in Kept /\ N \in Channels
            BY <1>5, <1>8, <4>1, <5>1
          <6>2. N \in Nat
            BY <6>1, Sizes
          <6> QED BY <1>3, <1>5, <6>1, <6>2
        <5> QED BY <3>1, <5>1, <5>2
      <4> QED BY <4>2, <4>3
    <3>2. CASE b # N
      <4>1. b \in Kept
        BY <1>5, <3>2
      <4>2. a \in Kept
        <5>1. a # N
          <6>1. N \in Nat /\ b \in Nat /\ b < N
            BY <1>3, <1>5, <4>1, Sizes
          <6> QED BY <2>5, <6>1
        <5> QED BY <1>5, <5>1
      <4>3. next[a] # NULL /\ next[a] <= b
        BY <1>1, <1>5, <2>5, <4>1, <4>2 DEF Sorted
      <4> QED BY <1>3, <1>7, <4>2, <4>3
    <3> QED BY <3>1, <3>2
  <2>6. ASSUME NEW a \in Kept' PROVE
          /\ channelHeadsForMinorKey'[own2[a]] # NULL
          /\ channelHeadsForMinorKey'[own2[a]] <= a
    <3>1. \A b \in Kept : /\ channelHeadsForMinorKey[own[b]] # NULL
                          /\ channelHeadsForMinorKey[own[b]] <= b
      <4>1. \A b \in Kept : ~ Linking(b)
        BY <1>1, <1>2, <1>3, OnlyCall
      <4> QED BY <1>1, <4>1 DEF Sorted
    <3>2. CASE a = N
      <4>1. channelHeadsForMinorKey[n] # NULL /\ channelHeadsForMinorKey[n] <= c
        BY <1>3, <3>1
      <4>2. channelHeadsForMinorKey[n] \in Nat /\ c \in Nat /\ c < N /\ N \in Nat
        <5>1. channelHeadsForMinorKey[n] \in Nat
          <6>1. channelHeadsForMinorKey[n] \in Channels \cup {NULL}
            BY <1>1, <1>3 DEF TypeOK
          <6> QED BY <6>1, Sizes
        <5>2. N \in Nat
          BY <1>5, Sizes
        <5> QED BY <5>1, <5>2, <1>3, <1>5
      <4>3. channelHeadsForMinorKey[n] <= N
        BY <4>1, <4>2
      <4> QED BY <1>2, <1>5, <3>2, <4>1, <4>3
    <3>3. CASE a # N
      BY <1>2, <1>5, <2>6, <3>1, <3>3
    <3> QED BY <3>2, <3>3
  <2> QED BY <1>5, <2>1, <2>2, <2>3, <2>5, <2>6 DEF Sorted
<1>10. Unkept'
  <2>1. UNCHANGED message_length
    BY <1>2 DEF newChannel
  <2> QED BY <1>1, <1>3, <1>5, <1>7, <2>1 DEF Unkept, Base
<1>11. OneCall' /\ \A q \in Processes : Found(own2, q)' /\ Copied(q)'
  <2>1. Minor(p)' = Minor(p)
    BY <1>2 DEF Minor
  <2>2. Found(own2, p)'
    BY <1>0, <1>2, <1>4, <1>5, <2>1 DEF Found
  <2>3. Copied(p)'
    <3>1. i[p] = 0 /\ buffer[p] = <<>>
      BY <1>1, <1>2 DEF Copied
    <3> QED BY <1>2, <1>4, <3>1 DEF Copied
  <2> QED BY <1>1, <1>2, <2>2, <2>3, MoveOn
<1>12. TurnsInv'
  BY <1>5, <1>6, <1>9, <1>10, <1>11, Together
<1> QED BY <1>2, <1>12 DEF Goal, Slots!vars

(* ioctl sets a file to the first channel of its device, which it links    *)
(* afterwards.                                                             *)
LEMMA CaseFirst ==
  ASSUME NoAliases, NEW own, NEW p, Case(own, p), (TypeOK /\ Handles /\ Chained)',
         ioctlFirst(p)
  PROVE  Goal
<1>0. PICK N, n, f : N = allocated + 1 /\ n = Minor(p) /\ f = file[p]
  OBVIOUS
<1>1. /\ TypeOK /\ p \in Processes /\ Alone(p) /\ Base /\ Turns(own)
      /\ own \in [Channels -> Minors \cup {NULL}]
      /\ Sorted(own) /\ \A q \in Processes : Copied(q)
  BY DEF Case, Base, Turns
<1>2. /\ pc[p] = "first" /\ newChannel(p) /\ Goto(p, "link")
      /\ private_data' = [private_data EXCEPT ![f] = N]
      /\ UNCHANGED <<loaded, opened, next, asked, lastWritten, ret, file,
                     param, buffer, i, channelHeadsForMinorKey>>
  BY <1>0 DEF ioctlFirst, newChannel, history
<1>3. /\ channelHeadsForMinorKey[n] = NULL /\ n \in Minors /\ f \in Files
      /\ Kept \subseteq Channels /\ Kept \subseteq Nat /\ MinorOf[f] = n
  BY <1>0, <1>2, CaseFacts DEF Found
<1>4. pc'[p] = "link" /\ Alone(p)' /\ file'[p] = f
  BY <1>0, <1>1, <1>2 DEF Goto, TypeOK, Alone
<1>5. \A b \in Kept : ~ Linking(b) /\ own[b] # n
  <2>1. \A b \in Kept : ~ Linking(b)
    BY <1>1, <1>2, <1>3, OnlyCall
  <2> QED BY <1>1, <1>3, <2>1 DEF Sorted
<1>6. N \in Channels /\ N \notin Kept
  BY <1>0, <1>2, CaseFacts, Sizes DEF newChannel
<1>7. PICK own2 \in [Channels -> Minors \cup {NULL}] :
        own2[N] = n /\ \A a \in Kept : own2[a] = own[a]
  <2>1. /\ [own EXCEPT ![N] = n] \in [Channels -> Minors \cup {NULL}]
        /\ [own EXCEPT ![N] = n][N] = n
        /\ \A a \in Kept : [own EXCEPT ![N] = n][a] = own[a]
    BY <1>1, <1>3, <1>6
  <2> QED BY <2>1
<1>8. /\ Added(own, own2, N, n)
      /\ channel_id'[N] = param[p] % IdLimit /\ currChannel'[p] = N
  <2>1. /\ own2[N] = Minor(p) /\ N = allocated + 1 /\ newChannel(p) /\ Alone(p)'
        /\ pc[p] \in {"append", "first"} /\ pc'[p] # "store"
        /\ \A b \in Kept : own[b] = Minor(p) => channel_id[b] # param[p]
        /\ UNCHANGED <<lastWritten, asked>>
    BY <1>0, <1>2, <1>4, <1>5, <1>7
  <2>2. /\ Added(own, own2, N, Minor(p))
        /\ channel_id'[N] = param[p] % IdLimit /\ currChannel'[p] = N
    BY <2>1, <1>7, Allocates
  <2> QED BY <1>0, <2>2
<1>9. /\ own2 \in [Channels -> Minors \cup {NULL}] /\ own2[N] = n
      /\ N \in Channels /\ N \notin Kept /\ Kept' = Kept \cup {N}
      /\ \A a \in Kept : a < N /\ own2[a] = own[a] /\ NameOf(a)' = NameOf(a)
      /\ channel_id'[N] = param[p] % IdLimit /\ next[N] = NULL
      /\ message_length'[N] = 0 /\ currChannel'[p] = N
      /\ \A a, b \in Kept' :
           own2[a] = own2[b] /\ channel_id'[a] = channel_id'[b]
           /\ channel_id'[a] \in Ids => a = b
      /\ Stored(own2)'
  BY <1>8 DEF Added
<1>10. /\ private_data'[f] = N
       /\ \A g \in Files : g # f => private_data'[g] = private_data[g]
  BY <1>1, <1>2, <1>3 DEF TypeOK
<1>11. Chosen(own2)' /\ HistoryOK'
  <2>1. \A g \in Files :
          \/ private_data'[g] = private_data[g]
          \/ /\ pc'[p] = "link" /\ file'[p] = g
             /\ own2[private_data'[g]] = MinorOf[g]
    BY <1>3, <1>4, <1>9, <1>10
  <2> QED BY <1>2, <1>4, <1>9, <2>1, StillChosen
<1>12. /\ \A a \in Kept : next[a] # NULL => next[a] \in Kept
       /\ \A m \in Minors : loaded /\ channelHeadsForMinorKey[m] # NULL =>
            channelHeadsForMinorKey[m] \in Kept
  <2>1. /\ \A a \in Channels : next[a] # NULL =>
             next[a] \in Channels /\ next[a] <= allocated
        /\ \A m \in Minors : loaded /\ channelHeadsForMinorKey[m] # NULL =>
             /\ channelHeadsForMinorKey[m] \in Channels
             /\ channelHeadsForMinorKey[m] <= allocated
    BY <1>1, LinksLeadTo DEF Base
  <2> QED BY <1>3, <2>1, CaseFacts, Sizes
<1>13. Sorted(own2)'
  <2>1. \A a \in Kept' : own2[a] \in Minors
    BY <1>1, <1>3, <1>9 DEF Sorted
  <2>2. \A m \in Minors : loaded' /\ channelHeadsForMinorKey'[m] # NULL =>
          own2[channelHeadsForMinorKey'[m]] = m
    BY <1>1, <1>2, <1>9, <1>12 DEF Sorted
  <2>3. ASSUME NEW a \in Kept', next'[a] # NULL PROVE own2[next'[a]] = own2[a]
    <3>1. a \in Kept /\ next'[a] = next[a]
      BY <1>2, <1>9, <2>3
    <3> QED BY <1>1, <1>9, <1>12, <2>3, <3>1 DEF Sorted
  <2>4. ASSUME NEW a \in Kept', NEW b \in Kept', a < b, own2[a] = own2[b]
        PROVE  next'[a] # NULL /\ next'[a] <= b
    <3>1. a \in Kept /\ b \in Kept
      <4>1. N \in Nat
        BY <1>9, Sizes
      <4>2. \A x \in Nat, y \in Nat : x < y => ~ (y < x)
        OBVIOUS
      <4>3. Kept' = Kept \cup {N} /\ \A x \in Kept : x < N /\ own2[x] # n
        BY <1>3, <1>5, <1>9
      <4>4. a # N
        BY <1>3, <2>4, <4>1, <4>2, <4>3
      <4>5. b # N
        BY <1>9, <2>4, <4>3, <4>4
      <4> QED BY <2>4, <4>3, <4>4, <4>5
    <3> QED BY <1>1, <1>2, <1>9, <2>4, <3>1 DEF Sorted
  <2>5. ASSUME NEW a \in Kept' PROVE
          \/ /\ channelHeadsForMinorKey'[own2[a]] # NULL
             /\ channelHeadsForMinorKey'[own2[a]] <= a
          \/ Linking(a)'
    <3>1. CASE a = N
      BY <1>1, <1>4, <1>9, <3>1 DEF Linking
    <3>2. CASE a # N
      BY <1>1, <1>2, <1>5, <1>9, <2>5, <3>2 DEF Sorted
    <3> QED BY <3>1, <3>2
  <2> QED BY <1>9, <2>1, <2>2, <2>3, <2>4, <2>5 DEF Sorted
<1>14. Unkept'
  <2>1. UNCHANGED message_length
    BY <1>2 DEF newChannel
  <2> QED BY <1>1, <1>2, <1>9, <2>1 DEF Unkept, Base
<1>15. OneCall' /\ \A q \in Processes : Found(own2, q)' /\ Copied(q)'
  <2>1. Minor(p)' = Minor(p)
    BY <1>2 DEF Minor
  <2>2. Found(own2, p)'
    BY <1>0, <1>2, <1>3, <1>4, <1>9, <1>10, <2>1 DEF Found
  <2>3. Copied(p)'
    <3>1. i[p] = 0 /\ buffer[p] = <<>>
      BY <1>1, <1>2 DEF Copied
    <3> QED BY <1>2, <1>4, <3>1 DEF Copied
  <2> QED BY <1>1, <1>2, <2>2, <2>3, MoveOn
<1>16. TurnsInv'
  BY <1>9, <1>11, <1>13, <1>14, <1>15, Together
<1> QED BY <1>2, <1>16 DEF Goal, Slots!vars

(* write changes its channel only, and does not answer before the end.     *)
LEMMA Storing ==
  ASSUME NEW own, NEW p, Case(own, p), (TypeOK /\ Handles /\ Chained)',
         pc[p] \in {"length", "store"}, Goto(p, "store"),
         UNCHANGED <<loaded, channelHeadsForMinorKey, channel_id, next, allocated,
                     opened, private_data, file, currChannel, buffer, history>>,
         \A a \in Channels : a # currChannel[p] =>
           message_length'[a] = message_length[a] /\ message'[a] = message[a],
         \A q \in Processes \ {p} : i'[q] = i[q],
         Copied(p)'
  PROVE  Goal
<1>0. PICK c : c = currChannel[p]
  OBVIOUS
<1>1. /\ TypeOK /\ p \in Processes /\ Alone(p) /\ Base /\ Turns(own)
      /\ own \in [Channels -> Minors \cup {NULL}]
      /\ \A q \in Processes : Copied(q)
  BY DEF Case, Base, Turns
<1>2. /\ c \in Kept /\ c \in Channels /\ own[c] = Minor(p)
      /\ c = private_data[file[p]] /\ Kept \subseteq Channels
  BY <1>0, AskedFor, CaseFacts
<1>3. /\ Kept' = Kept /\ \A a : NameOf(a)' = NameOf(a)
      /\ UNCHANGED <<ret, asked, lastWritten>> /\ currChannel'[p] = c
      /\ Minor(p)' = Minor(p)
  BY <1>0 DEF Kept, NameOf, history, Minor
<1>4. /\ pc'[p] = "store"
      /\ \A q \in Processes : q # p => pc'[q] = "idle"
      /\ \A q \in Processes : pc[q] # "link"
  BY <1>1 DEF Goto, TypeOK, Alone
<1>5. \A a \in Channels : ~ Linking(a)
  BY <1>4 DEF Linking
<1>6. Sorted(own)'
  BY <1>1, <1>2, <1>3, <1>5 DEF Sorted, Turns
<1>7. Chosen(own)'
  BY <1>1, <1>3, <1>4 DEF Chosen, Turns
<1>8. Stored(own)'
  <2>1. ASSUME NEW a \in Kept
        PROVE  Writes(a)' \/ Holds(a, lastWritten[own[a]][NameOf(a)])'
    <3>1. CASE a = c
      BY <1>1, <1>3, <1>4, <3>1 DEF Writes
    <3>2. CASE a # c
      <4>1. ~ Writes(a)
        BY <1>0, <1>1, <3>2 DEF Writes, Alone
      <4>2. Holds(a, lastWritten[own[a]][NameOf(a)])
        BY <1>1, <4>1 DEF Stored, Turns
      <4> QED BY <1>0, <1>2, <1>3, <3>2, <4>2 DEF Holds
    <3> QED BY <3>1, <3>2
  <2>2. (Slots!Names)' = Slots!Names
    BY DEF Slots!Names
  <2> QED BY <1>1, <1>3, <2>1, <2>2 DEF Stored, Turns
<1>9. Unkept'
  BY <1>0, <1>1, <1>2, <1>3 DEF Unkept, Base
<1>10. HistoryOK'
  <2>1. (Slots!Names)' = Slots!Names
    BY DEF Slots!Names
  <2> QED BY <1>1, <1>3, <2>1 DEF HistoryOK, Base
<1>11. Found(own, p)'
  BY <1>2, <1>3, <1>4 DEF Found
<1>12. OneCall' /\ \A q \in Processes : Found(own, q)' /\ Copied(q)'
  BY <1>1, <1>11, MoveOn
<1>13. TurnsInv'
  BY <1>1, <1>6, <1>7, <1>8, <1>9, <1>10, <1>12, Together
<1> QED BY <1>3, <1>13 DEF Goal, Slots!vars

(* It stores the length of its message, then byte after byte of it, since  *)
(* nobody changes that length.                                             *)
LEMMA CaseWrites ==
  ASSUME NEW own, NEW p, Case(own, p), (TypeOK /\ Handles /\ Chained)',
         writeLength(p) \/ writeByte(p)
  PROVE  Goal
<1>0. PICK c : c = currChannel[p]
  OBVIOUS
<1>1. pc[p] \in {"length", "store"}
  BY DEF writeLength, writeByte
<1>2. TypeOK /\ p \in Processes /\ Copied(p) /\ c \in Channels
  BY <1>0, <1>1, CaseFacts, AskedFor
<1>3. /\ Goto(p, "store") /\ pc'[p] = "store"
      /\ UNCHANGED <<loaded, channelHeadsForMinorKey, channel_id, next, allocated,
                     opened, private_data, file, currChannel, buffer, history>>
      /\ \A q \in Processes \ {p} : i'[q] = i[q]
  <2>1. CASE writeLength(p)
    BY <1>2, <2>1 DEF writeLength, Goto, TypeOK
  <2>2. CASE writeByte(p)
    <3>1. pc[p] = "store" /\ pc' = pc
      BY <2>2 DEF writeByte
    <3>2. pc' = [pc EXCEPT ![p] = "store"]
      BY <1>2, <3>1 DEF TypeOK
    <3> QED BY <1>2, <2>2, <3>1, <3>2 DEF writeByte, Goto, TypeOK
  <2> QED BY <2>1, <2>2
<1>4. \A a \in Channels : a # c =>
        message_length'[a] = message_length[a] /\ message'[a] = message[a]
  <2>1. CASE writeLength(p)
    BY <1>0, <1>2, <2>1 DEF writeLength, setLength, TypeOK
  <2>2. CASE writeByte(p)
    BY <1>0, <1>2, <2>2 DEF writeByte, TypeOK
  <2> QED BY <2>1, <2>2
<1>5. buffer[p] \in Seq(Bytes) /\ Len(buffer[p]) \in 1 .. BUF_LEN
  BY <1>1, <1>2 DEF Copied
<1>6. Copied(p)'
  <2>1. CASE writeLength(p)
    <3>1. message_length'[c] = Len(buffer[p]) /\ i'[p] = 0
      BY <1>0, <1>2, <2>1 DEF writeLength, setLength, TypeOK
    <3> QED BY <1>0, <1>3, <1>5, <3>1, Sizes DEF Copied
  <2>2. CASE writeByte(p)
    <3>1. pc[p] = "store" /\ i[p] < message_length[c] /\ i'[p] = i[p] + 1
          /\ UNCHANGED message_length
      BY <1>0, <1>2, <2>2 DEF writeByte, More, TypeOK
    <3>2. message_length[c] = Len(buffer[p])
          /\ \A k \in 1 .. i[p] : message[c][k] = buffer[p][k]
      BY <1>0, <1>2, <3>1 DEF Copied
    <3>3. i[p] \in Nat /\ i[p] < Len(buffer[p]) /\ Len(buffer[p]) \in Nat
      <4>1. i[p] \in 0 .. BUF_LEN
        BY <1>2 DEF TypeOK
      <4> QED BY <1>5, <3>1, <3>2, <4>1, Sizes
    <3>4. i[p] + 1 \in 1 .. BUF_LEN
      BY <1>5, <3>3, Sizes
    <3>5. message[c] \in [1 .. BUF_LEN -> Bytes \cup {Garbage, 0}]
      BY <1>2 DEF TypeOK
    <3>6. message' = [message EXCEPT ![c][i[p] + 1] = buffer[p][i[p] + 1]]
      BY <1>0, <2>2, <3>3 DEF writeByte
    <3>7. /\ message'[c][i[p] + 1] = buffer[p][i[p] + 1]
          /\ \A k \in 1 .. BUF_LEN : k # i[p] + 1 => message'[c][k] = message[c][k]
      BY <1>2, <3>4, <3>5, <3>6 DEF TypeOK
    <3>8. \A k \in 1 .. i[p] + 1 : message'[c][k] = buffer[p][k]
      <4> SUFFICES ASSUME NEW k \in 1 .. i[p] + 1
                   PROVE  message'[c][k] = buffer[p][k]
        OBVIOUS
      <4>1. k = i[p] + 1 \/ (k \in 1 .. i[p] /\ k # i[p] + 1 /\ k \in 1 .. BUF_LEN)
        BY <3>3, <3>4, Sizes
      <4> QED BY <4>1, <3>2, <3>7
    <3>9. i[p] + 1 <= Len(buffer[p])
      BY <3>3
    <3> QED BY <1>0, <1>3, <1>5, <3>1, <3>2, <3>8, <3>9 DEF Copied
  <2> QED BY <2>1, <2>2
<1> QED BY <1>0, <1>1, <1>3, <1>4, <1>6, Storing

(* At the end the channel holds the message, and no other one has changed. *)
LEMMA CaseWriteEnd ==
  ASSUME NEW own, NEW p, Case(own, p), (TypeOK /\ Handles /\ Chained)',
         writeEnd(p)
  PROVE  Goal /\ Slots!Write(file[p], buffer[p])
<1>0. PICK c, n, f, m, k : /\ c = currChannel[p] /\ n = Minor(p) /\ f = file[p]
                           /\ m = buffer[p] /\ k = NameOf(c)
  OBVIOUS
<1>1. /\ TypeOK /\ p \in Processes /\ Alone(p) /\ Base /\ Turns(own)
      /\ own \in [Channels -> Minors \cup {NULL}]
      /\ \A q \in Processes : Copied(q)
  BY DEF Case, Base, Turns
<1>2. /\ pc[p] = "store" /\ ~ (i[p] < message_length[c])
      /\ Return(p, Slots!Success(<<>>)) /\ ret' = Slots!Success(<<>>)
      /\ private_data' = [private_data EXCEPT ![f] = c]
      /\ lastWritten' = [lastWritten EXCEPT ![n][asked[f]] = m]
      /\ UNCHANGED <<loaded, heap, opened, asked>>
  BY <1>0 DEF writeEnd, Return, More, Minor
<1>3. /\ c \in Kept /\ c \in Channels /\ own[c] = n /\ n \in Minors
      /\ f \in Files /\ MinorOf[f] = n /\ opened[f] /\ Kept \subseteq Channels
      /\ c = private_data[f] /\ asked[f] = k /\ k \in Slots!Names /\ k # 0
  BY <1>0, <1>2, CaseFacts, AskedFor
<1>4. private_data' = private_data
  BY <1>1, <1>2, <1>3 DEF TypeOK
<1>5. /\ UNCHANGED <<channelHeadsForMinorKey, channel_id, message_length, message,
                     next, allocated>>
      /\ Kept' = Kept /\ \A a : NameOf(a)' = NameOf(a)
  BY <1>2 DEF heap, Kept, NameOf
<1>6. /\ m \in Seq(Bytes) /\ Len(m) \in 1 .. BUF_LEN /\ message_length[c] = Len(m)
      /\ i[p] <= Len(m) /\ \A j \in 1 .. i[p] : message[c][j] = m[j]
  BY <1>0, <1>1, <1>2 DEF Copied
<1>7. Holds(c, m)
  <2>1. i[p] \in 0 .. BUF_LEN
    BY <1>1 DEF TypeOK
  <2>2. i[p] = Len(m)
    BY <1>2, <1>6, <2>1, Sizes
  <2> QED BY <1>6, <2>2 DEF Holds
<1>8. m \in Slots!Messages
  <2>1. PICK l \in 1 .. BUF_LEN : l = Len(m)
    BY <1>6
  <2>2. m \in [1 .. l -> Bytes]
    BY <1>6, <2>1, LenProperties
  <2> QED BY <2>1, <2>2 DEF Slots!Messages
<1>9. /\ lastWritten \in [Minors -> [Slots!Names -> Seq(Bytes)]]
      /\ asked \in [Files -> Slots!Names \cup {0}]
  BY <1>1 DEF Base, HistoryOK
<1>10. /\ lastWritten'[n][k] = m
       /\ \A o \in Minors, j \in Slots!Names :
            o # n \/ j # k => lastWritten'[o][j] = lastWritten[o][j]
       /\ lastWritten' \in [Minors -> [Slots!Names -> Seq(Bytes)]]
  BY <1>2, <1>3, <1>6, <1>9
<1>11. /\ \A q \in Processes : pc'[q] = "idle"
       /\ OneCall'
       /\ \A q \in Processes : Found(own, q)' /\ Copied(q)'
  BY <1>1, <1>2, ReturnIdle
<1>12. (Slots!Names)' = Slots!Names
  BY DEF Slots!Names
<1>13. HistoryOK'
  BY <1>2, <1>9, <1>10, <1>12 DEF HistoryOK
<1>14. \A a \in Channels : ~ Linking(a)
  BY <1>1, <1>2, OnlyCall
<1>15. Sorted(own)'
  BY <1>1, <1>2, <1>3, <1>5, <1>14 DEF Sorted, Turns
<1>16. Chosen(own)'
  <2>1. \A q \in Processes : pc[q] # "link"
    BY <1>1, <1>2 DEF Alone
  <2> QED BY <1>1, <1>2, <1>4, <1>5, <1>11, <2>1 DEF Chosen, Turns
<1>17. Stored(own)'
  <2>1. ASSUME NEW a \in Kept
        PROVE  Holds(a, lastWritten[own[a]][NameOf(a)])'
    <3>1. CASE a = c
      <4>1. lastWritten'[own[a]][NameOf(a)'] = m
        BY <1>0, <1>3, <1>5, <1>10, <3>1
      <4>2. message_length' = message_length /\ message' = message
        BY <1>5
      <4> QED BY <1>7, <3>1, <4>1, <4>2 DEF Holds
    <3>2. CASE a # c
      <4>1. ~ Writes(a)
        BY <1>0, <1>1, <3>2 DEF Writes, Alone
      <4>2. Holds(a, lastWritten[own[a]][NameOf(a)])
        BY <1>1, <4>1 DEF Stored, Turns
      <4>3. own[a] # n \/ NameOf(a) # k
        BY <1>0, <1>1, <1>3, <3>2, NamesApart DEF Turns
      <4>4. own[a] \in Minors /\ NameOf(a) \in Slots!Names
        BY <1>1, <1>3, NameFacts DEF Sorted, Turns
      <4>5. lastWritten'[own[a]][NameOf(a)] = lastWritten[own[a]][NameOf(a)]
        BY <1>10, <4>3, <4>4
      <4> QED BY <1>5, <4>2, <4>5 DEF Holds
    <3> QED BY <3>1, <3>2
  <2>2. ASSUME NEW o \in Minors, NEW j \in Slots!Names, lastWritten'[o][j] # <<>>
        PROVE  \E a \in Kept : own[a] = o /\ NameOf(a) = j
    <3>1. CASE o = n /\ j = k
      BY <1>0, <1>3, <3>1
    <3>2. CASE o # n \/ j # k
      <4>1. lastWritten[o][j] # <<>>
        BY <1>10, <2>2, <3>2
      <4>2. Stored(own)
        BY <1>1 DEF Turns
      <4> QED BY <4>1, <4>2 DEF Stored
    <3> QED BY <3>1, <3>2
  <2> QED BY <1>5, <1>12, <2>1, <2>2 DEF Stored
<1>18. Unkept'
  BY <1>1, <1>5 DEF Unkept, Base
<1>19. TurnsInv'
  BY <1>1, <1>11, <1>13, <1>15, <1>16, <1>17, <1>18, Together
<1>20. Slots!Write(f, m)
  BY <1>2, <1>3 DEF Slots!Write
<1> QED BY <1>0, <1>3, <1>8, <1>19, <1>20 DEF Goal, Slots!Next

(* A call that starts to walk a list, or takes the channel of its file.    *)
LEMMA CaseStarts ==
  ASSUME NEW own, NEW p, Case(own, p), (TypeOK /\ Handles /\ Chained)',
         NEW f \in Files, Start(p, f)
  PROVE  Goal
<1>0. PICK c : c = private_data[f]
  OBVIOUS
<1>1. /\ TypeOK /\ p \in Processes /\ Chosen(own)
      /\ pc[p] = "idle" => i[p] = 0 /\ buffer[p] = <<>>
  BY CaseFacts DEF Case, Turns, Copied
<1>2. ASSUME NEW id \in Ids, ioctl(p, f, id) PROVE Goal
  <2>1. /\ pc[p] = "idle" /\ Goto(p, "head") /\ pc'[p] = "head"
        /\ UNCHANGED <<loaded, heap, opened, private_data, currChannel, buffer, i,
                       history>>
    BY <1>1, <1>2 DEF ioctl, Call, Ready, Goto, TypeOK
  <2>2. Found(own, p)' /\ Copied(p)'
    BY <1>1, <2>1 DEF Found, Copied, Refers
  <2> QED BY <2>1, <2>2, QuietMove
<1>3. ASSUME opened[f], c # NULL PROVE own[c] = MinorOf[f]
  BY <1>0, <1>1, <1>3 DEF Chosen
<1>4. ASSUME NEW m \in Writable, writeStart(p, f, m) PROVE Goal
  <2>1. /\ pc[p] = "idle" /\ Goto(p, "length") /\ pc'[p] = "length"
        /\ file'[p] = f /\ opened[f] /\ c # NULL /\ properLength(m)
        /\ currChannel'[p] = c /\ buffer'[p] = m
        /\ \A q \in Processes \ {p} : buffer'[q] = buffer[q]
        /\ UNCHANGED <<loaded, heap, opened, private_data, param, i, history>>
    BY <1>0, <1>1, <1>4 DEF writeStart, Call, Ready, Goto, TypeOK
  <2>2. Found(own, p)'
    BY <1>0, <1>3, <2>1 DEF Found, Minor
  <2>3. m \in Seq(Bytes)
    BY SlotAssumption
  <2>4. Copied(p)'
    BY <2>1, <2>3 DEF Copied, properLength
  <2> QED BY <2>1, <2>2, <2>4, QuietMove
<1>5. ASSUME NEW k \in 0 .. BUF_LEN, readStart(p, f, k) PROVE Goal
  <2>1. /\ pc[p] = "idle" /\ Goto(p, "test") /\ pc'[p] = "test"
        /\ file'[p] = f /\ opened[f] /\ c # NULL /\ currChannel'[p] = c
        /\ UNCHANGED <<loaded, heap, opened, private_data, buffer, i, history>>
    BY <1>0, <1>1, <1>5 DEF readStart, Call, Ready, Goto, TypeOK
  <2>2. Found(own, p)'
    BY <1>0, <1>3, <2>1 DEF Found, Minor
  <2>3. Copied(p)'
    BY <1>1, <2>1 DEF Copied
  <2> QED BY <2>1, <2>2, <2>3, QuietMove
<1>6. ASSUME pc[p] = "idle", NEW e \in {"EINVAL", "EMSGSIZE", "EFAULT"}, Refuse(p, e)
      PROVE  Goal
  <2>1. e \in Slots!Errors \ {"EWOULDBLOCK"}
    BY DEF Slots!Errors
  <2> QED BY <1>6, <2>1, CaseRefused
<1>7. CASE ioctlRefused(p, f) \/ readUnset(p, f)
           \/ \E m \in Writable : writeRefused(p, f, m)
  BY <1>6, <1>7 DEF ioctlRefused, readUnset, writeRefused, Ready
<1> QED BY <1>2, <1>4, <1>5, <1>7 DEF Start

(* A call that has started.                                                *)
LEMMA CaseFinish ==
  ASSUME NoAliases, NEW own, NEW p, Case(own, p), (TypeOK /\ Handles /\ Chained)',
         Finish(p)
  PROVE  Goal
<1>1. ASSUME NEW e \in {"ENOMEM", "ENOSPC", "EFAULT"}, Refuse(p, e),
             pc[p] \notin {"link", "store"}
      PROVE  Goal
  <2>1. e \in Slots!Errors \ {"EWOULDBLOCK"}
    BY DEF Slots!Errors
  <2> QED BY <1>1, <2>1, CaseRefused
<1>2. CASE ioctlNoMemory(p) \/ readFault(p)
  BY <1>1, <1>2 DEF ioctlNoMemory, readFault
<1>3. CASE readRefused(p)
  BY <1>1, <1>3, CaseEmpty DEF readRefused
<1>4. CASE ioctlHead(p) \/ ioctlWalk(p)
  BY <1>4, CaseHead, CaseWalk
<1>5. CASE ioctlFound(p) \/ ioctlSet(p) \/ ioctlLink(p)
  BY <1>5, CaseSet, CaseLink
<1>6. CASE ioctlAppend(p) \/ ioctlFirst(p)
  BY <1>6, CaseAppend, CaseFirst
<1>7. CASE writeLength(p) \/ writeByte(p) \/ writeEnd(p)
  BY <1>7, CaseWrites, CaseWriteEnd
<1>8. CASE readTest(p) \/ readByte(p) \/ readEnd(p)
  BY <1>8, CaseReads, CaseReadEnd
<1> QED BY <1>2, <1>3, <1>4, <1>5, <1>6, <1>7, <1>8 DEF Finish

(* The module is loaded and unloaded when nobody is in it.                 *)
LEMMA CaseModule ==
  ASSUME NEW own \in [Channels -> Minors \cup {NULL}], Base, Turns(own),
         (TypeOK /\ Handles /\ Chained)', slot_init \/ slot_cleanup
  PROVE  Goal
<1>1. /\ TypeOK /\ HistoryOK /\ Chosen(own) /\ Stored(own) /\ Unkept /\ OneCall
      /\ \A q \in Processes : Copied(q)
  BY DEF Base, Turns
<1>2. \A f \in Files : ~ opened[f]
  BY DEF slot_init, slot_cleanup, Base, Handles
<1>3. AllIdle
  BY <1>2 DEF Base, Handles, AllIdle
<1>4. /\ Kept' = {}
      /\ UNCHANGED <<opened, private_data, pc, i, buffer, asked, ret>>
  <2>1. CASE slot_init
    BY <2>1 DEF slot_init, Base, Handles, Kept, locals, history
  <2>2. CASE slot_cleanup
    BY <2>2 DEF slot_cleanup, Kept, locals
  <2> QED BY <2>1, <2>2
<1>5. \A f \in Files : asked[f] = 0
  BY <1>1, <1>2 DEF Chosen
<1>6. Sorted(own)'
  <2>1. loaded' => \A n \in Minors : channelHeadsForMinorKey'[n] = NULL
    BY DEF slot_init, slot_cleanup
  <2> QED BY <1>4, <2>1 DEF Sorted
<1>7. Chosen(own)'
  BY <1>2, <1>4, <1>5 DEF Chosen
<1>8. (Slots!Names)' = Slots!Names
  BY DEF Slots!Names
<1>9. \A n \in Minors, k \in Slots!Names : lastWritten'[n][k] = <<>>
  <2>1. CASE slot_init
    <3>1. Kept = {} /\ lastWritten' = lastWritten
      BY <2>1 DEF slot_init, Base, Handles, Kept, history
    <3> QED BY <1>1, <3>1 DEF Stored
  <2>2. CASE slot_cleanup
    BY <2>2 DEF slot_cleanup, Slots!Empty
  <2> QED BY <2>1, <2>2
<1>10. Stored(own)'
  BY <1>4, <1>8, <1>9 DEF Stored
<1>11. Unkept'
  <2>1. CASE slot_init
    <3>1. Kept = {} /\ next' = next /\ message_length' = message_length
      BY <2>1 DEF slot_init, Base, Handles, Kept
    <3> QED BY <1>1, <1>4, <3>1 DEF Unkept
  <2>2. CASE slot_cleanup
    BY <2>2 DEF slot_cleanup, Unkept
  <2> QED BY <2>1, <2>2
<1>12. HistoryOK'
  <2>1. CASE slot_init
    BY <1>1, <1>4, <1>8, <2>1 DEF slot_init, HistoryOK, history
  <2>2. CASE slot_cleanup
    <3>1. lastWritten' \in [Minors -> [Slots!Names -> Seq(Bytes)]]
      BY <2>2, EmptySeq DEF slot_cleanup, Slots!Empty
    <3> QED BY <1>1, <1>4, <1>8, <3>1 DEF HistoryOK
  <2> QED BY <2>1, <2>2
<1>13. /\ OneCall'
       /\ \A q \in Processes : Found(own, q)' /\ Copied(q)'
  BY <1>1, <1>3, <1>4 DEF OneCall, Alone, AllIdle, Found, Copied, Refers
<1>14. TurnsInv'
  BY <1>6, <1>7, <1>10, <1>11, <1>12, <1>13, Together
<1>15. CASE slot_init
  BY <1>14, <1>15 DEF slot_init, history, Goal, Slots!vars
<1>16. CASE slot_cleanup
  <2>1. Slots!Unload
    BY <1>16 DEF slot_cleanup, Slots!Unload
  <2> QED BY <1>14, <2>1 DEF Goal, Slots!Next
<1> QED BY <1>15, <1>16

(* A file that is opened or closed has no channel, and no call uses it.    *)
LEMMA CaseFile ==
  ASSUME NEW own \in [Channels -> Minors \cup {NULL}], Base, Turns(own),
         (TypeOK /\ Handles /\ Chained)',
         NEW f \in Files, device_open(f) \/ slot_release(f)
  PROVE  Goal
<1>1. /\ TypeOK /\ HistoryOK /\ Chosen(own) /\ Stored(own) /\ Unkept /\ OneCall
      /\ Sorted(own) /\ \A q \in Processes : Found(own, q) /\ Copied(q)
  BY DEF Base, Turns
<1>2. /\ asked' = [asked EXCEPT ![f] = 0]
      /\ UNCHANGED <<loaded, channelHeadsForMinorKey, channel_id, message_length,
                     message, next, allocated, pc, file, param, currChannel,
                     buffer, i, ret, lastWritten>>
      /\ Kept' = Kept /\ \A a : NameOf(a)' = NameOf(a)
      /\ \A q : Minor(q)' = Minor(q)
  BY DEF device_open, slot_release, heap, locals, Kept, NameOf, Minor
<1>3. /\ asked'[f] = 0
      /\ opened'[f] => private_data'[f] = NULL
      /\ \A g \in Files : g # f =>
           /\ asked'[g] = asked[g] /\ opened'[g] = opened[g]
           /\ private_data'[g] = private_data[g]
  BY <1>1, <1>2 DEF device_open, slot_release, HistoryOK, TypeOK
<1>4. \A q \in Processes : pc[q] # "idle" => file[q] # f /\ file[q] \in Files
  BY DEF device_open, slot_release, NoCall, Base, Handles
<1>5. (Slots!Names)' = Slots!Names
  BY DEF Slots!Names
<1>6. HistoryOK'
  BY <1>1, <1>2, <1>5 DEF HistoryOK
<1>7. Sorted(own)'
  BY <1>1, <1>2 DEF Sorted, Linking
<1>8. Stored(own)'
  BY <1>1, <1>2, <1>5 DEF Stored, Holds, Writes
<1>9. Chosen(own)'
  <2>1. \A g \in Files : ~ opened'[g] => asked'[g] = 0
    BY <1>1, <1>3 DEF Chosen
  <2>2. \A g \in Files : opened'[g] /\ private_data'[g] # NULL =>
          own[private_data'[g]] = MinorOf[g]
    BY <1>1, <1>3 DEF Chosen
  <2>3. ASSUME NEW g \in Files, opened'[g]
        PROVE  \/ (asked[g] = IF private_data[g] = NULL THEN 0
                                                       ELSE NameOf(private_data[g]))'
               \/ \E q \in Processes : pc'[q] = "link" /\ file'[q] = g
    <3>1. CASE g = f
      BY <1>3, <2>3, <3>1
    <3>2. CASE g # f
      <4>1. \/ asked[g] = IF private_data[g] = NULL THEN 0 ELSE NameOf(private_data[g])
            \/ \E q \in Processes : pc[q] = "link" /\ file[q] = g
        BY <1>1, <1>3, <2>3, <3>2 DEF Chosen
      <4> QED BY <1>2, <1>3, <3>2, <4>1
    <3> QED BY <3>1, <3>2
  <2>4. ASSUME NEW g \in Files, asked'[g] # 0
        PROVE  \E a \in Kept' :
                 /\ asked'[g] = NameOf(a)'
                 /\ \A q \in Processes :
                      pc'[q] \in {"set", "link"} => a # currChannel'[q]
    BY <1>1, <1>2, <1>3, <2>4 DEF Chosen
  <2> QED BY <2>1, <2>2, <2>3, <2>4 DEF Chosen
<1>10. Unkept' /\ OneCall'
  BY <1>1, <1>2 DEF Unkept, OneCall, Alone
<1>11. \A q \in Processes : Found(own, q)' /\ Copied(q)'
  <2> SUFFICES ASSUME NEW q \in Processes PROVE Found(own, q)' /\ Copied(q)'
    OBVIOUS
  <2>1. Copied(q)'
    BY <1>1, <1>2 DEF Copied
  <2>2. pc[q] # "idle" => private_data'[file[q]] = private_data[file[q]]
    BY <1>3, <1>4
  <2>3. Found(own, q)'
    BY <1>1, <1>2, <2>2 DEF Found
  <2> QED BY <2>1, <2>3
<1>12. TurnsInv'
  BY <1>6, <1>7, <1>8, <1>9, <1>10, <1>11, Together
<1>13. Slots!OpenOrClose(f)
  BY <1>2 DEF Slots!OpenOrClose
<1> QED BY <1>12, <1>13 DEF Goal, Slots!Next

(* Every step of callers that take turns is one of SlotMap, or changes     *)
(* nothing that SlotMap knows of.                                          *)
LEMMA TurnsStep ==
  ASSUME NoAliases, TurnsInv, [TurnsNext]_vars
  PROVE  Goal
<1>1. PICK own \in [Channels -> Minors \cup {NULL}] : Turns(own)
  BY DEF TurnsInv
<1>2. Base /\ TypeOK /\ Handles /\ Chained /\ OneCall
  BY DEF TurnsInv, Base
<1>3. [Next]_vars
  BY DEF TurnsNext, Next
<1>4. (TypeOK /\ Handles /\ Chained)'
  BY <1>2, <1>3, TypeStep, HandlesStep, ChainedStep
<1>5. CASE Administer
  BY <1>1, <1>2, <1>4, <1>5, CaseModule, CaseFile DEF Administer
<1>6. ASSUME NEW p \in Processes, Finish(p) PROVE Goal
  <2>1. pc[p] # "idle"
    BY <1>6 DEF Finish, ioctlHead, ioctlFound, ioctlWalk, ioctlAppend, ioctlFirst,
                ioctlNoMemory, ioctlSet, ioctlLink, writeLength, writeByte, writeEnd,
                readRefused, readTest, readByte, readFault, readEnd
  <2>2. Alone(p)
    BY <1>2, <2>1, OthersIdle
  <2>3. Case(own, p)
    BY <1>1, <1>2, <2>2 DEF Case
  <2> QED BY <1>4, <1>6, <2>3, CaseFinish
<1>7. ASSUME NEW p \in Processes, NEW f \in Files, AllIdle, Start(p, f) PROVE Goal
  <2>1. Alone(p)
    BY <1>2, <1>7, OthersIdle
  <2>2. Case(own, p)
    BY <1>1, <1>2, <2>1 DEF Case
  <2> QED BY <1>4, <1>7, <2>2, CaseStarts
<1>8. CASE UNCHANGED vars
  <2>1. /\ UNCHANGED <<loaded, channelHeadsForMinorKey, channel_id, message_length,
                       message, next, allocated, opened, private_data, pc, file,
                       param, currChannel, buffer, i, ret, asked, lastWritten>>
        /\ Kept' = Kept /\ \A a : NameOf(a)' = NameOf(a)
        /\ \A q : Minor(q)' = Minor(q)
        /\ (Slots!Names)' = Slots!Names
    BY <1>8 DEF vars, heap, locals, history, Kept, NameOf, Minor, Slots!Names
  <2>2. Sorted(own)' /\ Chosen(own)' /\ Stored(own)'
    BY <1>1, <2>1 DEF Turns, Sorted, Chosen, Stored, Linking, Writes, Holds
  <2>3. \A q \in Processes : Found(own, q)' /\ Copied(q)'
    BY <1>1, <2>1 DEF Turns, Found, Copied
  <2>4. OneCall' /\ Unkept' /\ HistoryOK'
    BY <1>2, <2>1 DEF Base, OneCall, Alone, Unkept, HistoryOK
  <2>5. TurnsInv'
    BY <1>4, <2>2, <2>3, <2>4, Together
  <2> QED BY <2>1, <2>5 DEF Goal, Slots!vars
<1> QED BY <1>5, <1>6, <1>7, <1>8 DEF TurnsNext

(* Callers that take turns find a map from channels to messages: what they *)
(* write is what they read, from any file that is set to the channel, and  *)
(* nobody else's writes change it.  So it is for every number of callers,  *)
(* files and devices, as long as no number is stored as another one that   *)
(* is in use.                                                              *)
THEOREM TurnsKeepMessages == ASSUME NoAliases PROVE TurnsSpec => KeepsMessages
<1>1. Init => TurnsInv /\ Slots!Init
  BY TurnsInit DEF Init
<1>2. TurnsInv /\ [TurnsNext]_vars => TurnsInv' /\ [Slots!Next]_(Slots!vars)
  BY TurnsStep DEF Goal
<1> QED BY <1>1, <1>2, PTL DEF TurnsSpec, KeepsMessages, Slots!Spec
-----------------------------------------------------------------------------
(* Command lines, and what they are made of.                               *)
LEMMA CommandFacts ==
  /\ \A g \in CommandLines :
       /\ g.channel \in TargetChannels
       /\ g.name \in {"message_sender", "message_reader"}
       /\ g.name = "message_sender" => g.text \in Writable
  /\ NoProgram.name = "none" /\ NoProgram.channel = 0
BY DEF CommandLines, NoProgram, Program

(* The files that the processes have open are files of a device.           *)
LEMMA FileFacts ==
  ASSUME NEW p \in Processes
  PROVE  FileOf[p] \in Files /\ MinorOf[FileOf[p]] \in Minors
BY ProgramsAssumption, Sizes

(* Every step of the programs is one of the device, with callers that take *)
(* turns, or leaves the device alone.                                      *)
LEMMA ProgramsTakeTurns ==
  ASSUME ProgramsTypeOK, [ProgramsNext]_allVars PROVE [TurnsNext]_vars
<1>1. CASE UNCHANGED allVars
  BY <1>1 DEF allVars
<1>2. CASE load \/ unload
  BY <1>2 DEF load, unload, TurnsNext, Administer
<1>3. CASE callAnything
  BY <1>3 DEF callAnything
<1>4. ASSUME NEW p \in Processes, Proceed(p) PROVE TurnsNext
  <2>1. CASE closeSlot(p)
    BY <2>1, FileFacts DEF closeSlot, TurnsNext, Administer
  <2>2. CASE insideCall(p) \/ ioctlReturns(p) \/ transferReturns(p)
    BY <2>2 DEF insideCall, ioctlReturns, transferReturns, Returns, TurnsNext
  <2> QED BY <1>4, <2>1, <2>2 DEF Proceed
<1>5. ASSUME NEW p \in Processes, AllIdle, Begin(p) PROVE TurnsNext
  <2>0. /\ FileOf[p] \in Files
        /\ program[p].name = "message_sender" => program[p].text \in Writable
        /\ program[p].channel # 0 => toULong(program[p].channel) \in Ids
    <3>1. program[p] \in CommandLines \cup {NoProgram}
      BY DEF ProgramsTypeOK
    <3> QED BY <3>1, FileFacts, CommandFacts, TargetsAssumption
  <2>1. CASE openSlot(p)
    BY <2>0, <2>1 DEF openSlot, TurnsNext, Administer
  <2>2. CASE ~ openSlot(p)
    <3>1. Start(p, FileOf[p])
      <4>1. CASE callIoctl(p)
        BY <2>0, <4>1 DEF callIoctl, Start
      <4>2. CASE callIoctlZero(p)
        BY <2>0, <4>2 DEF callIoctlZero, Start
      <4>3. CASE callWrite(p)
        BY <2>0, <4>3 DEF callWrite, Start
      <4>4. CASE callWriteTooLong(p)
        BY <2>0, <4>4 DEF callWriteTooLong, Start
      <4>5. CASE callRead(p)
        BY <2>0, <4>5, Sizes DEF callRead, Start
      <4> QED BY <1>5, <2>2, <4>1, <4>2, <4>3, <4>4, <4>5 DEF Begin
    <3> QED BY <1>5, <2>0, <3>1 DEF TurnsNext
  <2> QED BY <2>1, <2>2
<1> QED BY <1>1, <1>2, <1>3, <1>4, <1>5 DEF ProgramsNext, runPrograms

(* The programs keep their types.                                          *)
LEMMA ProgramsTypeStep ==
  ASSUME ProgramsTypeOK, Handles, Chained, [ProgramsNext]_allVars
  PROVE  ProgramsTypeOK' /\ Handles' /\ Chained'
<1>1. TypeOK' /\ Handles' /\ Chained'
  <2>1. [Next]_vars
    BY ProgramsTakeTurns DEF TurnsNext, Next
  <2> QED BY <2>1, TypeStep, HandlesStep, ChainedStep DEF ProgramsTypeOK
<1>2. callers' = callers
  BY DEF ProgramsNext, allVars
<1>3. /\ program' \in [Processes -> CommandLines \cup {NoProgram}]
      /\ step' \in [Processes -> {"open", "ioctl", "transfer", "close"}]
      /\ sent' \in [Minors -> [TargetChannels -> Seq(Bytes)]]
  <2>0. /\ program \in [Processes -> CommandLines \cup {NoProgram}]
        /\ step \in [Processes -> {"open", "ioctl", "transfer", "close"}]
        /\ sent \in [Minors -> [TargetChannels -> Seq(Bytes)]]
    BY DEF ProgramsTypeOK
  <2>1. CASE UNCHANGED programVars
    BY <2>0, <2>1 DEF programVars
  <2>2. CASE unload
    BY <2>0, <2>2, EmptySeq DEF unload, NothingSent
  <2>3. ASSUME NEW p \in Processes, openSlot(p) \/ closeSlot(p)
        PROVE  /\ program' \in [Processes -> CommandLines \cup {NoProgram}]
               /\ step' \in [Processes -> {"open", "ioctl", "transfer", "close"}]
               /\ sent' = sent
    <3>1. CASE openSlot(p)
      BY <2>0, <3>1 DEF openSlot, Step
    <3>2. CASE closeSlot(p)
      BY <2>0, <3>2 DEF closeSlot, Step
    <3> QED BY <2>3, <3>1, <3>2
  <2>4. ASSUME NEW p \in Processes,
               callIoctlZero(p) \/ callWriteTooLong(p) \/ ioctlReturns(p)
        PROVE  /\ program' = program /\ sent' = sent
               /\ step' \in [Processes -> {"open", "ioctl", "transfer", "close"}]
    BY <2>0, <2>4 DEF callIoctlZero, callWriteTooLong, ioctlReturns, Step
  <2>5. ASSUME NEW p \in Processes, transferReturns(p)
        PROVE  /\ program' = program
               /\ step' \in [Processes -> {"open", "ioctl", "transfer", "close"}]
               /\ sent' \in [Minors -> [TargetChannels -> Seq(Bytes)]]
    <3>1. program' = program
          /\ step' \in [Processes -> {"open", "ioctl", "transfer", "close"}]
      BY <2>0, <2>5 DEF transferReturns, Step
    <3>2. CASE sent' = sent
      BY <2>0, <3>1, <3>2
    <3>3. CASE /\ program[p].name = "message_sender"
               /\ sent' = [sent EXCEPT ![MinorOf[FileOf[p]]][program[p].channel] =
                             program[p].text]
      <4>1. program[p].text \in Seq(Bytes)
        BY <2>0, <3>3, CommandFacts, SlotAssumption
      <4>2. PICK n \in Minors : n = MinorOf[FileOf[p]]
        BY FileFacts
      <4> QED BY <2>0, <3>1, <3>3, <4>1, <4>2
    <3> QED BY <2>5, <3>2, <3>3 DEF transferReturns
  <2>6. ASSUME NEW p \in Processes,
               callIoctl(p) \/ callWrite(p) \/ callRead(p) \/ insideCall(p)
        PROVE  UNCHANGED programVars
    BY <2>6 DEF callIoctl, callWrite, callRead, insideCall
  <2> QED BY <2>0, <2>1, <2>2, <2>3, <2>4, <2>5, <2>6
         DEF ProgramsNext, runPrograms, callAnything, load, Proceed, Begin, allVars
<1> QED BY <1>1, <1>2, <1>3 DEF ProgramsTypeOK

(* The programs, and whatever else calls the device, keep their types.     *)
THEOREM ProgramsTypeCorrect == ProgramsSpec => []ProgramsTypeOK
<1>1. ProgramsInit => ProgramsTypeOK /\ Handles /\ Chained
  <2> SUFFICES ASSUME ProgramsInit PROVE ProgramsTypeOK /\ Handles /\ Chained
    OBVIOUS
  <2>1. sent \in [Minors -> [TargetChannels -> Seq(Bytes)]]
    BY EmptySeq DEF ProgramsInit, NothingSent
  <2> QED BY <2>1, TypeInit, HandlesInit, ChainedInit
         DEF ProgramsInit, ProgramsTypeOK
<1>2. ProgramsTypeOK /\ Handles /\ Chained /\ [ProgramsNext]_allVars
        => (ProgramsTypeOK /\ Handles /\ Chained)'
  BY ProgramsTypeStep
<1> QED BY <1>1, <1>2, PTL DEF ProgramsSpec

(* Whoever calls the device while callers take turns finds a map from      *)
(* channels to messages: the programs, or processes that make any calls.   *)
THEOREM ProgramsKeepMessages ==
  ASSUME NoAliases PROVE ProgramsSpec => KeepsMessages
<1>1. ProgramsInit => Init
  BY DEF ProgramsInit
<1>2. ProgramsTypeOK /\ [ProgramsNext]_allVars => [TurnsNext]_vars
  BY ProgramsTakeTurns
<1> QED BY <1>1, <1>2, ProgramsTypeCorrect, TurnsKeepMessages, PTL
       DEF ProgramsSpec, TurnsSpec

(* Numbers that were ints have no aliases: an unsigned long is two words   *)
(* of IdLimit values, and an int is a word whose upper half is negative.   *)
LEMMA IntsHaveNoAliases ==
  ASSUME NEW h \in Nat \ {0}, IdLimit = 2 * h, ULongLimit = IdLimit * IdLimit,
         \A id \in Ids : \E c \in (0 - h) .. (h - 1) : id = toULong(c)
  PROVE  NoAliases
<1>1. PICK l \in Nat : l = IdLimit /\ l = 2 * h /\ l >= 2
  BY Sizes
<1>2. PICK u \in Nat : u = ULongLimit /\ u = l * l /\ u >= 2 * l /\ u >= l
  <2>1. \A k \in Nat : k >= 2 => k * k >= 2 * k /\ k * k >= k /\ k * k \in Nat
    OBVIOUS
  <2> QED BY <1>1, <2>1
<1>3. \A c \in 0 .. (h - 1) : toULong(c) = c
  <2> SUFFICES ASSUME NEW c \in 0 .. (h - 1) PROVE c % u = c
    BY <1>2 DEF toULong
  <2>1. \A a \in Nat, b \in Nat : a < b => a % b = a
    OBVIOUS
  <2> QED BY <1>1, <1>2, <2>1
<1>4. \A k \in 1 .. h : toULong(0 - k) = u - k
  <2> SUFFICES ASSUME NEW k \in 1 .. h PROVE (0 - k) % u = u - k
    BY <1>2 DEF toULong
  <2>1. \A a \in Nat, b \in Nat : 0 < a /\ a < b => (0 - a) % b = b - a
    OBVIOUS
  <2>2. 0 < k /\ k < u /\ k \in Nat /\ u \in Nat
    BY <1>1, <1>2
  <2> QED BY <2>1, <2>2
<1>5. \A k \in 1 .. h : (u - k) % l = l - k
  <2> SUFFICES ASSUME NEW k \in 1 .. h PROVE (u - k) % l = l - k
    OBVIOUS
  <2>1. \A a \in Nat, b \in Nat, r \in Nat : r < b => (a * b + r) % b = r
    OBVIOUS
  <2>2. PICK a \in Nat : a = l - 1
    <3>1. \A x \in Nat : x >= 2 => x - 1 \in Nat
      OBVIOUS
    <3>2. l \in Nat /\ l >= 2
      BY <1>1
    <3>3. l - 1 \in Nat
      BY <3>1, <3>2
    <3> QED BY <3>3
  <2>3. PICK r \in Nat : r = l - k /\ r < l
    <3>1. l \in Nat /\ k \in Nat /\ 1 <= k /\ k <= l
      BY <1>1
    <3>2. l - k \in Nat /\ l - k < l
      BY <3>1
    <3> QED BY <3>2
  <2>4. u - k = a * l + r
    <3>1. \A x \in Nat, y \in Nat : x = y - 1 => x * y = y * y - y
      OBVIOUS
    <3>2. a * l = u - l
      BY <1>1, <1>2, <2>2, <3>1
    <3> QED BY <1>1, <1>2, <2>3, <3>2
  <2> QED BY <2>1, <2>3, <2>4
<1>6. ASSUME NEW id \in Ids, id >= IdLimit, id % IdLimit \in Ids PROVE FALSE
  <2>1. PICK c \in (0 - h) .. (h - 1), d \in (0 - h) .. (h - 1) :
          id = toULong(c) /\ id % IdLimit = toULong(d)
    BY <1>6
  <2>2. PICK k \in 1 .. h : c = 0 - k
    <3>1. ~ (c >= 0)
      <4>1. ASSUME c >= 0 PROVE FALSE
        <5>1. c \in 0 .. (h - 1)
          BY <4>1
        <5>2. id = c
          BY <1>3, <2>1, <5>1
        <5> QED BY <1>1, <1>6, <5>1, <5>2
      <4> QED BY <4>1
    <3>2. 0 - c \in 1 .. h /\ c = 0 - (0 - c)
      BY <3>1
    <3> QED BY <3>2
  <2>3. toULong(d) = l - k
    <3>1. id = u - k
      BY <1>4, <2>1, <2>2
    <3> QED BY <1>1, <1>5, <2>1, <3>1
  <2>4. CASE d >= 0
    <3>1. d \in 0 .. (h - 1)
      BY <2>4
    <3>2. d = l - k
      BY <1>3, <2>3, <3>1
    <3> QED BY <1>1, <3>1, <3>2
  <2>5. CASE ~ (d >= 0)
    <3>1. PICK j \in 1 .. h : d = 0 - j
      <4>1. 0 - d \in 1 .. h /\ d = 0 - (0 - d)
        BY <2>5
      <4> QED BY <4>1
    <3>2. u - j = l - k
      BY <1>4, <2>3, <3>1
    <3> QED BY <1>1, <1>2, <3>2
  <2> QED BY <2>4, <2>5
<1> QED BY <1>6 DEF NoAliases

-----------------------------------------------------------------------------
(* What a program that comes to read or write has: its file is set to the  *)
(* channel of its command line.  If that is negative, the channel is one   *)
(* that nobody else finds, so that a reader finds no message in it.        *)
HiddenNames == {IdLimit + a : a \in Channels}

ChannelSet(p) ==
  LET c == program[p].channel
      k == asked[FileOf[p]]
  IN /\ c # 0
     /\ c > 0 => k = c
     /\ c < 0 => /\ k \in HiddenNames
                 /\ program[p].name = "message_reader" =>
                      lastWritten[MinorOf[FileOf[p]]][k] = <<>>

(* The call that a program is in is the one it comes to.                   *)
ProgramOK(p) ==
  /\ step[p] # "open" => program[p] \in CommandLines
  /\ step[p] \in {"open", "close"} => pc[p] = "idle"
  /\ step[p] = "transfer" => ChannelSet(p)
  /\ pc[p] # "idle" => file[p] = FileOf[p]
  /\ pc[p] \in Searching => /\ step[p] = "ioctl"
                            /\ program[p].channel # 0
                            /\ param[p] = toULong(program[p].channel)
  /\ pc[p] \in {"length", "store"} => /\ step[p] = "transfer"
                                      /\ program[p].name = "message_sender"
                                      /\ buffer[p] = program[p].text
  /\ pc[p] \in {"test", "fetch"} => /\ step[p] = "transfer"
                                    /\ program[p].name = "message_reader"

(* Two files never share a channel whose number did not fit.               *)
Unshared ==
  \A f, g \in Files : asked[f] = asked[g] /\ asked[f] \in HiddenNames => f = g

(* The device has what was sent.                                           *)
SentOK == \A n \in Minors, c \in TargetChannels :
            c > 0 => sent[n][c] = lastWritten[n][c]

ProgramsInv ==
  /\ TurnsInv /\ ProgramsTypeOK /\ Unshared
  /\ callers = "programs" => SentOK /\ \A p \in Processes : ProgramOK(p)

(* The names that SlotMap knows the channels of the programs by.           *)
LEMMA TargetNames ==
  /\ HiddenNames \subseteq Slots!Names
  /\ \A k \in HiddenNames : k \in Nat /\ k > IdLimit
  /\ \A c \in TargetChannels :
       /\ c \in Int
       /\ c > 0 => toULong(c) = c /\ c < IdLimit /\ c \in Slots!Names
       /\ c > 0 => c \notin HiddenNames
       /\ c < 0 => ~ (toULong(c) < IdLimit)
<1>1. HiddenNames \subseteq Slots!Names
  BY DEF HiddenNames, Slots!Names
<1>2. \A k \in HiddenNames : k \in Nat /\ k > IdLimit
  BY Sizes DEF HiddenNames
<1>3. ASSUME NEW c \in TargetChannels
      PROVE  /\ c \in Int
             /\ c > 0 => toULong(c) = c /\ c < IdLimit /\ c \in Slots!Names
             /\ c > 0 => c \notin HiddenNames
             /\ c < 0 => ~ (toULong(c) < IdLimit)
  <2>1. c \in Int /\ IdLimit \in Nat
    BY ProgramsAssumption, Sizes
  <2>2. CASE c > 0
    <3>1. toULong(c) = c /\ c < IdLimit /\ c \in Ids
      BY <2>1, <2>2, TargetsAssumption
    <3>2. ~ (c >= IdLimit) /\ ~ (c > IdLimit) /\ ~ (c < 0)
      BY <2>1, <2>2, <3>1
    <3>3. c \in Slots!Names
      BY <3>1, <3>2 DEF Slots!Names
    <3> QED BY <1>2, <2>1, <3>1, <3>2, <3>3
  <2>3. CASE ~ (c > 0)
    <3>1. c < 0 => toULong(c) \in Ids /\ toULong(c) >= IdLimit
      BY <2>1, TargetsAssumption
    <3>2. c < 0 => toULong(c) \in Nat
      BY <3>1, Sizes
    <3> HIDE DEF toULong
    <3> QED BY <2>1, <2>3, <3>1, <3>2
  <2> QED BY <2>2, <2>3
<1> QED BY <1>1, <1>2, <1>3

(* A call in progress makes no other one move, and stays what it is until  *)
(* it returns.                                                             *)
LEMMA CallGoesOn ==
  ASSUME TypeOK, NEW p \in Processes, Finish(p)
  PROVE  /\ pc[p] # "idle"
         /\ \A q \in Processes : q # p =>
              /\ pc'[q] = pc[q] /\ file'[q] = file[q]
              /\ param'[q] = param[q] /\ buffer'[q] = buffer[q]
         /\ pc'[p] # "idle" =>
              /\ file'[p] = file[p]
              /\ pc'[p] \in Searching <=> pc[p] \in Searching
              /\ pc[p] \in Searching => param'[p] = param[p]
              /\ pc'[p] \in {"length", "store"} =>
                   pc[p] \in {"length", "store"} /\ buffer'[p] = buffer[p]
              /\ pc'[p] \in {"test", "fetch"} => pc[p] \in {"test", "fetch"}
         /\ pc[p] = "length" => pc'[p] # "idle"
<1>1. CASE ioctlHead(p)
  BY <1>1 DEF ioctlHead, Goto, TypeOK, Searching
<1>2. CASE ioctlWalk(p)
  BY <1>2 DEF ioctlWalk, Goto, TypeOK, Searching
<1>3. CASE ioctlAppend(p) \/ ioctlFirst(p)
  BY <1>3 DEF ioctlAppend, ioctlFirst, newChannel, Goto, TypeOK, Searching
<1>4. CASE writeLength(p)
  BY <1>4 DEF writeLength, Goto, TypeOK, Searching
<1>5. CASE writeByte(p)
  BY <1>5 DEF writeByte, TypeOK, Searching
<1>6. CASE readTest(p)
  BY <1>6 DEF readTest, Goto, TypeOK, locals, Searching
<1>7. CASE readByte(p)
  BY <1>7 DEF readByte, TypeOK, Searching
<1>8. ASSUME NEW r, Return(p, r)
      PROVE  /\ \A q \in Processes : q # p =>
                  /\ pc'[q] = pc[q] /\ file'[q] = file[q]
                  /\ param'[q] = param[q] /\ buffer'[q] = buffer[q]
             /\ pc'[p] = "idle"
  BY <1>8 DEF Return, Goto, TypeOK
<1>9. CASE ioctlFound(p) \/ ioctlSet(p) \/ ioctlLink(p) \/ writeEnd(p) \/ readEnd(p)
  BY <1>8, <1>9 DEF ioctlFound, ioctlSet, ioctlLink, SetFile, writeEnd, readEnd
<1>10. CASE ioctlNoMemory(p) \/ readRefused(p) \/ readFault(p)
  BY <1>8, <1>10 DEF ioctlNoMemory, readRefused, readFault, Refuse
<1> QED BY <1>1, <1>2, <1>3, <1>4, <1>5, <1>6, <1>7, <1>9, <1>10 DEF Finish

(* What the steps of a call are to SlotMap.                                *)
LEMMA Answers ==
  ASSUME NoAliases, TurnsInv, (TypeOK /\ Handles /\ Chained)',
         NEW p \in Processes, Finish(p)
  PROVE  \/ pc'[p] # "idle" /\ UNCHANGED <<asked, lastWritten>>
         \/ pc[p] \in Searching /\ Slots!Choose(file[p], param[p])
         \/ pc[p] = "store" /\ Slots!Write(file[p], buffer[p])
         \/ pc[p] \in {"test", "fetch"} /\ Slots!Read(file[p])
         \/ /\ UNCHANGED <<asked, lastWritten>>
            /\ \/ pc[p] \in Searching /\ ret'.error = "ENOMEM"
               \/ pc[p] \in {"test", "fetch"} /\ ret'.error \in {"ENOSPC", "EFAULT"}
<1>1. PICK own \in [Channels -> Minors \cup {NULL}] : Turns(own)
  BY DEF TurnsInv
<1>2. TypeOK /\ Base
  BY DEF TurnsInv, Base
<1>3. pc[p] # "idle" /\ (pc'[p] = "idle" => pc[p] # "length")
  BY <1>2, CallGoesOn
<1>4. Case(own, p)
  BY <1>1, <1>2, <1>3, OthersIdle DEF Case, Base
<1>5. CASE ioctlFound(p) \/ ioctlSet(p) \/ ioctlLink(p)
  <2>1. pc[p] \in Searching
    BY <1>5 DEF ioctlFound, ioctlSet, ioctlLink, Searching
  <2> QED BY <1>4, <1>5, <2>1, CaseSet, CaseLink
<1>6. CASE writeEnd(p)
  BY <1>4, <1>6, CaseWriteEnd DEF writeEnd
<1>7. CASE readEnd(p)
  BY <1>4, <1>7, CaseReadEnd DEF readEnd
<1>8. CASE readRefused(p)
  BY <1>4, <1>8, CaseEmpty DEF readRefused, Refuse, Return, Slots!Failed
<1>9. CASE ioctlNoMemory(p)
  BY <1>9 DEF ioctlNoMemory, Refuse, Return, Slots!Failed, Searching
<1>10. CASE readFault(p)
  BY <1>10 DEF readFault, Refuse, Return, Slots!Failed
<1>11. CASE ioctlHead(p) \/ ioctlWalk(p) \/ readTest(p)
  BY <1>2, <1>11 DEF ioctlHead, ioctlWalk, readTest, Goto, TypeOK, history
<1>12. CASE ioctlAppend(p) \/ ioctlFirst(p) \/ writeLength(p)
  BY <1>2, <1>12 DEF ioctlAppend, ioctlFirst, writeLength, Goto, TypeOK, history
<1>13. CASE writeByte(p) \/ readByte(p)
  BY <1>3, <1>13 DEF writeByte, readByte, history
<1> QED BY <1>5, <1>6, <1>7, <1>8, <1>9, <1>10, <1>11, <1>12, <1>13 DEF Finish

(* A call that goes on has answered nothing yet.                           *)
LEMMA CallGoesOnQuietly ==
  ASSUME TypeOK, NEW p \in Processes, Finish(p), pc'[p] # "idle"
  PROVE  UNCHANGED <<asked, lastWritten>>
<1>1. \A r : ~ Return(p, r)
  BY DEF Return, Goto, TypeOK
<1> QED BY <1>1 DEF Finish, ioctlHead, ioctlFound, ioctlWalk, ioctlAppend, ioctlFirst,
              ioctlNoMemory, ioctlSet, ioctlLink, writeLength, writeByte, writeEnd,
              readRefused, readTest, readByte, readFault, readEnd, SetFile, Refuse,
              history

(* Nobody gets a channel without a number that a file is set to.           *)
LEMMA UnsharedStep ==
  ASSUME HistoryOK, Unshared, [Slots!Next]_(Slots!vars) PROVE Unshared'
<1>1. CASE UNCHANGED asked
  BY <1>1 DEF Unshared
<1>2. ASSUME NEW f \in Files, Slots!OpenOrClose(f) PROVE Unshared'
  <2>1. 0 \notin HiddenNames
    BY TargetNames, Sizes
  <2> QED BY <1>2, <2>1 DEF Slots!OpenOrClose, Unshared, HistoryOK
<1>3. ASSUME NEW f \in Files, NEW id \in Ids, Slots!Choose(f, id) PROVE Unshared'
  <2>1. PICK k : asked' = [asked EXCEPT ![f] = k]
                 /\ k \in IF id >= IdLimit THEN Slots!Unused(MinorOf[f]) ELSE {id}
    BY <1>3 DEF Slots!Choose
  <2>2. ASSUME k \in HiddenNames PROVE \A g \in Files : asked[g] # k
    <3>1. id >= IdLimit
      <4>1. id \in Nat /\ IdLimit \in Nat
        BY Sizes
      <4>2. k \in Nat /\ k > IdLimit
        BY <2>2, TargetNames
      <4> QED BY <2>1, <4>1, <4>2
    <3> QED BY <2>1, <3>1 DEF Slots!Unused
  <2> QED BY <2>1, <2>2 DEF Unshared, HistoryOK
<1>4. CASE Slots!Unload \/ Slots!Fail \/ UNCHANGED Slots!vars
           \/ \E f \in Files :
                Slots!Read(f) \/ \E m \in Slots!Messages : Slots!Write(f, m)
  BY <1>1, <1>4 DEF Slots!Unload, Slots!Fail, Slots!vars, Slots!Read, Slots!Write
<1> QED BY <1>2, <1>3, <1>4 DEF Slots!Next

(* What the programs' steps start from.                                    *)
ProgramCase(p) ==
  /\ ProgramsInv /\ callers = "programs" /\ p \in Processes

LEMMA ProgramFacts ==
  ASSUME NEW p, ProgramCase(p)
  PROVE  /\ TypeOK /\ HistoryOK /\ ProgramOK(p) /\ p \in Processes /\ SentOK
         /\ step \in [Processes -> {"open", "ioctl", "transfer", "close"}]
         /\ program \in [Processes -> CommandLines \cup {NoProgram}]
         /\ sent \in [Minors -> [TargetChannels -> Seq(Bytes)]]
         /\ FileOf[p] \in Files /\ MinorOf[FileOf[p]] \in Minors
BY FileFacts DEF ProgramCase, ProgramsInv, ProgramsTypeOK, TurnsInv, Base

(* The other programs are where they were, unless a step changes what they *)
(* have found.                                                             *)
LEMMA OthersGoOn ==
  ASSUME NEW p, ProgramCase(p),
         \A q \in Processes : q # p =>
           /\ pc'[q] = pc[q] /\ file'[q] = file[q]
           /\ param'[q] = param[q] /\ buffer'[q] = buffer[q]
           /\ step'[q] = step[q] /\ program'[q] = program[q],
         \A f \in Files : f # FileOf[p] => asked'[f] = asked[f],
         \A f \in Files, n \in Minors : f # FileOf[p] /\ asked[f] \in HiddenNames =>
           lastWritten'[n][asked[f]] = <<>> \/
           lastWritten'[n][asked[f]] = lastWritten[n][asked[f]],
         ProgramOK(p)'
  PROVE  \A q \in Processes : ProgramOK(q)'
<1> SUFFICES ASSUME NEW q \in Processes, q # p PROVE ProgramOK(q)'
  OBVIOUS
<1>1. FileOf[q] # FileOf[p] /\ FileOf[q] \in Files /\ MinorOf[FileOf[q]] \in Minors
  BY ProgramsAssumption, FileFacts DEF ProgramCase
<1>2. ProgramOK(q)
  BY DEF ProgramCase, ProgramsInv
<1>3. /\ pc'[q] = pc[q] /\ file'[q] = file[q] /\ param'[q] = param[q]
      /\ buffer'[q] = buffer[q] /\ step'[q] = step[q] /\ program'[q] = program[q]
      /\ asked'[FileOf[q]] = asked[FileOf[q]]
  BY <1>1
<1>4. ChannelSet(q) => ChannelSet(q)'
  BY <1>1, <1>3 DEF ChannelSet
<1> QED BY <1>2, <1>3, <1>4 DEF ProgramOK

(* A step that leaves the device's messages and the files' channels alone. *)
LEMMA OnlyMoves ==
  ASSUME NEW p, ProgramCase(p),
         \A q \in Processes : q # p =>
           /\ pc'[q] = pc[q] /\ file'[q] = file[q]
           /\ param'[q] = param[q] /\ buffer'[q] = buffer[q]
           /\ step'[q] = step[q] /\ program'[q] = program[q],
         UNCHANGED <<asked, lastWritten, sent>>,
         ProgramOK(p)'
  PROVE  SentOK' /\ \A q \in Processes : ProgramOK(q)'
<1>1. SentOK'
  BY ProgramFacts DEF SentOK
<1>2. \A q \in Processes : ProgramOK(q)'
  BY OthersGoOn
<1> QED BY <1>1, <1>2

(* A program that opens its file, or begins a call.                        *)
LEMMA ProgramBegins ==
  ASSUME NEW p, ProgramCase(p), Begin(p)
  PROVE  SentOK' /\ \A q \in Processes : ProgramOK(q)'
<1>0. /\ TypeOK /\ HistoryOK /\ ProgramOK(p) /\ p \in Processes /\ SentOK
      /\ step \in [Processes -> {"open", "ioctl", "transfer", "close"}]
      /\ program \in [Processes -> CommandLines \cup {NoProgram}]
      /\ FileOf[p] \in Files
  BY ProgramFacts
<1>1. CASE openSlot(p)
  <2>1. /\ step[p] = "open" /\ step'[p] = "ioctl" /\ program'[p] \in CommandLines
        /\ \A q \in Processes : q # p => step'[q] = step[q] /\ program'[q] = program[q]
        /\ UNCHANGED <<pc, file, param, buffer, lastWritten, sent>>
        /\ \A f \in Files : f # FileOf[p] => asked'[f] = asked[f]
    BY <1>0, <1>1 DEF openSlot, Step, device_open, locals, HistoryOK
  <2>2. ProgramOK(p)'
    BY <1>0, <2>1 DEF ProgramOK, Searching
  <2>3. SentOK'
    BY <1>0, <2>1 DEF SentOK
  <2> QED BY <2>1, <2>2, <2>3, OthersGoOn
<1>2. CASE callIoctl(p)
  <2>1. /\ pc'[p] = "head" /\ file'[p] = FileOf[p] /\ step[p] = "ioctl"
        /\ param'[p] = toULong(program[p].channel) /\ program[p].channel # 0
        /\ \A q \in Processes : q # p =>
             /\ pc'[q] = pc[q] /\ file'[q] = file[q] /\ param'[q] = param[q]
        /\ UNCHANGED <<program, step, sent, buffer, asked, lastWritten>>
    BY <1>0, <1>2 DEF callIoctl, ioctl, Call, Goto, TypeOK, programVars, history
  <2>2. ProgramOK(p)'
    BY <1>0, <2>1 DEF ProgramOK
  <2> QED BY <2>1, <2>2, OnlyMoves
<1>3. CASE callIoctlZero(p) \/ callWriteTooLong(p)
  <2>1. PICK r : Return(p, r) /\ UNCHANGED <<asked, lastWritten>>
    BY <1>3 DEF callIoctlZero, callWriteTooLong, ioctlRefused, writeRefused, Refuse
  <2>2. /\ pc'[p] = "idle"
        /\ \A q \in Processes : q # p =>
             /\ pc'[q] = pc[q] /\ file'[q] = file[q]
             /\ param'[q] = param[q] /\ buffer'[q] = buffer[q]
    BY <1>0, <2>1 DEF Return, Goto, TypeOK
  <2>3. /\ step[p] \in {"ioctl", "transfer"} /\ step'[p] = "close"
        /\ \A q \in Processes : q # p => step'[q] = step[q]
        /\ UNCHANGED <<program, sent>>
    BY <1>0, <1>3 DEF callIoctlZero, callWriteTooLong, Step
  <2>4. ProgramOK(p)'
    BY <1>0, <2>2, <2>3 DEF ProgramOK, Searching
  <2> QED BY <2>1, <2>2, <2>3, <2>4, OnlyMoves
<1>4. CASE callWrite(p)
  <2>1. /\ pc'[p] = "length" /\ file'[p] = FileOf[p] /\ step[p] = "transfer"
        /\ buffer'[p] = program[p].text /\ program[p].name = "message_sender"
        /\ \A q \in Processes : q # p =>
             /\ pc'[q] = pc[q] /\ file'[q] = file[q] /\ buffer'[q] = buffer[q]
        /\ UNCHANGED <<program, step, sent, param, asked, lastWritten>>
    BY <1>0, <1>4 DEF callWrite, writeStart, Call, Goto, TypeOK, programVars, history
  <2>2. ProgramOK(p)'
    BY <1>0, <2>1 DEF ProgramOK, ChannelSet, Searching
  <2> QED BY <2>1, <2>2, OnlyMoves
<1>5. CASE callRead(p)
  <2>1. /\ pc'[p] = "test" /\ file'[p] = FileOf[p] /\ step[p] = "transfer"
        /\ program[p].name = "message_reader"
        /\ \A q \in Processes : q # p =>
             /\ pc'[q] = pc[q] /\ file'[q] = file[q] /\ param'[q] = param[q]
        /\ UNCHANGED <<program, step, sent, buffer, asked, lastWritten>>
    BY <1>0, <1>5 DEF callRead, readStart, Call, Goto, TypeOK, programVars, history
  <2>2. ProgramOK(p)'
    BY <1>0, <2>1 DEF ProgramOK, ChannelSet, Searching
  <2> QED BY <2>1, <2>2, OnlyMoves
<1> QED BY <1>1, <1>2, <1>3, <1>4, <1>5 DEF Begin

(* A file that ioctl has set is the program's, to the channel it asked for *)
(* or, if that number did not fit, to one without a message.               *)
LEMMA ChoosesTarget ==
  ASSUME NEW p, ProgramCase(p), pc[p] \in Searching,
         Slots!Choose(file[p], param[p])
  PROVE  /\ \A f \in Files : f # FileOf[p] => asked'[f] = asked[f]
         /\ UNCHANGED lastWritten
         /\ program'[p] = program[p] => ChannelSet(p)'
<1> DEFINE c == program[p].channel
           f == FileOf[p]
           n == MinorOf[f]
<1>1. /\ HistoryOK /\ f \in Files /\ n \in Minors /\ file[p] = f /\ c # 0
      /\ param[p] = toULong(c) /\ c \in TargetChannels /\ ProgramOK(p)
  <2>1. HistoryOK /\ f \in Files /\ n \in Minors /\ ProgramOK(p)
    BY ProgramFacts
  <2>2. pc[p] # "idle" /\ step[p] # "open"
    BY <2>1 DEF ProgramOK, Searching
  <2> QED BY <2>1, <2>2, CommandFacts DEF ProgramOK
<1>2. PICK k : /\ asked' = [asked EXCEPT ![f] = k] /\ UNCHANGED lastWritten
               /\ k \in IF toULong(c) >= IdLimit THEN Slots!Unused(n)
                                                 ELSE {toULong(c)}
  <2>1. toULong(c) \in Ids
    BY <1>1, TargetsAssumption
  <2> HIDE DEF c, f
  <2> QED BY <1>1, <2>1 DEF Slots!Choose
<1>3. c > 0 => k = c
  <2>1. c > 0 => ~ (toULong(c) >= IdLimit) /\ toULong(c) = c
    BY <1>1, TargetNames, Sizes
  <2> HIDE DEF c
  <2> QED BY <1>2, <2>1
<1>4. c < 0 => k \in HiddenNames /\ lastWritten[n][k] = <<>>
  <2>1. c < 0 => toULong(c) >= IdLimit
    BY <1>1, TargetsAssumption
  <2> HIDE DEF c
  <2> QED BY <1>2, <2>1 DEF Slots!Unused, HiddenNames
<1>5. asked'[f] = k /\ \A g \in Files : g # f => asked'[g] = asked[g]
  BY <1>1, <1>2 DEF HistoryOK
<1>6. ASSUME program'[p] = program[p] PROVE ChannelSet(p)'
  BY <1>1, <1>2, <1>3, <1>4, <1>5, <1>6 DEF ChannelSet
<1> QED BY <1>2, <1>5, <1>6

(* What a program writes is what was sent last, and nobody else's.         *)
LEMMA WritesTarget ==
  ASSUME NEW p, ProgramCase(p), pc[p] = "store",
         Slots!Write(file[p], buffer[p])
  PROVE  /\ UNCHANGED asked /\ ret'.error = "none"
         /\ \A f \in Files, n \in Minors : f # FileOf[p] /\ asked[f] \in HiddenNames =>
              lastWritten'[n][asked[f]] = lastWritten[n][asked[f]]
         /\ sent' = [sent EXCEPT ![MinorOf[FileOf[p]]][program[p].channel] =
                       program[p].text] => SentOK'
<1> DEFINE c == program[p].channel
           f == FileOf[p]
           m == program[p].text
<1>0. PICK n, k : n = MinorOf[f] /\ k = asked[f] /\ n \in Minors
  BY FileFacts DEF ProgramCase
<1>1. /\ HistoryOK /\ f \in Files /\ file[p] = f /\ SentOK
      /\ c \in TargetChannels /\ ChannelSet(p) /\ buffer[p] = m
      /\ sent \in [Minors -> [TargetChannels -> Seq(Bytes)]]
  <2>1. /\ HistoryOK /\ f \in Files /\ ProgramOK(p) /\ SentOK
        /\ sent \in [Minors -> [TargetChannels -> Seq(Bytes)]]
    BY ProgramFacts
  <2>2. pc[p] # "idle" /\ step[p] = "transfer" /\ step[p] # "open"
    BY <2>1 DEF ProgramOK
  <2> QED BY <2>1, <2>2, CommandFacts DEF ProgramOK
<1>2. /\ lastWritten' = [lastWritten EXCEPT ![n][k] = m]
      /\ ret'.error = "none" /\ UNCHANGED asked
  BY <1>0, <1>1 DEF Slots!Write, Slots!Success
<1>3. /\ c \in Int /\ c # 0
      /\ c > 0 => k = c
      /\ c < 0 => k \in HiddenNames
  BY <1>0, <1>1, TargetNames DEF ChannelSet
<1>4. (c > 0 \/ c < 0) /\ ~ (c > 0 /\ c < 0)
  <2>1. \A d \in Int : d # 0 => (d > 0 \/ d < 0) /\ ~ (d > 0 /\ d < 0)
    OBVIOUS
  <2> HIDE DEF c
  <2> QED BY <1>3, <2>1
<1>5. k \in Slots!Names
  BY <1>1, <1>3, <1>4, TargetNames
<1>6. /\ lastWritten'[n][k] = m
      /\ \A o \in Minors, j \in Slots!Names :
           o # n \/ j # k => lastWritten'[o][j] = lastWritten[o][j]
  BY <1>0, <1>1, <1>2, <1>5 DEF HistoryOK
<1>7. ASSUME NEW g \in Files, NEW o \in Minors, g # f, asked[g] \in HiddenNames
      PROVE  lastWritten'[o][asked[g]] = lastWritten[o][asked[g]]
  <2>1. asked[g] # k
    BY <1>0, <1>1, <1>7 DEF ProgramCase, ProgramsInv, Unshared
  <2>2. asked[g] \in Slots!Names
    BY <1>7, TargetNames
  <2> QED BY <1>6, <2>1, <2>2
<1>8. ASSUME sent' = [sent EXCEPT ![n][c] = m] PROVE SentOK'
  <2>1. /\ sent'[n][c] = m
        /\ \A o \in Minors, d \in TargetChannels :
             o # n \/ d # c => sent'[o][d] = sent[o][d]
    BY <1>0, <1>1, <1>8
  <2>2. ASSUME NEW o \in Minors, NEW d \in TargetChannels, d > 0
        PROVE  sent'[o][d] = lastWritten'[o][d]
    <3> HIDE DEF c, f, m
    <3>1. d \in Slots!Names /\ d \notin HiddenNames
      BY <2>2, TargetNames
    <3>2. CASE o = n /\ d = c
      BY <1>3, <1>6, <2>1, <2>2, <3>2
    <3>3. CASE o # n \/ d # c
      <4>1. o # n \/ d # k
        BY <1>3, <1>4, <3>1, <3>3
      <4> QED BY <1>1, <1>6, <2>1, <2>2, <3>1, <3>3, <4>1 DEF SentOK
    <3> QED BY <3>2, <3>3
  <2> QED BY <2>2 DEF SentOK
<1> QED BY <1>0, <1>2, <1>7, <1>8

(* The answer to a read is what was sent last to the program's channel.    *)
LEMMA ReadsTarget ==
  ASSUME NEW p, ProgramCase(p), pc[p] \in {"test", "fetch"},
         Slots!Read(file[p])
  PROVE  LET m == sent[MinorOf[FileOf[p]]][program[p].channel] IN
         /\ UNCHANGED <<asked, lastWritten>>
         /\ ret' = IF m = <<>> \/ program[p].channel < 0
                   THEN Slots!Failed("EWOULDBLOCK") ELSE Slots!Success(m)
<1> DEFINE c == program[p].channel
           f == FileOf[p]
           n == MinorOf[f]
<1>1. /\ HistoryOK /\ f \in Files /\ n \in Minors /\ file[p] = f /\ SentOK
      /\ c \in TargetChannels /\ ChannelSet(p) /\ program[p].name = "message_reader"
  <2>1. HistoryOK /\ f \in Files /\ n \in Minors /\ ProgramOK(p) /\ SentOK
    BY ProgramFacts
  <2>2. pc[p] # "idle" /\ step[p] = "transfer" /\ step[p] # "open"
    BY <2>1 DEF ProgramOK
  <2> QED BY <2>1, <2>2, CommandFacts DEF ProgramOK
<1>2. c \in Int /\ c # 0 /\ ~ (c > 0 /\ c < 0) /\ (c > 0 \/ c < 0)
  <2>1. c \in Int /\ c # 0
    BY <1>1, TargetNames DEF ChannelSet
  <2> HIDE DEF c
  <2> QED BY <2>1
<1>3. /\ UNCHANGED <<asked, lastWritten>>
      /\ LET m == lastWritten[n][asked[f]] IN
           IF m = <<>> THEN ret' = Slots!Failed("EWOULDBLOCK")
                       ELSE ret' = Slots!Success(m)
  BY <1>1 DEF Slots!Read
<1>4. CASE c > 0
  <2>1. asked[f] = c /\ sent[n][c] = lastWritten[n][c]
    BY <1>1, <1>4 DEF ChannelSet, SentOK
  <2> HIDE DEF c, f, n
  <2>2. ret' = IF sent[n][c] = <<>> \/ c < 0
               THEN Slots!Failed("EWOULDBLOCK") ELSE Slots!Success(sent[n][c])
    BY <1>2, <1>3, <1>4, <2>1
  <2> QED BY <1>3, <2>2 DEF c, f, n
<1>5. CASE c < 0
  <2>1. lastWritten[n][asked[f]] = <<>>
    BY <1>1, <1>5 DEF ChannelSet
  <2> HIDE DEF c, f, n
  <2>2. ret' = IF sent[n][c] = <<>> \/ c < 0
               THEN Slots!Failed("EWOULDBLOCK") ELSE Slots!Success(sent[n][c])
    BY <1>3, <1>5, <2>1
  <2> QED BY <1>3, <2>2 DEF c, f, n
<1> QED BY <1>2, <1>4, <1>5

(* A program that goes on in a call, or comes back from it.                *)
LEMMA ProgramProceeds ==
  ASSUME NoAliases, (TypeOK /\ Handles /\ Chained)', NEW p, ProgramCase(p),
         insideCall(p) \/ ioctlReturns(p) \/ transferReturns(p)
  PROVE  SentOK' /\ \A q \in Processes : ProgramOK(q)'
<1>0. /\ TypeOK /\ HistoryOK /\ ProgramOK(p) /\ p \in Processes /\ SentOK
      /\ step \in [Processes -> {"open", "ioctl", "transfer", "close"}]
      /\ program \in [Processes -> CommandLines \cup {NoProgram}]
      /\ Finish(p) /\ TurnsInv
  BY ProgramFacts DEF insideCall, ioctlReturns, transferReturns, Returns,
                      ProgramCase, ProgramsInv
<1>1. /\ pc[p] # "idle" /\ program' = program
      /\ \A q \in Processes : q # p =>
           /\ pc'[q] = pc[q] /\ file'[q] = file[q]
           /\ param'[q] = param[q] /\ buffer'[q] = buffer[q]
           /\ step'[q] = step[q] /\ program'[q] = program[q]
  <2>1. program' = program /\ \A q \in Processes : q # p => step'[q] = step[q]
    BY <1>0 DEF insideCall, ioctlReturns, transferReturns, Step, programVars
  <2> QED BY <1>0, <2>1, CallGoesOn
<1>2. \/ pc'[p] # "idle" /\ UNCHANGED <<asked, lastWritten>>
      \/ pc[p] \in Searching /\ Slots!Choose(file[p], param[p])
      \/ pc[p] = "store" /\ Slots!Write(file[p], buffer[p])
      \/ pc[p] \in {"test", "fetch"} /\ Slots!Read(file[p])
      \/ /\ UNCHANGED <<asked, lastWritten>>
         /\ \/ pc[p] \in Searching /\ ret'.error = "ENOMEM"
            \/ pc[p] \in {"test", "fetch"} /\ ret'.error \in {"ENOSPC", "EFAULT"}
  BY <1>0, Answers
<1>3. CASE insideCall(p)
  <2>1. pc'[p] # "idle" /\ UNCHANGED <<program, step, sent>>
    BY <1>3 DEF insideCall, programVars
  <2>2. UNCHANGED <<asked, lastWritten>>
    BY <1>0, <2>1, CallGoesOnQuietly
  <2>3. /\ file'[p] = file[p]
        /\ pc'[p] \in Searching <=> pc[p] \in Searching
        /\ pc[p] \in Searching => param'[p] = param[p]
        /\ pc'[p] \in {"length", "store"} =>
             pc[p] \in {"length", "store"} /\ buffer'[p] = buffer[p]
        /\ pc'[p] \in {"test", "fetch"} => pc[p] \in {"test", "fetch"}
    BY <1>0, <2>1, CallGoesOn
  <2>4. ProgramOK(p)'
    BY <1>0, <1>1, <2>1, <2>2, <2>3 DEF ProgramOK, ChannelSet
  <2> QED BY <1>1, <2>1, <2>2, <2>4, OnlyMoves
<1>4. CASE ioctlReturns(p)
  <2>1. /\ pc'[p] = "idle" /\ step[p] = "ioctl" /\ sent' = sent
        /\ step'[p] = IF ret'.error = "none" THEN "transfer" ELSE "close"
    BY <1>0, <1>4 DEF ioctlReturns, Returns, Step
  <2>2. pc[p] \in Searching
    BY <1>0, <1>1, <2>1 DEF ProgramOK, Searching, TypeOK
  <2>3. \/ Slots!Choose(file[p], param[p])
        \/ UNCHANGED <<asked, lastWritten>> /\ ret'.error = "ENOMEM"
    BY <1>2, <2>1, <2>2 DEF Searching
  <2>4. CASE Slots!Choose(file[p], param[p])
    <3>1. /\ \A f \in Files : f # FileOf[p] => asked'[f] = asked[f]
          /\ UNCHANGED lastWritten
          /\ ChannelSet(p)'
      BY <1>1, <2>2, <2>4, ChoosesTarget
    <3>2. step'[p] = "transfer"
      BY <2>1, <2>4 DEF Slots!Choose, Slots!Success
    <3>3. ProgramOK(p)'
      BY <1>0, <1>1, <2>1, <3>1, <3>2 DEF ProgramOK, Searching
    <3>4. SentOK'
      BY <1>0, <2>1, <3>1 DEF SentOK
    <3> QED BY <1>1, <3>1, <3>3, <3>4, OthersGoOn
  <2>5. CASE UNCHANGED <<asked, lastWritten>> /\ ret'.error = "ENOMEM"
    <3>1. step'[p] = "close"
      BY <2>1, <2>5
    <3>2. ProgramOK(p)'
      BY <1>0, <1>1, <2>1, <3>1 DEF ProgramOK, Searching
    <3> QED BY <1>1, <2>1, <2>5, <3>2, OnlyMoves
  <2> QED BY <2>3, <2>4, <2>5
<1>5. CASE transferReturns(p)
  <2>1. /\ pc'[p] = "idle" /\ step[p] = "transfer" /\ step'[p] = "close"
        /\ sent' = IF program[p].name = "message_sender" /\ ret'.error = "none"
                   THEN [sent EXCEPT ![MinorOf[FileOf[p]]][program[p].channel] =
                           program[p].text]
                   ELSE sent
    BY <1>0, <1>5 DEF transferReturns, Returns, Step
  <2>2. pc[p] \notin Searching
    BY <1>0, <2>1 DEF ProgramOK
  <2>3. ProgramOK(p)'
    BY <1>0, <1>1, <2>1 DEF ProgramOK, Searching
  <2>4. CASE pc[p] = "store" /\ Slots!Write(file[p], buffer[p])
    <3>1. program[p].name = "message_sender"
      BY <1>0, <2>4 DEF ProgramOK
    <3>2. /\ UNCHANGED asked /\ SentOK'
          /\ \A f \in Files, n \in Minors : f # FileOf[p] /\ asked[f] \in HiddenNames =>
               lastWritten'[n][asked[f]] = lastWritten[n][asked[f]]
      BY <2>1, <2>4, <3>1, WritesTarget
    <3> QED BY <1>1, <2>3, <3>2, OthersGoOn
  <2>5. CASE pc[p] \in {"test", "fetch"} /\ UNCHANGED <<asked, lastWritten>>
    <3>1. program[p].name = "message_reader"
      BY <1>0, <2>5 DEF ProgramOK
    <3>2. sent' = sent
      BY <2>1, <3>1
    <3> QED BY <1>1, <2>3, <2>5, <3>2, OnlyMoves
  <2>6. pc[p] \in {"test", "fetch"} /\ Slots!Read(file[p])
        => UNCHANGED <<asked, lastWritten>>
    BY DEF Slots!Read
  <2> QED BY <1>2, <2>1, <2>2, <2>4, <2>5, <2>6
<1> QED BY <1>3, <1>4, <1>5

(* The module is loaded and unloaded.                                      *)
LEMMA ModuleMoves ==
  ASSUME ProgramsInv, callers = "programs", load \/ unload
  PROVE  SentOK' /\ \A q \in Processes : ProgramOK(q)'
<1>1. /\ SentOK /\ \A q \in Processes : ProgramOK(q)
      /\ UNCHANGED <<pc, file, param, buffer, asked, program, step>>
  BY DEF ProgramsInv, load, unload, slot_init, slot_cleanup, locals, history,
         programVars
<1>2. CASE load
  <2>1. UNCHANGED <<lastWritten, sent>>
    BY <1>2 DEF load, slot_init, history, programVars
  <2> QED BY <1>1, <2>1 DEF SentOK, ProgramOK, ChannelSet
<1>3. CASE unload
  <2>1. /\ \A n \in Minors, k \in Slots!Names : lastWritten'[n][k] = <<>>
        /\ \A n \in Minors, c \in TargetChannels : sent'[n][c] = <<>>
    BY <1>3 DEF unload, slot_cleanup, Slots!Empty, NothingSent
  <2>2. SentOK'
    BY <2>1, TargetNames DEF SentOK
  <2>3. ASSUME NEW q \in Processes PROVE ProgramOK(q)'
    <3>1. ChannelSet(q) => ChannelSet(q)'
      BY <1>1, <2>1, TargetNames, FileFacts DEF ChannelSet
    <3> QED BY <1>1, <3>1 DEF ProgramOK
  <2> QED BY <2>2, <2>3
<1> QED BY <1>2, <1>3

(* Every step of the programs keeps what is said of them.                  *)
LEMMA ProgramsStep ==
  ASSUME NoAliases, ProgramsInv, [ProgramsNext]_allVars PROVE ProgramsInv'
<1>1. ProgramsTypeOK' /\ (TypeOK /\ Handles /\ Chained)'
  BY ProgramsTypeStep DEF ProgramsInv, TurnsInv, Base, ProgramsTypeOK
<1>2. TurnsInv' /\ [Slots!Next]_(Slots!vars)
  BY ProgramsTakeTurns, TurnsStep DEF ProgramsInv, Goal
<1>3. Unshared'
  BY <1>2, UnsharedStep DEF ProgramsInv, TurnsInv, Base
<1>4. callers' = callers
  BY DEF ProgramsNext, allVars
<1>5. ASSUME callers = "programs"
      PROVE  SentOK' /\ \A q \in Processes : ProgramOK(q)'
  <2>1. CASE UNCHANGED allVars
    <3>1. UNCHANGED <<pc, file, param, buffer, asked, lastWritten, program, step, sent>>
      BY <2>1 DEF allVars, vars, locals, history, programVars
    <3> QED BY <1>5, <3>1 DEF ProgramsInv, SentOK, ProgramOK, ChannelSet
  <2>2. CASE load \/ unload
    BY <1>5, <2>2, ModuleMoves
  <2>3. ASSUME NEW p \in Processes, Proceed(p)
        PROVE  SentOK' /\ \A q \in Processes : ProgramOK(q)'
    <3>0. ProgramCase(p)
      BY <1>5 DEF ProgramCase
    <3>1. CASE insideCall(p) \/ ioctlReturns(p) \/ transferReturns(p)
      BY <1>1, <3>0, <3>1, ProgramProceeds
    <3>2. CASE closeSlot(p)
      <4>0. /\ HistoryOK /\ ProgramOK(p) /\ SentOK /\ FileOf[p] \in Files
            /\ step \in [Processes -> {"open", "ioctl", "transfer", "close"}]
            /\ program \in [Processes -> CommandLines \cup {NoProgram}]
        BY <3>0, ProgramFacts
      <4>1. /\ step[p] = "close" /\ step'[p] = "open"
            /\ \A q \in Processes :
                 q # p => step'[q] = step[q] /\ program'[q] = program[q]
            /\ UNCHANGED <<pc, file, param, buffer, lastWritten, sent>>
            /\ \A f \in Files : f # FileOf[p] => asked'[f] = asked[f]
        BY <3>2, <4>0 DEF closeSlot, Step, slot_release, locals, HistoryOK
      <4>2. ProgramOK(p)'
        BY <4>0, <4>1 DEF ProgramOK, Searching
      <4>3. SentOK'
        BY <4>0, <4>1 DEF SentOK
      <4> QED BY <3>0, <4>1, <4>2, <4>3, OthersGoOn
    <3> QED BY <2>3, <3>1, <3>2 DEF Proceed
  <2>4. ASSUME NEW p \in Processes, Begin(p)
        PROVE  SentOK' /\ \A q \in Processes : ProgramOK(q)'
    BY <1>5, <2>4, ProgramBegins DEF ProgramCase
  <2>5. ~ callAnything
    BY <1>5 DEF callAnything
  <2> QED BY <2>1, <2>2, <2>3, <2>4, <2>5 DEF ProgramsNext, runPrograms
<1> QED BY <1>1, <1>2, <1>3, <1>4, <1>5 DEF ProgramsInv

(* A reader prints the message that was last sent to its channel, whoever  *)
(* opened, chose, wrote and closed in between: for any number of processes *)
(* and devices, as long as numbers were ints.                              *)
THEOREM ReadersGetLastSent ==
  ASSUME NoAliases PROVE ProgramsSpec => ReadsLastSent
<1>1. ProgramsInit => ProgramsInv
  <2> SUFFICES ASSUME ProgramsInit PROVE ProgramsInv
    OBVIOUS
  <2>1. ProgramsTypeOK
    <3>1. sent \in [Minors -> [TargetChannels -> Seq(Bytes)]]
      BY EmptySeq DEF ProgramsInit, NothingSent
    <3> QED BY <3>1, TypeInit DEF ProgramsInit, ProgramsTypeOK
  <2>2. /\ \A f \in Files : asked[f] = 0
        /\ \A n \in Minors, k \in Slots!Names : lastWritten[n][k] = <<>>
    BY DEF ProgramsInit, Init, Slots!Init, Slots!Empty
  <2>3. Unshared
    BY <2>2, TargetNames, Sizes DEF Unshared
  <2>4. SentOK
    BY <2>2, TargetNames DEF ProgramsInit, NothingSent, SentOK
  <2>5. \A p \in Processes : ProgramOK(p)
    BY DEF ProgramsInit, Init, ProgramOK, Searching
  <2> QED BY <2>1, <2>3, <2>4, <2>5, TurnsInit DEF ProgramsInv, ProgramsInit
<1>2. ProgramsInv /\ [ProgramsNext]_allVars => ProgramsInv'
  BY ProgramsStep
<1>3. ProgramsInv /\ [ProgramsNext]_allVars =>
        [\A p \in Processes :
           transferReturns(p) /\ program[p].name = "message_reader" =>
             LET m == sent[MinorOf[FileOf[p]]][program[p].channel] IN
             ret' = IF m = <<>> \/ program[p].channel < 0
                    THEN Slots!Failed("EWOULDBLOCK") ELSE Slots!Success(m)]_allVars
  <2> SUFFICES ASSUME ProgramsInv, [ProgramsNext]_allVars, NEW p \in Processes,
                      transferReturns(p), program[p].name = "message_reader"
               PROVE  LET m == sent[MinorOf[FileOf[p]]][program[p].channel] IN
                      ret' = IF m = <<>> \/ program[p].channel < 0
                             THEN Slots!Failed("EWOULDBLOCK") ELSE Slots!Success(m)
    OBVIOUS
  <2>1. callers = "programs"
    <3>1. step[p] = "transfer" /\ step'[p] = "close"
      BY DEF transferReturns, Step, ProgramsInv, ProgramsTypeOK
    <3>2. ~ UNCHANGED step
      BY <3>1
    <3> QED BY <3>2 DEF ProgramsNext, runPrograms, callAnything, programVars, allVars
  <2>2. ProgramCase(p) /\ ProgramOK(p)
    BY <2>1 DEF ProgramCase, ProgramsInv
  <2>3. (TypeOK /\ Handles /\ Chained)'
    BY ProgramsTypeStep DEF ProgramsInv, TurnsInv, Base, ProgramsTypeOK
  <2>4. /\ Finish(p) /\ pc'[p] = "idle" /\ step[p] = "transfer"
        /\ ret'.error \notin {"ENOSPC", "EFAULT"}
    BY DEF transferReturns, Returns, Step
  <2>5. pc[p] \notin Searching /\ pc[p] # "store"
    BY <2>2, <2>4 DEF ProgramOK
  <2>6. pc[p] \in {"test", "fetch"} /\ Slots!Read(file[p])
    BY <2>3, <2>4, <2>5, Answers DEF ProgramsInv
  <2> QED BY <2>2, <2>6, ReadsTarget
<1> QED BY <1>1, <1>2, <1>3, PTL DEF ProgramsSpec, ReadsLastSent

=============================================================================
