------------------------------ MODULE SlotMap ------------------------------
(***************************************************************************)
(* What a message slot device of exercise 3 promises to callers that take  *)
(* turns: a box for every minor number and channel, which keeps the last   *)
(* message written into it until the module is unloaded, and files that    *)
(* remember which channel of their device they were set to.  A number that *)
(* is too large for the device gets a hidden box, which nobody else finds, *)
(* every time it is chosen.                                                *)
(***************************************************************************)
EXTENDS Integers, Sequences

CONSTANTS
  Files, Minors, MinorOf, Ids, Bytes, MaxLength,
  TooLarge,   (* those of the Ids that the device does not find again      *)
  Hidden      (* the names of the hidden boxes                             *)

VARIABLES
  box,     (* the message in each channel of each device, <<>> if none     *)
  chosen,  (* the channel a file is set to, 0 if none                      *)
  ret      (* what the last call returned                                  *)

vars == <<box, chosen, ret>>

Messages == UNION {[1 .. n -> Bytes] : n \in 1 .. MaxLength}
Errors == {"EINVAL", "EMSGSIZE", "ENOMEM", "EFAULT", "EWOULDBLOCK", "ENOSPC"}
Failed(e) == [error |-> e, value |-> <<>>]
Success(m) == [error |-> "none", value |-> m]

Names == (Ids \ TooLarge) \cup Hidden

Empty == [n \in Minors |-> [k \in Names |-> <<>>]]

Init ==
  /\ box = Empty
  /\ chosen = [f \in Files |-> 0]
  /\ ret = Success(<<>>)

OpenOrClose(f) ==
  /\ chosen' = [chosen EXCEPT ![f] = 0]
  /\ UNCHANGED <<box, ret>>

Unused(n) ==
  {k \in Hidden : box[n][k] = <<>> /\ \A f \in Files : chosen[f] # k}

Choose(f, id) ==
  /\ \E k \in IF id \in TooLarge THEN Unused(MinorOf[f]) ELSE {id} :
       chosen' = [chosen EXCEPT ![f] = k]
  /\ ret' = Success(<<>>)
  /\ UNCHANGED box

Write(f, m) ==
  /\ chosen[f] # 0
  /\ box' = [box EXCEPT ![MinorOf[f]][chosen[f]] = m]
  /\ ret' = Success(<<>>)
  /\ UNCHANGED chosen

(* A read returns the whole of the last message written.                   *)
Read(f) ==
  /\ chosen[f] # 0
  /\ LET m == box[MinorOf[f]][chosen[f]] IN
       IF m = <<>> THEN ret' = Failed("EWOULDBLOCK")
                   ELSE ret' = Success(m)
  /\ UNCHANGED <<box, chosen>>

Fail ==
  /\ \E e \in Errors \ {"EWOULDBLOCK"} : ret' = Failed(e)
  /\ UNCHANGED <<box, chosen>>

Unload ==
  /\ box' = Empty
  /\ UNCHANGED <<chosen, ret>>

Next ==
  \/ Unload
  \/ \E f \in Files :
       \/ OpenOrClose(f)
       \/ \E id \in Ids : Choose(f, id)
       \/ \E m \in Messages : Write(f, m)
       \/ Read(f)
  \/ Fail

Spec == Init /\ [][Next]_vars
=============================================================================
