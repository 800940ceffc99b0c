------------------------------ MODULE PageMap ------------------------------
(***************************************************************************)
(* What the page tables of exercise 1 promise: every table maps each       *)
(* virtual page to a physical page or to nothing, a new one maps nothing,  *)
(* and an update changes the page it was asked to change, to what it was   *)
(* asked, at one moment; or the program ends before and nothing changes.   *)
(***************************************************************************)
CONSTANTS Tables, Pages, Frames, NO_MAPPING

VARIABLES
  created,   (* the tables made so far                                     *)
  map,       (* where each table maps each virtual page                    *)
  phase,     (* "idle", "update" or "exited"                               *)
  asked      (* the table, the page and the new mapping of the update      *)

vars == <<created, map, phase, asked>>

Init ==
  /\ created = {}
  /\ map = [pt \in Tables |-> [v \in Pages |-> NO_MAPPING]]
  /\ phase = "idle" /\ asked = <<>>

Create(pt) ==
  /\ phase = "idle" /\ pt \notin created
  /\ created' = created \cup {pt}
  /\ UNCHANGED <<phase, asked, map>>

Ask(pt, v, frame) ==
  /\ phase = "idle" /\ pt \in created
  /\ phase' = "update" /\ asked' = <<pt, v, frame>>
  /\ UNCHANGED <<created, map>>

Answer ==
  /\ phase = "update" /\ phase' = "idle" /\ asked' = <<>>
  /\ UNCHANGED created
  /\ map' = [map EXCEPT ![asked[1]][asked[2]] = asked[3]]

End ==
  /\ phase # "exited" /\ phase' = "exited" /\ asked' = <<>>
  /\ UNCHANGED <<created, map>>

(* Between two updates the program may take a mapping away by hand, as the *)
(* sixth test of 1/os.c does.                                              *)
Clear(pt, v) ==
  /\ phase = "idle"
  /\ UNCHANGED <<created, phase, asked>>
  /\ map' = [map EXCEPT ![pt][v] = NO_MAPPING]

Next ==
  \/ \E pt \in Tables :
       \/ Create(pt)
       \/ \E v \in Pages :
            Clear(pt, v) \/ \E frame \in Frames \cup {NO_MAPPING} : Ask(pt, v, frame)
  \/ Answer \/ End

Spec == Init /\ [][Next]_vars
=============================================================================
