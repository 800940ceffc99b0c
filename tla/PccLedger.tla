----------------------------- MODULE PccLedger -----------------------------
(***************************************************************************)
(* What the printable characters service of exercise 5 promises, without   *)
(* sockets, processes and signals: every file is counted as a whole and at *)
(* most once, a client is told the count of its own file, and no client is *)
(* told a count that the statistics printed at the end leave out.          *)
(***************************************************************************)
EXTENDS Integers, FiniteSets

CONSTANTS
  Clients,
  Printable,   (* the characters of the statistics                         *)
  Amount,      (* how often a client's file holds a character              *)
  Size,        (* how many printable characters a client's file holds      *)
  Modulus      (* the counters are unsigned and wrap here                  *)

VARIABLES
  total,    (* the statistics so far                                       *)
  counted,  (* the clients whose files they contain                        *)
  told,     (* what a client was told, -1 if nothing                       *)
  closed    (* the statistics were printed, or lost                        *)

vars == <<total, counted, told, closed>>

Init ==
  /\ total = [ch \in Printable |-> 0]
  /\ counted = {}
  /\ told = [c \in Clients |-> -1]
  /\ closed = "no"

Count(c) ==
  /\ closed = "no" /\ c \notin counted
  /\ counted' = counted \cup {c}
  /\ total' = [ch \in Printable |-> (total[ch] + Amount[c][ch]) % Modulus]
  /\ UNCHANGED <<told, closed>>

(* The answer may arrive before the file is added, and after the end.      *)
Tell(c) ==
  /\ closed = "printed" => c \in counted
  /\ told[c] = -1
  /\ told' = [told EXCEPT ![c] = Size[c]]
  /\ UNCHANGED <<total, counted, closed>>

PrintStatistics ==
  /\ closed = "no"
  /\ \A c \in Clients : told[c] # -1 => c \in counted
  /\ closed' = "printed"
  /\ UNCHANGED <<total, counted, told>>

LoseStatistics ==
  /\ closed = "no"
  /\ closed' = "lost"
  /\ UNCHANGED <<total, counted, told>>

Next ==
  \/ \E c \in Clients : Count(c) \/ Tell(c)
  \/ PrintStatistics
  \/ LoseStatistics

Spec == Init /\ [][Next]_vars
=============================================================================
