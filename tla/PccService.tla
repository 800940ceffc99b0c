----------------------------- MODULE PccService -----------------------------
(***************************************************************************)
(* 5/pcc_server.c and its clients, 5/pcc_client.c: one server process that *)
(* serves one connection after the other, the client processes, the TCP    *)
(* connections between them, and SIGINT arriving at the server.            *)
(*                                                                         *)
(* A step of the server is one system call, or the code up to the next     *)
(* point where the signal handler would see something else.  Contents are  *)
(* sequences of abstract bytes; a uint32_t is WordBytes bytes on the wire  *)
(* and WordBits bits wide in an addition or a conversion.                  *)
(***************************************************************************)
EXTENDS Integers, Sequences, FiniteSets, FiniteSetsExt

CONSTANTS
  Clients,        (* the client processes                                  *)
  Bytes,          (* the bytes a file can hold                             *)
  Printable,      (* those that the server counts                          *)
  FileOf,         (* the content of a client's file                        *)
  WordBytes, WordBits,
  None,           (* no connection: the descriptor -1                      *)
  MaxInterrupts   (* bound: how often the user presses ctrl-C              *)

ASSUME ServiceAssumption ==
  /\ IsFiniteSet(Clients) /\ None \notin Clients
  /\ Printable \subseteq Bytes
  /\ FileOf \in [Clients -> Seq(Bytes)]
  /\ WordBytes \in Nat \ {0} /\ WordBits \in Nat \ {0}
  /\ \A c \in Clients : Len(FileOf[c]) < 2 ^ WordBits
  /\ MaxInterrupts \in Nat

VARIABLES
  pc, status,          (* where the server is, and how it ended            *)
  is_server_running,
  client_socket_fd,    (* the global that the signal handler reads         *)
  client,              (* the connection that accept returned              *)
  isOpen,              (* its descriptor is not closed yet                 *)
  remaining, consumed, (* bytes still expected, bytes read from it         *)
  temp_pcc_total, printable_count, total_sent,
  pcc_total,
  interrupts           (* how many SIGINT have arrived                     *)

VARIABLES
  at,        (* where a client process is                                  *)
  sent,      (* how many bytes of its stream it has written                *)
  cut,       (* clients whose file was cut short where they have got to    *)
  peer,      (* its end of the connection, as the server finds it          *)
  backlog,   (* connections the server has not accepted yet                *)
  answer,    (* the count the server writes, and how many bytes of it      *)
  shut,      (* the connections whose server end is closed                 *)
  counted    (* history: the clients whose counts were added to pcc_total  *)

serverVars == <<pc, status, is_server_running, client_socket_fd, client,
                isOpen, remaining, consumed, temp_pcc_total, printable_count,
                total_sent, pcc_total, interrupts, counted>>
clientVars == <<at, sent, cut, peer>>
netVars    == <<backlog, answer, shut>>
vars       == <<serverVars, clientVars, netVars>>

Occurs(s, S) == Cardinality({i \in DOMAIN s : s[i] \in S})
ToInt(n) == IF n >= 2 ^ (WordBits - 1) THEN n - 2 ^ WordBits ELSE n
StreamLen(c) == WordBytes + Len(FileOf[c])
ZeroTotals == [ch \in Printable |-> 0]

TypeOK ==
  /\ pc \in {"register", "setup", "install", "test", "accept", "assign",
             "size", "content", "reply", "fold", "close", "forget", "display",
             "exited"}
  /\ status \in {"running", "printed", "failure", "sigpipe", "killed"}
  /\ is_server_running \in BOOLEAN
  /\ client_socket_fd \in Clients \cup {None}
  /\ client \in Clients \cup {None}
  /\ isOpen \in BOOLEAN
  /\ remaining \in Int /\ consumed \in Nat /\ total_sent \in 0 .. WordBytes
  /\ temp_pcc_total \in [Printable -> Nat] /\ printable_count \in Nat
  /\ pcc_total \in [Printable -> Nat]
  /\ interrupts \in 0 .. MaxInterrupts
  /\ at \in [Clients ->
              {"start", "sending", "waiting", "done", "failed", "dead"}]
  /\ sent \in [Clients -> Nat] /\ cut \in SUBSET Clients
  /\ peer \in [Clients -> {"open", "closed", "reset", "unreachable"}]
  /\ backlog \in Seq(Clients)
  /\ answer \in [Clients -> [count : Nat, bytes : 0 .. WordBytes]]
  /\ shut \in SUBSET Clients /\ counted \in SUBSET Clients

Idle ==
  /\ status = "running" /\ is_server_running = TRUE
  /\ client_socket_fd = None /\ client = None /\ isOpen = FALSE
  /\ remaining = 0 /\ consumed = 0 /\ total_sent = 0
  /\ temp_pcc_total = ZeroTotals /\ printable_count = 0
  /\ pcc_total = ZeroTotals /\ interrupts = 0
  /\ at = [c \in Clients |-> "start"]
  /\ sent = [c \in Clients |-> 0] /\ cut = {}
  /\ peer = [c \in Clients |-> "open"]
  /\ backlog = <<>>
  /\ answer = [c \in Clients |-> [count |-> 0, bytes |-> 0]]
  /\ shut = {} /\ counted = {}

Init == pc = "setup" /\ Idle

-----------------------------------------------------------------------------
(* The end of the process: exit closes every connection.                   *)
Exit(how) ==
  /\ pc' = "exited" /\ status' = how
  /\ shut' = Clients /\ backlog' = <<>>
  /\ isOpen' = FALSE
  /\ UNCHANGED <<is_server_running, client_socket_fd, client, remaining,
                 consumed, temp_pcc_total, printable_count, total_sent,
                 pcc_total, counted, answer, clientVars>>

close == isOpen' = FALSE /\ shut' = shut \cup {client}

(* setup_server, and sigaction: before it SIGINT has its default effect.   *)
setup_server ==
  /\ pc = "setup" /\ pc' = "install"
  /\ pcc_total' = ZeroTotals
  /\ UNCHANGED <<status, is_server_running, client_socket_fd, client, isOpen,
                 remaining, consumed, temp_pcc_total, printable_count,
                 total_sent, interrupts, counted, clientVars, netVars>>

Goto(from, to) ==
  /\ pc = from /\ pc' = to
  /\ UNCHANGED <<status, is_server_running, isOpen, remaining, consumed,
                 temp_pcc_total, printable_count, total_sent, pcc_total,
                 interrupts, counted, clientVars, answer, shut>>

sigaction ==
  /\ Goto("install", "test")
  /\ UNCHANGED <<client_socket_fd, client, backlog>>

testRunning ==
  /\ Goto("test", IF is_server_running THEN "accept" ELSE "display")
  /\ UNCHANGED <<client_socket_fd, client, backlog>>

(* accept takes the oldest connection; a broken one may be reported as an  *)
(* error instead.  The global is written after the call has returned.      *)
accept ==
  /\ Goto("accept", "assign") /\ backlog # <<>>
  /\ backlog' = Tail(backlog)
  /\ \/ client' = Head(backlog)
     \/ peer[Head(backlog)] \in {"reset", "unreachable"} /\ client' = None
  /\ UNCHANGED client_socket_fd

acceptFailed ==
  /\ Goto("assign", "test") /\ client = None
  /\ client_socket_fd' = None
  /\ UNCHANGED <<client, backlog>>

startConnection ==
  /\ pc = "assign" /\ client # None /\ pc' = "size"
  /\ client_socket_fd' = client
  /\ isOpen' = TRUE
  /\ temp_pcc_total' = ZeroTotals /\ printable_count' = 0
  /\ remaining' = WordBytes /\ consumed' = 0 /\ total_sent' = 0
  /\ UNCHANGED <<status, is_server_running, client, pcc_total, interrupts,
                 counted, clientVars, netVars>>

-----------------------------------------------------------------------------
(* read: the bytes that are there, the end of the stream, or an error.  If *)
(* the client is unreachable all of these are possible and none need come: *)
(* what it wrote may not have arrived, and a socket without SO_KEEPALIVE   *)
(* and SO_RCVTIMEO, as this one, may wait for the rest for ever.           *)
Readable == 1 .. Min({remaining, sent[client] - consumed})

NoDataIsTheEndBug == sent[client] = consumed
AtEnd == sent[client] = consumed /\ peer[client] = "closed"

consume(k) ==
  /\ consumed' = consumed + k
  /\ UNCHANGED <<status, is_server_running, client_socket_fd, client, isOpen,
                 total_sent, pcc_total, interrupts, counted, clientVars,
                 netVars>>

receiveSize(k) ==
  /\ pc = "size" /\ k \in Readable /\ consume(k)
  /\ LET file_size == Len(FileOf[client]) IN
       /\ remaining' = IF k = remaining THEN ToInt(file_size) ELSE remaining - k
       /\ pc' = IF k < remaining THEN "size"
                ELSE IF ToInt(file_size) > 0 THEN "content" ELSE "reply"
  /\ UNCHANGED <<temp_pcc_total, printable_count>>

WaitsOneByteMoreBug(k) == remaining < k
contentComplete(k) == remaining = k

receiveContent(k) ==
  /\ pc = "content" /\ k \in Readable /\ consume(k)
  /\ LET start == consumed - WordBytes
         buffer == SubSeq(FileOf[client], start + 1, start + k)
     IN /\ temp_pcc_total' = [ch \in Printable |->
                                temp_pcc_total[ch] + Occurs(buffer, {ch})]
        /\ printable_count' = printable_count + Occurs(buffer, Printable)
  /\ remaining' = remaining - k
  /\ pc' = IF contentComplete(k) THEN "reply" ELSE "content"

(* A receive that fails closes the connection and returns to its caller,   *)
(* which goes on with send_printable_count all the same.                   *)
ReturnWithoutCloseBug == UNCHANGED <<isOpen, shut>>
closeAndReturn == close

receiveFailed ==
  /\ \/ pc = "size" /\ (AtEnd \/ peer[client] = "reset")
     \/ pc = "content" /\ (AtEnd \/ peer[client] \in {"reset", "unreachable"})
  /\ pc' = "reply"
  /\ closeAndReturn
  /\ UNCHANGED <<status, is_server_running, client_socket_fd, client,
                 remaining, consumed, temp_pcc_total, printable_count,
                 total_sent, pcc_total, interrupts, counted, clientVars,
                 backlog, answer>>

(* A size whose read fails in another way ends the server.                 *)
receiveError ==
  /\ pc = "size" /\ peer[client] = "unreachable"
  /\ Exit("failure") /\ UNCHANGED interrupts

-----------------------------------------------------------------------------
(* write: into the connection, even one whose other end is closed, which   *)
(* then resets it, or one whose other end cannot be reached.               *)
RestartsAfterShortWriteBug == WordBytes
unsent == WordBytes - total_sent

sendCount(k) ==
  /\ pc = "reply" /\ isOpen /\ peer[client] # "reset"
  /\ k \in 1 .. unsent
  /\ total_sent' = total_sent + k
  /\ answer' = [answer EXCEPT ![client] = [count |-> printable_count,
                                           bytes |-> total_sent + k]]
  /\ peer' = IF peer[client] = "closed"
             THEN [peer EXCEPT ![client] = "reset"] ELSE peer
  /\ pc' = IF total_sent + k = WordBytes THEN "fold" ELSE "reply"
  /\ UNCHANGED <<status, is_server_running, client_socket_fd, client, isOpen,
                 remaining, consumed, temp_pcc_total, printable_count,
                 pcc_total, interrupts, counted, at, sent, cut, backlog, shut>>

(* ECONNRESET, or ETIMEDOUT for want of an acknowledgement: the connection *)
(* is closed, and the count added all the same.                            *)
sendFailed ==
  /\ pc = "reply" /\ isOpen /\ peer[client] \in {"reset", "unreachable"}
  /\ pc' = "fold"
  /\ close
  /\ UNCHANGED <<status, is_server_running, client_socket_fd, client,
                 remaining, consumed, temp_pcc_total, printable_count,
                 total_sent, pcc_total, interrupts, counted, clientVars,
                 backlog, answer>>

(* EBADF after closeAndReturn, or another error: exit(EXIT_FAILURE).       *)
sendError ==
  /\ pc = "reply" /\ (~ isOpen \/ peer[client] = "unreachable")
  /\ Exit("failure") /\ UNCHANGED interrupts

(* The server leaves SIGPIPE to its default: EPIPE is never returned.      *)
sigpipe ==
  /\ pc = "reply" /\ isOpen /\ peer[client] = "reset"
  /\ Exit("sigpipe") /\ UNCHANGED interrupts

-----------------------------------------------------------------------------
newTotal(ch) == (pcc_total[ch] + temp_pcc_total[ch]) % 2 ^ WordBits

foldTotals ==
  /\ pc = "fold" /\ pc' = "close"
  /\ pcc_total' = [ch \in Printable |-> newTotal(ch)]
  /\ counted' = counted \cup {client}
  /\ UNCHANGED <<status, is_server_running, client_socket_fd, client, isOpen,
                 remaining, consumed, temp_pcc_total, printable_count,
                 total_sent, interrupts, clientVars, netVars>>

closeClient ==
  /\ pc = "close" /\ pc' = "forget"
  /\ close
  /\ UNCHANGED <<status, is_server_running, client_socket_fd, client,
                 remaining, consumed, temp_pcc_total, printable_count,
                 total_sent, pcc_total, interrupts, counted, clientVars,
                 backlog, answer>>

forgetClient ==
  /\ Goto("forget", "test")
  /\ client_socket_fd' = None /\ client' = None
  /\ UNCHANGED backlog

display_statistics ==
  /\ pc = "display" /\ Exit("printed") /\ UNCHANGED interrupts

(* The handler runs between any two steps of the server.                   *)
PrintsNeverBug == FALSE
noClientNow == client_socket_fd = None

handle_SIGINT ==
  /\ pc # "exited" /\ interrupts < MaxInterrupts
  /\ interrupts' = interrupts + 1
  /\ \/ pc \in {"setup", "install"} /\ Exit("killed")
     \/ pc \notin {"setup", "install"} /\ noClientNow /\ Exit("printed")
     \/ /\ pc \notin {"setup", "install"} /\ ~ noClientNow
        /\ is_server_running' = FALSE
        /\ UNCHANGED <<pc, status, client_socket_fd, client, isOpen, remaining,
                       consumed, temp_pcc_total, printable_count, total_sent,
                       pcc_total, counted, clientVars, netVars>>

Server ==
  \/ setup_server \/ sigaction \/ testRunning \/ accept \/ acceptFailed
  \/ startConnection \/ receiveFailed \/ receiveError
  \/ \E k \in 1 .. WordBytes : receiveSize(k) \/ sendCount(k)
  \/ \E k \in 1 .. 2 ^ WordBits : receiveContent(k)
  \/ sendFailed \/ sendError \/ sigpipe
  \/ foldTotals \/ closeClient \/ forgetClient \/ display_statistics

-----------------------------------------------------------------------------
(* The client: connect, send_data of the size, send_file, receive_data.    *)
listening == pc \notin {"register", "setup", "exited"}

connect(c) ==
  /\ at[c] = "start" /\ listening
  /\ at' = [at EXCEPT ![c] = "sending"]
  /\ backlog' = Append(backlog, c)
  /\ UNCHANGED <<serverVars, sent, cut, peer, answer, shut>>

connectRefused(c) ==
  /\ at[c] = "start" /\ ~ listening
  /\ at' = [at EXCEPT ![c] = "failed"]
  /\ UNCHANGED <<serverVars, sent, cut, peer, netVars>>

(* A write takes what fits, and no write spans the size and the content.   *)
(* send_file reads 0 bytes at the end of a file that was cut short, and    *)
(* goes on reading: the client takes no step that anybody else sees.       *)
AtItsEnd(c) == c \in cut /\ sent[c] >= WordBytes

sendUpTo(c, end) ==
  /\ at[c] = "sending" /\ c \notin shut /\ ~ AtItsEnd(c)
  /\ \E n \in sent[c] + 1 .. IF sent[c] < WordBytes THEN WordBytes ELSE end :
       /\ sent' = [sent EXCEPT ![c] = n]
       /\ at' = IF n = end THEN [at EXCEPT ![c] = "waiting"] ELSE at
  /\ UNCHANGED <<serverVars, cut, peer, netVars>>

sendBytes(c) == sendUpTo(c, StreamLen(c))

receive_data(c) ==
  /\ at[c] = "waiting" /\ answer[c].bytes = WordBytes
  /\ at' = [at EXCEPT ![c] = "done"]
  /\ UNCHANGED <<serverVars, sent, cut, peer, netVars>>

(* A write or a read that fails because the server has closed its end.     *)
clientFails(c) ==
  /\ c \in shut
  /\ \/ at[c] = "sending" /\ ~ AtItsEnd(c)
     \/ at[c] = "waiting" /\ answer[c].bytes < WordBytes
  /\ at' = [at EXCEPT ![c] = "failed"]
  /\ UNCHANGED <<serverVars, sent, cut, peer, netVars>>

ClientStep(c) ==
  connect(c) \/ connectRefused(c) \/ sendBytes(c) \/ receive_data(c)
  \/ clientFails(c)

(* A client is killed or unplugged: the server finds the end of its        *)
(* stream or a reset connection, or an unreachable machine, of which it    *)
(* may never hear again.                                                   *)
cutOff(c) ==
  /\ at[c] \in {"sending", "waiting"}
  /\ at' = [at EXCEPT ![c] = "dead"]
  /\ \E how \in {"closed", "reset", "unreachable"} :
       peer' = [peer EXCEPT ![c] = how]
  /\ UNCHANGED <<serverVars, sent, cut, netVars>>

(* Somebody truncates a file after its size was taken.  A file cut beyond  *)
(* what its client has read is the same file cut later.                    *)
truncate(c) ==
  /\ at[c] = "sending" /\ c \notin cut /\ sent[c] < StreamLen(c)
  /\ cut' = cut \cup {c}
  /\ UNCHANGED <<serverVars, at, sent, peer, netVars>>

Environment(c) == cutOff(c) \/ truncate(c)

Next ==
  \/ Server
  \/ handle_SIGINT
  \/ \E c \in Clients : ClientStep(c) \/ Environment(c)

Spec == Init /\ [][Next]_vars

-----------------------------------------------------------------------------
(* The statistics printed at the end contain whole files, each once, and   *)
(* every client that was told a count was told its own and is in them,     *)
(* whenever SIGINT arrives and whoever is cut off: the service keeps its   *)
(* ledger.                                                                 *)
Ledger == INSTANCE PccLedger WITH
  Amount <- [c \in Clients |-> [ch \in Printable |-> Occurs(FileOf[c], {ch})]],
  Size <- [c \in Clients |-> Occurs(FileOf[c], Printable)],
  Modulus <- 2 ^ WordBits,
  total <- pcc_total,
  told <- [c \in Clients |-> IF at[c] = "done" THEN answer[c].count ELSE -1],
  closed <- CASE status = "running" -> "no"
              [] status = "printed" -> "printed"
              [] OTHER -> "lost"
KeepsLedger == Ledger!Spec

(* The server gives up, without its statistics, only after some client was *)
(* cut off or lost the end of its file: no timing of clients that behave,  *)
(* and no split of their bytes into packets, makes it leave with an error. *)
Harmed == {c \in Clients : at[c] = "dead" \/ c \in cut}
GoodClientsDoNoHarm == status \in {"failure", "sigpipe"} => Harmed # {}

(* A client that reads the end of its file for ever.                       *)
Spinning == {c \in Clients : at[c] = "sending" /\ AtItsEnd(c)}

(* "Receive the file content from client" (5/pcc_server.c:146): when the   *)
(* answer is about to be written the whole file was read, however large    *)
(* the uint32_t size is that the client announced.                         *)
ContentReceived ==
  pc = "reply" /\ isOpen => consumed = StreamLen(client)
=============================================================================
