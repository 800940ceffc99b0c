---------------------------- MODULE PccVersions ----------------------------
(***************************************************************************)
(* Both versions of the service: PccService, and the server and client of  *)
(* OS_HW4_Tests-main, which register the SIGINT handler before the socket  *)
(* exists, give up when accept fails, and do not read past the end of a    *)
(* file.  A behaviour is one of either version; the clients' protocol, the *)
(* connections and what can happen to them are the same.                   *)
(*                                                                         *)
(* The variables keep the names of exercise 5: client_socket_fd is         *)
(* currentClientConnectionFd, is_server_running is isWaitingForClients,    *)
(* pcc_total is printableCharacterCounts.                                  *)
(***************************************************************************)
EXTENDS PccService

VARIABLE version

allVars == <<vars, version>>

VersionsTypeOK == TypeOK /\ version \in {"5", "HW4"}

-----------------------------------------------------------------------------
registerHandler ==
  /\ Goto("register", "setup")
  /\ UNCHANGED <<client_socket_fd, client, backlog>>

createAndBindTCPServer ==
  /\ Goto("setup", "test")
  /\ UNCHANGED <<client_socket_fd, client, backlog>>

(* The result of accept goes to the global, and a failed accept ends the   *)
(* server.                                                                 *)
acceptFails ==
  /\ pc = "assign" /\ client = None
  /\ Exit("failure") /\ UNCHANGED interrupts

(* The loops that read the size and the content and write the answer are   *)
(* those of exercise 5.                                                    *)
receiveFileSize(k) == receiveSize(k)

receiveFileContentAndCalculateStatistics(k) == receiveContent(k)

sendCharacterCount(k) == sendCount(k)

(* A receive or a write that fails closes the connection and sets its own  *)
(* parameter to -1, not the global of the same name: main's tests for -1   *)
(* never hold, and it goes on to the answer, which finds the descriptor    *)
(* closed.                                                                 *)
receiveBroken ==
  /\ pc \in {"size", "content"} /\ (AtEnd \/ peer[client] = "reset")
  /\ close
  /\ pc' = "reply"
  /\ UNCHANGED <<status, is_server_running, client_socket_fd, client,
                 remaining, consumed, temp_pcc_total, printable_count,
                 total_sent, pcc_total, interrupts, counted, clientVars,
                 backlog, answer>>

receiveUnknown ==
  /\ pc \in {"size", "content"} /\ peer[client] = "unreachable"
  /\ Exit("failure") /\ UNCHANGED interrupts

updateGlobalPrintableCharacterCounts == foldTotals

closeConnection == closeClient \/ forgetClient

printPrintableCharacterCounts == display_statistics

handleSigintSignal ==
  /\ pc # "exited" /\ interrupts < MaxInterrupts
  /\ interrupts' = interrupts + 1
  /\ \/ pc = "register" /\ Exit("killed")
     \/ pc # "register" /\ noClientNow /\ Exit("printed")
     \/ /\ pc # "register" /\ ~ noClientNow
        /\ is_server_running' = FALSE
        /\ UNCHANGED <<pc, status, client_socket_fd, client, isOpen, remaining,
                       consumed, temp_pcc_total, printable_count, total_sent,
                       pcc_total, counted, clientVars, netVars>>

ServerHW4 ==
  \/ registerHandler \/ createAndBindTCPServer \/ testRunning \/ accept
  \/ acceptFails \/ startConnection \/ receiveBroken \/ receiveUnknown
  \/ \E k \in 1 .. WordBytes : receiveFileSize(k) \/ sendCharacterCount(k)
  \/ \E k \in 1 .. 2 ^ WordBits : receiveFileContentAndCalculateStatistics(k)
  \/ sendFailed \/ sendError \/ sigpipe
  \/ updateGlobalPrintableCharacterCounts \/ closeConnection
  \/ printPrintableCharacterCounts

-----------------------------------------------------------------------------
(* sendFileContent: a read at the end of the file is an error.             *)
readFails(c) ==
  /\ at[c] = "sending" /\ AtItsEnd(c)
  /\ at' = [at EXCEPT ![c] = "failed"]
  /\ peer' = [peer EXCEPT ![c] = "closed"]
  /\ UNCHANGED <<serverVars, sent, cut, netVars>>

connectToServer(c) == connect(c) \/ connectRefused(c)

(* Here the client counts the bytes that remain in an int as well.         *)
sendFileSizeAndContent(c) ==
  sendUpTo(c, WordBytes + Max({0, ToInt(Len(FileOf[c]))}))

receiveCharacterCount(c) == receive_data(c)

ClientStepHW4(c) ==
  \/ connectToServer(c) \/ sendFileSizeAndContent(c) \/ readFails(c)
  \/ receiveCharacterCount(c) \/ clientFails(c)

-----------------------------------------------------------------------------
VersionsInit ==
  /\ Idle
  /\ \/ version = "5" /\ pc = "setup"
     \/ version = "HW4" /\ pc = "register"

ServerStep ==
  \/ version = "5" /\ Server
  \/ version = "HW4" /\ ServerHW4

Interrupt ==
  \/ version = "5" /\ handle_SIGINT
  \/ version = "HW4" /\ handleSigintSignal

ClientOfVersion(c) ==
  \/ version = "5" /\ ClientStep(c)
  \/ version = "HW4" /\ ClientStepHW4(c)

VersionsNext ==
  /\ \/ ServerStep
     \/ Interrupt
     \/ \E c \in Clients : ClientOfVersion(c) \/ Environment(c)
  /\ UNCHANGED version

(* The server reads from a client that vanished without a word: neither    *)
(* version sets SO_KEEPALIVE or SO_RCVTIMEO, and no write is under way     *)
(* whose retransmissions could time out.                                   *)
HalfOpen == pc \in {"size", "content"} /\ peer[client] = "unreachable"

(* The processes run; nobody has to press ctrl-C, to start a client, to    *)
(* cut one off or to truncate a file, and a read on a half-open connection *)
(* may return and need not.                                                *)
VersionsSpec ==
  /\ VersionsInit /\ [][VersionsNext]_allVars
  /\ WF_allVars(~ HalfOpen /\ ServerStep /\ UNCHANGED version)
  /\ \A c \in Clients :
       WF_allVars(at[c] # "start" /\ ClientOfVersion(c) /\ UNCHANGED version)

-----------------------------------------------------------------------------
(* The client of exercise 5 that reads the end of its truncated file for   *)
(* ever, and sends nothing more.                                           *)
Spins(c) == version = "5" /\ c \in Spinning

(* The two ways to keep the server in its read for ever: this client, and  *)
(* the half-open connection.                                               *)
HeldUp == HalfOpen \/ (pc \in {"size", "content"} /\ Spins(client))

(* SIGINT ends the server of either version, also while it serves          *)
(* somebody, unless a half-open connection or a client that reads the end  *)
(* of its file for ever keeps it in a read that never returns.             *)
InterruptEndsServer ==
  []<>~ HeldUp => (interrupts > 0 ~> pc = "exited")

(* No client that has connected waits for ever, unless the server is held  *)
(* up for ever in one of these two ways, or it is itself the client of     *)
(* exercise 5 that reads the end of its file for ever.                     *)
ClientsEnd ==
  []<>~ HeldUp =>
    \A c \in Clients :
      at[c] \in {"sending", "waiting"} ~>
        (at[c] \in {"done", "failed", "dead"} \/ Spins(c))
=============================================================================
