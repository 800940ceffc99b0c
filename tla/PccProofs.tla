----------------------------- MODULE PccProofs -----------------------------
(***************************************************************************)
(* What both versions of the printable characters service keep to, for any *)
(* number of clients, any files, any split of the bytes into packets, any  *)
(* client cut off and SIGINT at any time: a server gives up only after     *)
(* somebody was harmed, and the ledger of PccLedger is implemented, as     *)
(* long as no size needs the highest bit of its word.                      *)
(***************************************************************************)
EXTENDS PccVersions, CommonLemmas

(* What the constants are.                                                 *)
LEMMA Constants ==
  /\ None \notin Clients /\ Printable \subseteq Bytes
  /\ FileOf \in [Clients -> Seq(Bytes)]
  /\ \A c \in Clients : FileOf[c] \in Seq(Bytes) /\ Len(FileOf[c]) \in Nat
  /\ WordBytes \in Nat \ {0} /\ MaxInterrupts \in Nat
<1>1. FileOf \in [Clients -> Seq(Bytes)]
  BY ServiceAssumption
<1>2. \A c \in Clients : FileOf[c] \in Seq(Bytes) /\ Len(FileOf[c]) \in Nat
  BY <1>1, LenProperties
<1> QED BY <1>1, <1>2, ServiceAssumption

(* The smaller and the larger of two numbers.                              *)
LEMMA MinOfTwo ==
  ASSUME NEW a \in Int, NEW b \in Int
  PROVE  Min({a, b}) \in Int /\ Min({a, b}) <= a /\ Min({a, b}) <= b
<1>1. \E x \in {a, b} : \A y \in {a, b} : x <= y
  <2>1. CASE a <= b
    BY <2>1
  <2>2. CASE b <= a
    BY <2>2
  <2> QED BY <2>1, <2>2
<1> QED BY <1>1 DEF Min

(* The greater of two numbers.                                             *)
LEMMA MaxOfTwo ==
  ASSUME NEW a \in Int, NEW b \in Int
  PROVE  Max({a, b}) \in Int /\ Max({a, b}) >= a
<1>1. \E x \in {a, b} : \A y \in {a, b} : x >= y
  <2>1. CASE a >= b
    BY <2>1
  <2>2. CASE b >= a
    BY <2>2
  <2> QED BY <2>1, <2>2
<1> QED BY <1>1 DEF Max

-----------------------------------------------------------------------------
(* How often a part of a sequence holds a byte: a number, none in the      *)
(* empty part, and the sum over two parts that follow one another.         *)
LEMMA OccursInNat ==
  ASSUME NEW s \in Seq(Bytes), NEW S
  PROVE  Occurs(s, S) \in Nat
<1>1. DOMAIN s = 1 .. Len(s) /\ Len(s) \in Nat
  BY LenProperties
<1>2. IsFiniteSet(1 .. Len(s))
  BY <1>1, FS_Interval
<1>3. IsFiniteSet({i \in DOMAIN s : s[i] \in S})
  BY <1>1, <1>2, FS_Subset
<1> QED BY <1>3, FS_CardinalityType DEF Occurs

(* Nothing occurs in the empty part of a file ...                          *)
LEMMA OccursNone ==
  ASSUME NEW s \in Seq(Bytes), NEW S
  PROVE  Occurs(SubSeq(s, 1, 0), S) = 0
<1>1. DOMAIN SubSeq(s, 1, 0) = {}
  <2>1. SubSeq(s, 1, 0) = <<>>
    OBVIOUS
  <2> QED BY <2>1
<1>2. {i \in DOMAIN SubSeq(s, 1, 0) : SubSeq(s, 1, 0)[i] \in S} = {}
  BY <1>1
<1> QED BY <1>2, FS_EmptySet DEF Occurs

(* ... and in two parts that follow one another what occurs in each.       *)
LEMMA OccursMore ==
  ASSUME NEW s \in Seq(Bytes), NEW S, NEW m \in Nat, NEW k \in Nat,
         m + k <= Len(s)
  PROVE  Occurs(SubSeq(s, 1, m + k), S)
           = Occurs(SubSeq(s, 1, m), S) + Occurs(SubSeq(s, m + 1, m + k), S)
<1> DEFINE A == {i \in 1 .. m : s[i] \in S}
           B == {i \in m + 1 .. m + k : s[i] \in S}
           C == {i \in 1 .. k : s[m + i] \in S}
<1>0. Len(s) \in Nat /\ DOMAIN s = 1 .. Len(s)
  BY LenProperties
<1>1. {i \in DOMAIN SubSeq(s, 1, m) : SubSeq(s, 1, m)[i] \in S} = A
  <2>1. /\ DOMAIN SubSeq(s, 1, m) = 1 .. m
        /\ \A i \in 1 .. m : SubSeq(s, 1, m)[i] = s[i]
    BY <1>0
  <2> QED BY <2>1
<1>2. {i \in DOMAIN SubSeq(s, 1, m + k) : SubSeq(s, 1, m + k)[i] \in S} = A \cup B
  <2>1. /\ DOMAIN SubSeq(s, 1, m + k) = 1 .. m + k
        /\ \A i \in 1 .. m + k : SubSeq(s, 1, m + k)[i] = s[i]
    BY <1>0
  <2>2. 1 .. m + k = (1 .. m) \cup (m + 1 .. m + k)
    OBVIOUS
  <2> QED BY <2>1, <2>2
<1>3. {i \in DOMAIN SubSeq(s, m + 1, m + k) : SubSeq(s, m + 1, m + k)[i] \in S} = C
  <2>1. /\ DOMAIN SubSeq(s, m + 1, m + k) = 1 .. k
        /\ \A i \in 1 .. k : SubSeq(s, m + 1, m + k)[i] = s[m + i]
    BY <1>0
  <2> QED BY <2>1
<1>4. IsFiniteSet(A) /\ IsFiniteSet(B) /\ IsFiniteSet(C) /\ A \cap B = {}
  <2>1. IsFiniteSet(1 .. m) /\ IsFiniteSet(m + 1 .. m + k) /\ IsFiniteSet(1 .. k)
    BY FS_Interval
  <2> QED BY <2>1, FS_Subset
<1>5. Cardinality(B) = Cardinality(C)
  <2> DEFINE f == [i \in C |-> m + i]
  <2>1. f \in [C -> B] /\ \A a, b \in C : f[a] = f[b] => a = b
    OBVIOUS
  <2>2. \A b \in B : \E a \in C : f[a] = b
    <3> SUFFICES ASSUME NEW b \in B PROVE b - m \in C /\ f[b - m] = b
      OBVIOUS
    <3>1. m + (b - m) = b /\ b - m \in 1 .. k
      OBVIOUS
    <3> QED BY <3>1
  <2>3. ExistsBijection(C, B)
    BY <2>1, <2>2 DEF ExistsBijection, Bijection, Injection, Surjection, IsInjective
  <2> QED BY <1>4, <2>3, FS_Bijection
<1>6. Cardinality(A \cup B) = Cardinality(A) + Cardinality(B)
  <2> HIDE DEF A, B
  <2>1. Cardinality(A \cup B) = Cardinality(A) + Cardinality(B) - Cardinality(A \cap B)
    BY <1>4, FS_Union
  <2>2. Cardinality(A \cap B) = 0
    BY <1>4, FS_EmptySet
  <2>3. Cardinality(A) \in Nat /\ Cardinality(B) \in Nat
    BY <1>4, FS_CardinalityType
  <2> QED BY <2>1, <2>2, <2>3
<1> HIDE DEF A, B, C
<1> QED BY <1>1, <1>2, <1>3, <1>5, <1>6, Zenon DEF Occurs
-----------------------------------------------------------------------------
(* The steps of both versions, without the version: what the server does   *)
(* and lives, how it ends, and what the clients do and suffer.             *)
Serves ==
  \/ registerHandler \/ setup_server \/ createAndBindTCPServer \/ sigaction
  \/ testRunning \/ accept \/ acceptFailed \/ startConnection
  \/ receiveFailed \/ receiveBroken
  \/ \E k \in 1 .. WordBytes : receiveSize(k) \/ sendCount(k)
  \/ \E k \in 1 .. 2 ^ WordBits : receiveContent(k)
  \/ sendFailed \/ foldTotals \/ closeClient \/ forgetClient

Ends ==
  \/ receiveError \/ receiveUnknown \/ sendError \/ sigpipe \/ acceptFails
  \/ display_statistics

Acts(c) ==
  \/ connect(c) \/ connectRefused(c) \/ sendBytes(c) \/ sendFileSizeAndContent(c)
  \/ receive_data(c) \/ clientFails(c) \/ readFails(c) \/ cutOff(c) \/ truncate(c)

AnyStep ==
  \/ Serves \/ Ends \/ handle_SIGINT \/ handleSigintSignal
  \/ \E c \in Clients : Acts(c)

(* A step of either version is one of these.                               *)
LEMMA StepsOfBoth == VersionsNext => AnyStep
BY DEF VersionsNext, AnyStep, Serves, Ends, Acts, ServerStep, Server, ServerHW4,
       Interrupt, ClientOfVersion, ClientStep, ClientStepHW4, Environment,
       connectToServer, receiveCharacterCount, receiveFileSize,
       receiveFileContentAndCalculateStatistics, sendCharacterCount,
       updateGlobalPrintableCharacterCounts, closeConnection,
       printPrintableCharacterCounts

(* The ways a process ends, and the ways SIGINT goes.                      *)
LEMMA EndsByExit ==
  ASSUME Ends
  PROVE  /\ pc # "exited" /\ interrupts' = interrupts
         /\ \/ pc = "display" /\ Exit("printed")
            \/ pc # "display" /\ (Exit("failure") \/ Exit("sigpipe"))
BY DEF Ends, receiveError, receiveUnknown, sendError, sigpipe, acceptFails,
       display_statistics

(* SIGINT kills a server that has no handler yet, ends with the statistics *)
(* one that is between two clients, and is remembered by one that serves.  *)
Interrupted ==
  /\ pc # "exited" /\ interrupts < MaxInterrupts /\ interrupts' = interrupts + 1
  /\ \/ Exit("killed")
     \/ client_socket_fd = None /\ Exit("printed")
     \/ /\ client_socket_fd # None
        /\ is_server_running' = FALSE
        /\ UNCHANGED <<pc, status, client_socket_fd, client, isOpen, remaining,
                       consumed, temp_pcc_total, printable_count, total_sent,
                       pcc_total, counted, clientVars, netVars>>

(* Both handlers do one of these.                                          *)
LEMMA SignalsInterrupt ==
  ASSUME handle_SIGINT \/ handleSigintSignal
  PROVE  Interrupted
BY DEF handle_SIGINT, handleSigintSignal, noClientNow, Interrupted

-----------------------------------------------------------------------------
(* A client is served from the first read to the return of the loop.       *)
Serving == {"size", "content", "reply", "fold", "close", "forget"}
Between == {"register", "setup", "install", "test", "accept", "display"}

(* The server's own state fits its place in the code.                      *)
Placed ==
  /\ pc = "exited" <=> status # "running"
  /\ pc \in Between => client = None
  /\ pc \in Serving => client # None /\ client_socket_fd = client
  /\ pc = "size" => remaining > 0 /\ consumed + remaining = WordBytes
  /\ pc = "content" => /\ remaining > 0 /\ consumed >= WordBytes
                       /\ consumed + remaining = StreamLen(client)
  /\ pc \in {"size", "content"} => isOpen /\ total_sent = 0
  /\ pc = "reply" => total_sent < WordBytes

(* Nobody is found gone without having been cut off or cut short.          *)
Harm ==
  /\ \A c \in Clients : peer[c] # "open" => c \in Harmed
  /\ pc = "assign" /\ client = None => Harmed # {}
  /\ pc = "reply" /\ ~ isOpen => Harmed # {}
  /\ GoodClientsDoNoHarm

(* The first state has all types right.                                    *)
LEMMA TypeInit == VersionsInit => VersionsTypeOK
<1> SUFFICES ASSUME VersionsInit PROVE VersionsTypeOK
  OBVIOUS
<1>1. WordBytes \in Nat /\ MaxInterrupts \in Nat
  BY Constants
<1>2. /\ pc \in {"register", "setup"} /\ status = "running" /\ version \in {"5", "HW4"}
      /\ is_server_running \in BOOLEAN /\ isOpen \in BOOLEAN
      /\ remaining = 0 /\ consumed = 0 /\ total_sent = 0 /\ printable_count = 0
      /\ client_socket_fd = None /\ client = None
      /\ interrupts = 0 /\ cut = {} /\ shut = {} /\ counted = {}
  BY DEF VersionsInit, Idle
<1>3. /\ temp_pcc_total \in [Printable -> Nat] /\ pcc_total \in [Printable -> Nat]
      /\ at \in [Clients -> {"start", "sending", "waiting", "done", "failed", "dead"}]
      /\ sent \in [Clients -> Nat]
      /\ peer \in [Clients -> {"open", "closed", "reset", "unreachable"}]
      /\ backlog \in Seq(Clients)
      /\ answer \in [Clients -> [count : Nat, bytes : 0 .. WordBytes]]
  BY <1>1 DEF VersionsInit, Idle, ZeroTotals
<1> QED BY <1>1, <1>2, <1>3 DEF VersionsTypeOK, TypeOK

(* The end of the process, however it comes, keeps the types.              *)
LEMMA TypeExit ==
  ASSUME TypeOK, interrupts' \in 0 .. MaxInterrupts,
         NEW how \in {"printed", "failure", "sigpipe", "killed"}, Exit(how)
  PROVE  TypeOK'
<1>1. backlog' \in Seq(Clients)
  BY EmptySeq DEF Exit
<1>2. /\ shut' \in SUBSET Clients /\ pc' = "exited" /\ status' = how
      /\ isOpen' = FALSE
  BY DEF Exit
<1> QED BY <1>1, <1>2 DEF TypeOK, Exit, clientVars

(* So do the ways a server ends by itself ...                              *)
LEMMA TypeEnds == ASSUME TypeOK, Ends PROVE TypeOK'
<1>1. interrupts' \in 0 .. MaxInterrupts
  BY EndsByExit DEF TypeOK
<1> QED BY <1>1, EndsByExit, TypeExit

(* ... the ways SIGINT ends it or does not ...                             *)
LEMMA TypeInterrupted == ASSUME TypeOK, Interrupted PROVE TypeOK'
<1>1. interrupts' \in 0 .. MaxInterrupts
  BY Constants DEF TypeOK, Interrupted
<1>2. CASE client_socket_fd # None /\ is_server_running' = FALSE
           /\ UNCHANGED <<pc, status, client_socket_fd, client, isOpen, remaining,
                          consumed, temp_pcc_total, printable_count, total_sent,
                          pcc_total, counted, clientVars, netVars>>
  BY <1>1, <1>2 DEF TypeOK, clientVars, netVars
<1> QED BY <1>1, <1>2, TypeExit DEF Interrupted

(* A step of a client or of the network leaves the server alone.           *)
LEMMA TypeOthers ==
  ASSUME TypeOK, UNCHANGED serverVars,
         at' \in [Clients ->
                   {"start", "sending", "waiting", "done", "failed", "dead"}],
         sent' \in [Clients -> Nat], cut' \in SUBSET Clients,
         peer' \in [Clients -> {"open", "closed", "reset", "unreachable"}],
         backlog' \in Seq(Clients), UNCHANGED <<answer, shut>>
  PROVE  TypeOK'
<1>1. /\ UNCHANGED <<pc, status, is_server_running, client_socket_fd, client>>
      /\ UNCHANGED <<isOpen, remaining, consumed, temp_pcc_total, printable_count>>
      /\ UNCHANGED <<total_sent, pcc_total, interrupts, counted, answer, shut>>
  BY DEF serverVars
<1>2. /\ pc' \in {"register", "setup", "install", "test", "accept", "assign",
                  "size", "content", "reply", "fold", "close", "forget", "display",
                  "exited"}
      /\ status' \in {"running", "printed", "failure", "sigpipe", "killed"}
      /\ is_server_running' \in BOOLEAN /\ isOpen' \in BOOLEAN
      /\ client_socket_fd' \in Clients \cup {None} /\ client' \in Clients \cup {None}
  BY <1>1 DEF TypeOK
<1>3. /\ remaining' \in Int /\ consumed' \in Nat /\ total_sent' \in 0 .. WordBytes
      /\ temp_pcc_total' \in [Printable -> Nat] /\ printable_count' \in Nat
      /\ pcc_total' \in [Printable -> Nat] /\ interrupts' \in 0 .. MaxInterrupts
      /\ shut' \in SUBSET Clients /\ counted' \in SUBSET Clients
  BY <1>1 DEF TypeOK
<1>4. answer' \in [Clients -> [count : Nat, bytes : 0 .. WordBytes]]
  BY <1>1 DEF TypeOK
<1> QED BY <1>2, <1>3, <1>4, Zenon DEF TypeOK

(* ... and what the clients and the network do.                            *)
LEMMA TypeActs ==
  ASSUME TypeOK, NEW c \in Clients, Acts(c)
  PROVE  TypeOK'
<1> USE DEF TypeOK, serverVars, clientVars, netVars
<1> DEFINE States == {"start", "sending", "waiting", "done", "failed", "dead"}
<1>a. \A x \in States : [at EXCEPT ![c] = x] \in [Clients -> States]
  OBVIOUS
<1>1. CASE connect(c)
  <2>1. at' \in [Clients -> States]
    BY <1>1, <1>a DEF connect
  <2>2. backlog' \in Seq(Clients)
    BY <1>1 DEF connect
  <2>3. UNCHANGED <<serverVars, sent, cut, peer, answer, shut>>
    BY <1>1 DEF connect
  <2> QED BY <2>1, <2>2, <2>3, TypeOthers
<1>2. CASE connectRefused(c) \/ receive_data(c) \/ clientFails(c)
  <2>1. at' \in [Clients -> States]
    BY <1>2, <1>a DEF connectRefused, receive_data, clientFails
  <2>2. UNCHANGED <<serverVars, sent, cut, peer, netVars>>
    BY <1>2 DEF connectRefused, receive_data, clientFails
  <2> QED BY <2>1, <2>2, TypeOthers
<1>3. ASSUME NEW end \in Int, sendUpTo(c, end) PROVE TypeOK'
  <2>1. PICK n \in sent[c] + 1 .. IF sent[c] < WordBytes THEN WordBytes ELSE end :
          /\ sent' = [sent EXCEPT ![c] = n]
          /\ at' = IF n = end THEN [at EXCEPT ![c] = "waiting"] ELSE at
    BY <1>3 DEF sendUpTo
  <2>2. n \in Nat
    BY Constants
  <2>3. sent' \in [Clients -> Nat]
    BY <2>1, <2>2
  <2>4. at' \in [Clients -> States]
    BY <2>1, <1>a
  <2>5. UNCHANGED <<serverVars, cut, peer, netVars>>
    BY <1>3 DEF sendUpTo
  <2> QED BY <2>3, <2>4, <2>5, TypeOthers
<1>4. CASE sendBytes(c)
  <2>1. StreamLen(c) \in Int
    BY Constants DEF StreamLen
  <2> QED BY <1>3, <1>4, <2>1 DEF sendBytes
<1>5. CASE sendFileSizeAndContent(c)
  <2>1. 2 ^ (WordBits - 1) \in Int /\ 2 ^ WordBits \in Int
    BY ServiceAssumption, Powers
  <2>2. ToInt(Len(FileOf[c])) \in Int
    BY <2>1, Constants DEF ToInt
  <2>3. WordBytes + Max({0, ToInt(Len(FileOf[c]))}) \in Int
    <3>1. Max({0, ToInt(Len(FileOf[c]))}) \in Int
      <4> DEFINE rest == ToInt(Len(FileOf[c]))
      <4> HIDE DEF rest
      <4>1. rest \in Int /\ 0 \in Int
        BY <2>2 DEF rest
      <4>2. Max({0, rest}) \in Int
        BY <4>1, MaxOfTwo, Zenon
      <4> QED BY <4>2 DEF rest
    <3> QED BY <3>1, Constants
  <2> QED BY <1>3, <1>5, <2>3 DEF sendFileSizeAndContent
<1>6. CASE readFails(c)
  BY <1>6, <1>a, TypeOthers DEF readFails
<1>8. CASE cutOff(c)
  <2>1. PICK how \in {"closed", "reset", "unreachable"} :
          peer' = [peer EXCEPT ![c] = how]
    BY <1>8 DEF cutOff
  <2>2. at' \in [Clients -> States]
    BY <1>8, <1>a DEF cutOff
  <2>3. peer' \in [Clients -> {"open", "closed", "reset", "unreachable"}]
    BY <2>1
  <2>4. UNCHANGED <<serverVars, sent, cut, netVars>>
    BY <1>8 DEF cutOff
  <2> QED BY <2>2, <2>3, <2>4, TypeOthers
<1>7. CASE truncate(c)
  BY <1>7, TypeOthers DEF truncate
<1> QED BY <1>1, <1>2, <1>4, <1>5, <1>6, <1>7, <1>8 DEF Acts

(* A read takes no more than is expected.                                  *)
LEMMA ReadableParts ==
  ASSUME TypeOK, client \in Clients, NEW k \in Readable
  PROVE  k \in Nat /\ k > 0 /\ k <= remaining
<1>1. sent[client] - consumed \in Int /\ remaining \in Int
  BY DEF TypeOK
<1> DEFINE m == Min({remaining, sent[client] - consumed})
<1>2. m \in Int /\ m <= remaining
  BY <1>1, MinOfTwo
<1>3. k \in 1 .. m
  BY DEF Readable
<1> HIDE DEF m
<1> QED BY <1>1, <1>2, <1>3

(* What is read of the content is a part of the file.                      *)
LEMMA ReadPart ==
  ASSUME TypeOK, Placed, pc = "content", NEW k \in Readable
  PROVE  LET start == consumed - WordBytes
             buffer == SubSeq(FileOf[client], start + 1, start + k)
         IN /\ client \in Clients /\ start \in Nat /\ k \in Nat
            /\ start + k <= Len(FileOf[client])
            /\ buffer \in Seq(Bytes)
<1>1. client \in Clients
  BY DEF TypeOK, Placed, Serving
<1>2. k \in Nat /\ k > 0 /\ k <= remaining
  BY <1>1, ReadableParts
<1>3. /\ FileOf[client] \in Seq(Bytes) /\ Len(FileOf[client]) \in Nat
      /\ WordBytes \in Nat
  BY <1>1, Constants
<1>4. /\ consumed \in Nat /\ remaining \in Int /\ consumed >= WordBytes
      /\ consumed + remaining = WordBytes + Len(FileOf[client])
  BY DEF TypeOK, Placed, StreamLen
<1> DEFINE start == consumed - WordBytes
<1>5. start \in Nat /\ start + k <= Len(FileOf[client])
  BY <1>2, <1>3, <1>4
<1>6. SubSeq(FileOf[client], start + 1, start + k) \in Seq(Bytes)
  <2> DEFINE s == FileOf[client]
  <2> HIDE DEF s, start
  <2>1. s \in Seq(Bytes) /\ Len(s) \in Nat /\ start + k <= Len(s)
    BY <1>3, <1>5 DEF s
  <2>2. \A n \in start + 1 .. start + k : s[n] \in Bytes
    BY <2>1, <1>2, <1>5
  <2>3. SubSeq(s, start + 1, start + k) \in Seq(Bytes)
    BY <2>1, <2>2, <1>2, <1>5
  <2> QED BY <2>3 DEF s
<1> QED BY <1>1, <1>2, <1>5, <1>6

(* Whoever is served keeps being served, step by step, with the types.     *)
LEMMA BaseServes == ASSUME TypeOK, Placed, Serves PROVE TypeOK' /\ Placed'
<1>0. WordBytes \in Nat \ {0} /\ None \notin Clients
  BY Constants
<1> USE DEF netVars, clientVars
<1>1. CASE \/ registerHandler \/ createAndBindTCPServer \/ sigaction
           \/ testRunning \/ acceptFailed \/ forgetClient
  <2> USE DEF registerHandler, createAndBindTCPServer, sigaction, testRunning,
              acceptFailed, forgetClient, Goto
  <2>1. TypeOK'
    BY <1>1 DEF TypeOK
  <2>2. Placed'
    BY <1>1 DEF Placed, Serving, Between
  <2> QED BY <2>1, <2>2
<1>2. CASE setup_server
  <2> USE DEF setup_server
  <2>1. TypeOK'
    BY <1>2 DEF TypeOK, ZeroTotals
  <2>2. Placed'
    BY <1>2 DEF Placed, Serving, Between
  <2> QED BY <2>1, <2>2
<1>3. CASE accept
  <2>1. Head(backlog) \in Clients /\ Tail(backlog) \in Seq(Clients)
    BY <1>3, HeadTailProperties DEF accept, TypeOK
  <2>2. TypeOK'
    BY <1>3, <2>1 DEF accept, Goto, TypeOK
  <2>3. Placed'
    BY <1>3 DEF accept, Goto, Placed, Serving, Between
  <2> QED BY <2>2, <2>3
<1>4. CASE startConnection
  <2>1. TypeOK'
    BY <1>4, <1>0 DEF startConnection, TypeOK, ZeroTotals
  <2>2. Placed'
    BY <1>4, <1>0 DEF startConnection, Placed, Serving, Between
  <2> QED BY <2>1, <2>2
<1>5. CASE receiveFailed \/ receiveBroken \/ closeClient \/ sendFailed
  <2>0. client \in Clients
    BY <1>5 DEF receiveFailed, receiveBroken, closeClient, sendFailed, TypeOK,
                Placed, Serving
  <2>1. TypeOK'
    BY <1>5, <2>0 DEF receiveFailed, receiveBroken, closeClient, sendFailed,
                      closeAndReturn, close, TypeOK
  <2>2. Placed'
    BY <1>5, <1>0 DEF receiveFailed, receiveBroken, closeClient, sendFailed,
                      Placed, Serving, Between
  <2> QED BY <2>1, <2>2
<1>6. ASSUME NEW k \in 1 .. WordBytes, receiveSize(k) PROVE TypeOK' /\ Placed'
  <2>1. /\ client \in Clients /\ k \in Nat /\ k > 0 /\ k <= remaining
        /\ remaining \in Int /\ consumed \in Nat /\ consumed + remaining = WordBytes
    BY <1>6, <1>0, ReadableParts DEF receiveSize, TypeOK, Placed, Serving
  <2> DEFINE n == ToInt(Len(FileOf[client]))
  <2>2. n \in Int /\ (n > 0 => n = Len(FileOf[client]))
    <3>1. /\ Len(FileOf[client]) \in Nat /\ Len(FileOf[client]) < 2 ^ WordBits
          /\ 2 ^ WordBits \in Nat
      BY <2>1, Constants, ServiceAssumption, Powers
    <3> QED BY <3>1 DEF ToInt
  <2> HIDE DEF n
  <2>3. /\ remaining' = (IF k = remaining THEN n ELSE remaining - k)
        /\ pc' = (IF k < remaining THEN "size"
                  ELSE IF n > 0 THEN "content" ELSE "reply")
        /\ consumed' = consumed + k
        /\ UNCHANGED <<status, is_server_running, client_socket_fd, client, isOpen,
                       total_sent, pcc_total, interrupts, counted, clientVars,
                       netVars, temp_pcc_total, printable_count>>
    BY <1>6 DEF receiveSize, consume, n
  <2>4. TypeOK'
    BY <2>1, <2>2, <2>3 DEF TypeOK
  <2>5. pc = "size" /\ isOpen /\ total_sent = 0 /\ 0 < WordBytes
    BY <1>6, <1>0 DEF receiveSize, Placed
  <2>6. /\ pc' = "size" => /\ remaining' > 0
                           /\ consumed' + remaining' = WordBytes
        /\ pc' = "content" => /\ remaining' > 0 /\ consumed' >= WordBytes
                              /\ consumed' + remaining' = StreamLen(client)
    <3>1. Len(FileOf[client]) \in Nat
      BY <2>1, Constants
    <3> QED BY <2>1, <2>2, <2>3, <1>0, <3>1 DEF StreamLen
  <2>7. Placed'
    BY <2>3, <2>5, <2>6 DEF Placed, Serving, Between
  <2> QED BY <2>4, <2>7
<1>7. ASSUME NEW k \in 1 .. WordBytes, sendCount(k) PROVE TypeOK' /\ Placed'
  <2>1. total_sent + k \in 1 .. WordBytes /\ printable_count \in Nat
    BY <1>7, <1>0 DEF sendCount, unsent, TypeOK
  <2>2. TypeOK'
    <3>1. [count |-> printable_count, bytes |-> total_sent + k]
             \in [count : Nat, bytes : 0 .. WordBytes]
      BY <2>1
    <3>2. answer' \in [Clients -> [count : Nat, bytes : 0 .. WordBytes]]
      BY <1>7, <3>1 DEF sendCount, TypeOK
    <3>3. peer' \in [Clients -> {"open", "closed", "reset", "unreachable"}]
      BY <1>7 DEF sendCount, TypeOK
    <3>4. total_sent' \in 0 .. WordBytes
      BY <1>7, <2>1 DEF sendCount
    <3>5. pc' \in {"fold", "reply"}
      BY <1>7 DEF sendCount
    <3>6. UNCHANGED <<status, is_server_running, client_socket_fd, client, isOpen,
                      remaining, consumed, temp_pcc_total, printable_count,
                      pcc_total, interrupts, counted, at, sent, cut, backlog, shut>>
      BY <1>7 DEF sendCount
    <3> QED BY <3>2, <3>3, <3>4, <3>5, <3>6 DEF TypeOK
  <2>3. Placed'
    BY <1>7, <2>1, <1>0 DEF sendCount, Placed, Serving, Between
  <2> QED BY <2>2, <2>3
<1>8. ASSUME NEW k \in 1 .. 2 ^ WordBits, receiveContent(k)
      PROVE  TypeOK' /\ Placed'
  <2> DEFINE start == consumed - WordBytes
             buffer == SubSeq(FileOf[client], start + 1, start + k)
  <2>1. pc = "content" /\ k \in Readable
    BY <1>8 DEF receiveContent
  <2>2. client \in Clients /\ k \in Nat /\ buffer \in Seq(Bytes)
    BY <2>1, ReadPart
  <2>3. k > 0 /\ k <= remaining
    BY <2>1, <2>2, ReadableParts
  <2> HIDE DEF buffer
  <2>4. \A S : Occurs(buffer, S) \in Nat
    BY <2>2, OccursInNat
  <2>5. /\ temp_pcc_total' = [ch \in Printable |->
                                temp_pcc_total[ch] + Occurs(buffer, {ch})]
        /\ printable_count' = printable_count + Occurs(buffer, Printable)
        /\ consumed' = consumed + k /\ remaining' = remaining - k
        /\ pc' = (IF remaining = k THEN "reply" ELSE "content")
        /\ UNCHANGED <<status, is_server_running, client_socket_fd, client, isOpen,
                       total_sent, pcc_total, interrupts, counted, clientVars,
                       netVars>>
    BY <1>8 DEF receiveContent, consume, contentComplete, buffer
  <2>6. TypeOK'
    <3>1. temp_pcc_total' \in [Printable -> Nat] /\ printable_count' \in Nat
      <4>1. /\ \A ch \in Printable : temp_pcc_total[ch] \in Nat
            /\ printable_count \in Nat
        BY DEF TypeOK
      <4>2. \A ch \in Printable : Occurs(buffer, {ch}) \in Nat
        BY <2>4
      <4>3. \A ch \in Printable :
              temp_pcc_total[ch] + Occurs(buffer, {ch}) \in Nat
        BY <4>1, <4>2
      <4> QED BY <2>4, <2>5, <4>1, <4>3
    <3>2. consumed' \in Nat /\ remaining' \in Int /\ pc' \in {"reply", "content"}
      BY <2>2, <2>5 DEF TypeOK
    <3>3. UNCHANGED <<status, is_server_running, client_socket_fd, client, isOpen,
                      total_sent, pcc_total, interrupts, counted, clientVars,
                      netVars>>
      BY <2>5
    <3> QED BY <3>1, <3>2, <3>3 DEF TypeOK
  <2>7. Placed'
    <3>1. /\ remaining > 0 /\ consumed >= WordBytes /\ isOpen /\ total_sent = 0
          /\ consumed + remaining = StreamLen(client)
          /\ client # None /\ client_socket_fd = client /\ status = "running"
      BY <2>1 DEF Placed, Serving
    <3>2. remaining \in Int /\ consumed \in Nat
      BY DEF TypeOK
    <3>3. pc' = "content" => /\ remaining' > 0 /\ consumed' >= WordBytes
                            /\ consumed' + remaining' = StreamLen(client)
      BY <2>2, <2>3, <2>5, <3>1, <3>2, <1>0
    <3>4. pc' \in {"content", "reply"}
      BY <2>5
    <3> QED BY <2>5, <3>1, <3>3, <3>4, <1>0
            DEF Placed, Serving, Between, StreamLen
  <2> QED BY <2>6, <2>7
<1>9. CASE foldTotals
  <2>1. \A ch \in Printable : newTotal(ch) \in Nat
    BY ServiceAssumption, Powers DEF newTotal, TypeOK
  <2>2. client \in Clients
    BY <1>9 DEF foldTotals, TypeOK, Placed, Serving
  <2>3. pcc_total' \in [Printable -> Nat]
    BY <1>9, <2>1 DEF foldTotals
  <2>4. TypeOK'
    BY <1>9, <2>2, <2>3 DEF foldTotals, TypeOK
  <2>5. Placed'
    BY <1>9 DEF foldTotals, Placed, Serving, Between
  <2> QED BY <2>4, <2>5
<1> QED BY <1>1, <1>2, <1>3, <1>4, <1>5, <1>6, <1>7, <1>8, <1>9 DEF Serves
(* The end of a process leaves no client at a place of the loop.           *)
LEMMA PlacedExit ==
  ASSUME Placed, NEW how \in {"printed", "failure", "sigpipe", "killed"}, Exit(how)
  PROVE  Placed'
BY DEF Placed, Exit, Serving, Between

(* Types and places are kept by every step: this is where a server that    *)
(* was interrupted while it serves must come back to the test of its loop  *)
(* before it stops.                                                        *)
LEMMA BaseStep ==
  ASSUME TypeOK, Placed, [VersionsNext]_allVars
  PROVE  TypeOK' /\ Placed'
<1>1. CASE UNCHANGED allVars
  <2> USE <1>1 DEF allVars, vars, serverVars, clientVars, netVars
  <2>1. TypeOK'
    BY DEF TypeOK
  <2>2. Placed'
    BY DEF Placed
  <2> QED BY <2>1, <2>2
<1>2. CASE Serves
  BY <1>2, BaseServes
<1>3. CASE Ends
  BY <1>3, TypeEnds, PlacedExit, EndsByExit
<1>4. CASE Interrupted
  <2>1. CASE client_socket_fd # None /\ is_server_running' = FALSE
             /\ UNCHANGED <<pc, status, client_socket_fd, client, isOpen, remaining,
                            consumed, temp_pcc_total, printable_count, total_sent,
                            pcc_total, counted, clientVars, netVars>>
    BY <2>1, <1>4, TypeInterrupted DEF Placed
  <2> QED BY <2>1, <1>4, TypeInterrupted, PlacedExit DEF Interrupted
<1>5. ASSUME NEW c \in Clients, Acts(c) PROVE TypeOK' /\ Placed'
  <2>1. UNCHANGED serverVars
    BY <1>5 DEF Acts, connect, connectRefused, sendBytes, sendFileSizeAndContent,
                sendUpTo, receive_data, clientFails, readFails, cutOff, truncate
  <2> QED BY <1>5, <2>1, TypeActs DEF serverVars, Placed
<1> QED BY <1>1, <1>2, <1>3, <1>4, <1>5, StepsOfBoth, SignalsInterrupt DEF AnyStep

(* A server starts without a client.                                       *)
LEMMA PlacedInit == VersionsInit => Placed
BY DEF VersionsInit, Idle, Placed, Serving, Between

(* The safety part of the specification.                                   *)
LEMMA BaseHolds == VersionsSpec => [](TypeOK /\ Placed)
<1>1. VersionsInit => TypeOK /\ Placed
  BY TypeInit, PlacedInit DEF VersionsTypeOK
<1>2. TypeOK /\ Placed /\ [VersionsNext]_allVars => (TypeOK /\ Placed)'
  BY BaseStep
<1>3. VersionsSpec => VersionsInit /\ [][VersionsNext]_allVars
  BY PTL DEF VersionsSpec
<1> QED BY <1>1, <1>2, <1>3, PTL

(* Types hold in both versions of the service, whatever the number of      *)
(* clients, the bytes of their files and the signals.                      *)
THEOREM TypeCorrect == VersionsSpec => []VersionsTypeOK
<1>1. VersionsInit => version \in {"5", "HW4"}
  BY DEF VersionsInit
<1>2. version \in {"5", "HW4"} /\ [VersionsNext]_allVars => (version \in {"5", "HW4"})'
  BY DEF VersionsNext, allVars
<1>3. VersionsSpec => VersionsInit /\ [][VersionsNext]_allVars
  BY PTL DEF VersionsSpec
<1>4. TypeOK /\ Placed /\ version \in {"5", "HW4"} => VersionsTypeOK
  BY DEF VersionsTypeOK
<1> QED BY <1>1, <1>2, <1>3, <1>4, BaseHolds, PTL

-----------------------------------------------------------------------------
(* Nobody is harmed at first.                                              *)
LEMMA HarmInit == VersionsInit => Harm
BY DEF VersionsInit, Idle, Harm, Harmed, GoodClientsDoNoHarm

(* An end of a connection that is gone, and a process that failed, is      *)
(* somebody's harm.                                                        *)
LEMMA HarmEnds == ASSUME TypeOK, Placed, Harm, Ends PROVE Harm'
<1>1. client \in Clients \cup {None} /\ (pc \in Serving => client \in Clients)
  BY DEF TypeOK, Placed
<1>2. \/ Harmed # {}
      \/ Exit("printed")
  BY <1>1 DEF Ends, Harm, Harmed, receiveError, receiveUnknown, sendError, sigpipe,
              acceptFails, display_statistics, Serving
<1>3. PICK how \in {"printed", "failure", "sigpipe"} : Exit(how)
                   /\ (how # "printed" => Harmed # {})
  BY <1>2, EndsByExit
<1>4. Harmed' = Harmed /\ peer' = peer /\ at' = at /\ pc' = "exited" /\ status' = how
  BY <1>3 DEF Exit, clientVars, Harmed
<1> QED BY <1>3, <1>4 DEF Harm, GoodClientsDoNoHarm

(* A step that finds a connection gone finds one that was cut off, cut     *)
(* short, or whose client failed: every other step leaves connections as   *)
(* they are.                                                               *)
LEMMA HarmStep ==
  ASSUME TypeOK, Placed, Harm, [VersionsNext]_allVars
  PROVE  Harm'
<1>0. pc \in Serving => client \in Clients
  BY DEF TypeOK, Placed
<1>1. CASE UNCHANGED allVars
  BY <1>1 DEF Harm, Harmed, GoodClientsDoNoHarm, allVars, vars, serverVars,
              clientVars, netVars
<1>2. CASE Serves
  <2>1. Harmed' = Harmed /\ at' = at /\ status' = status
    BY <1>2 DEF Serves, registerHandler, setup_server, createAndBindTCPServer,
                sigaction, testRunning, accept, acceptFailed, startConnection,
                receiveFailed, receiveBroken, receiveSize, sendCount,
                receiveContent, sendFailed, foldTotals, closeClient, forgetClient,
                consume, Goto, Harmed, clientVars
  <2>2. \A c \in Clients : peer'[c] # "open" => peer[c] # "open"
    BY <1>2 DEF TypeOK, Serves, registerHandler, setup_server,
                createAndBindTCPServer,
                sigaction, testRunning, accept, acceptFailed, startConnection,
                receiveFailed, receiveBroken, receiveSize, sendCount,
                receiveContent, sendFailed, foldTotals, closeClient, forgetClient,
                consume, Goto, clientVars
  <2>3. (pc' = "assign" /\ client' = None) => Harmed # {}
    <3>1. CASE accept
      <4>1. Head(backlog) \in Clients
        BY <3>1, HeadTailProperties DEF accept, TypeOK
      <4>2. None \notin Clients
        BY Constants
      <4> QED BY <3>1, <4>1, <4>2 DEF accept, Goto, Harm
    <3>2. CASE pc' # "assign"
      BY <3>2
    <3> QED
      BY <1>2, <3>1, <3>2
      DEF Serves, registerHandler, setup_server, createAndBindTCPServer,
          sigaction, testRunning, acceptFailed, startConnection,
          receiveFailed, receiveBroken, receiveSize, sendCount, receiveContent,
          sendFailed, foldTotals, closeClient, forgetClient, Goto
  <2>4. (pc' = "reply" /\ ~ isOpen') => Harmed # {}
    <3>1. CASE receiveFailed \/ receiveBroken
      BY <1>0, <3>1 DEF receiveFailed, receiveBroken, Harm, AtEnd, Serving
    <3>2. CASE pc' = "reply" => isOpen'
      BY <3>2
    <3> QED
      BY <1>2, <3>1, <3>2
      DEF Placed, Serves, registerHandler, setup_server, createAndBindTCPServer,
          sigaction, testRunning, accept, acceptFailed, startConnection,
          receiveSize, sendCount, receiveContent, sendFailed, foldTotals,
          closeClient, forgetClient, consume, Goto
  <2> QED BY <2>1, <2>2, <2>3, <2>4 DEF Harm, GoodClientsDoNoHarm
<1>3. CASE Ends
  BY <1>3, HarmEnds
<1>4. CASE Interrupted
  <2>1. UNCHANGED clientVars /\ (pc' = "exited" \/ pc' = pc) /\ client' = client
        /\ (status' = status \/ status' \in {"printed", "killed"})
        /\ (pc' = pc => isOpen' = isOpen)
    BY <1>4 DEF Interrupted, Exit
  <2> QED BY <2>1 DEF Harm, GoodClientsDoNoHarm, Harmed, clientVars
<1>5. ASSUME NEW c \in Clients, Acts(c) PROVE Harm'
  <2>1. UNCHANGED <<pc, client, isOpen, status>>
    BY <1>5 DEF Acts, connect, connectRefused, sendBytes, sendFileSizeAndContent,
                sendUpTo, receive_data, clientFails, readFails, cutOff, truncate,
                serverVars
  <2>2. Harmed \subseteq Harmed'
    BY <1>5 DEF Acts, connect, connectRefused, sendBytes, sendFileSizeAndContent,
                sendUpTo, receive_data, clientFails, readFails, cutOff, truncate,
                TypeOK, Harmed
  <2>3. \A d \in Clients : peer'[d] # "open" => peer[d] # "open" \/ d \in Harmed'
    BY <1>5 DEF Acts, connect, connectRefused, sendBytes, sendFileSizeAndContent,
                sendUpTo, receive_data, clientFails, readFails, cutOff, truncate,
                TypeOK, Harmed, AtItsEnd, clientVars
  <2> QED BY <2>1, <2>2, <2>3 DEF Harm, GoodClientsDoNoHarm
<1> QED BY <1>1, <1>2, <1>3, <1>4, <1>5, StepsOfBoth, SignalsInterrupt DEF AnyStep

(* No timing of clients that behave, and no split of their bytes into      *)
(* packets, makes a server of either version leave with an error           *)
(* (5/pcc_server.c): for any clients, files and sizes.                     *)
THEOREM OnlyHarmEndsService == VersionsSpec => []GoodClientsDoNoHarm
<1>1. TypeOK /\ Placed /\ Harm /\ [VersionsNext]_allVars => Harm'
  BY HarmStep
<1>2. VersionsSpec => VersionsInit /\ [][VersionsNext]_allVars
  BY PTL DEF VersionsSpec
<1>3. Harm => GoodClientsDoNoHarm
  BY DEF Harm
<1> QED BY <1>1, <1>2, <1>3, HarmInit, BaseHolds, PTL
-----------------------------------------------------------------------------
(* A client that was not served yet.                                       *)
Fresh(c) == c \notin counted /\ c # client /\ answer[c].bytes = 0

(* Each client is accepted, answered and counted once.                     *)
Once ==
  /\ \A c \in Clients : at[c] = "start" => Fresh(c) /\ c \notin Range(backlog)
  /\ \A c \in Range(backlog) : Fresh(c)
  /\ \A m, n \in 1 .. Len(backlog) : backlog[m] = backlog[n] => m = n
  /\ pc \in {"assign", "size", "content", "reply", "fold"} => client \notin counted
  /\ pc \in {"assign", "size", "content"} /\ client # None =>
       answer[client].bytes = 0
  /\ pc = "reply" => answer[client].bytes = total_sent
  /\ pc \in {"close", "forget"} => client \in counted

(* The temporary totals and the count are those of the part s of a file.   *)
Counts(s) ==
  /\ \A ch \in Printable : temp_pcc_total[ch] = Occurs(s, {ch})
  /\ printable_count = Occurs(s, Printable)

(* The counts are those of the bytes read so far, and of the whole file    *)
(* when an answer is sent or the file is added to the statistics.          *)
Sums ==
  /\ pc = "size" => temp_pcc_total = ZeroTotals /\ printable_count = 0
  /\ pc = "content" => Counts(SubSeq(FileOf[client], 1, consumed - WordBytes))
  /\ pc = "reply" /\ isOpen => Counts(FileOf[client])
  /\ pc = "fold" => Counts(FileOf[client])
  /\ pc \in {"register", "setup"} => pcc_total = ZeroTotals

(* Whoever was answered was given the count of its own file, and is in the *)
(* statistics unless these are lost.                                       *)
Answers ==
  /\ \A c \in Clients :
       answer[c].bytes > 0 => answer[c].count = Occurs(FileOf[c], Printable)
  /\ \A c \in Clients : at[c] = "done" => answer[c].bytes = WordBytes
  /\ \A c \in Clients :
       answer[c].bytes = WordBytes =>
         \/ c \in counted
         \/ pc = "fold" /\ c = client
         \/ status \notin {"running", "printed"}

Kept == Once /\ Sums /\ Answers

(* At first nothing is counted, told or waiting.                           *)
LEMMA KeptInit == VersionsInit => Kept
<1> SUFFICES ASSUME VersionsInit PROVE Kept
  OBVIOUS
<1>1. Range(backlog) = {} /\ Len(backlog) = 0
  BY DEF VersionsInit, Idle, Range
<1>2. None \notin Clients /\ WordBytes \in Nat \ {0}
  BY Constants
<1>3. Once
  BY <1>1, <1>2 DEF VersionsInit, Idle, Once, Fresh
<1>4. Sums
  BY DEF VersionsInit, Idle, Sums
<1>5. Answers
  BY <1>2 DEF VersionsInit, Idle, Answers
<1> QED BY <1>3, <1>4, <1>5 DEF Kept

(* The end of the process: no connection waits, and if the statistics are  *)
(* printed nobody is being served.                                         *)
LEMMA KeptExit ==
  ASSUME TypeOK, Placed, Kept, pc # "exited",
         NEW how \in {"printed", "failure", "sigpipe", "killed"}, Exit(how),
         how = "printed" => pc \notin Serving
  PROVE  Kept'
<1>1. Range(backlog') = {} /\ Len(backlog') = 0
  BY DEF Exit, Range
<1>2. Once'
  BY <1>1 DEF Kept, Once, Fresh, Exit, clientVars
<1>3. Sums'
  BY DEF Sums, Exit
<1>4. Answers'
  BY DEF Kept, Answers, Exit, clientVars, Placed, Serving
<1> QED BY <1>2, <1>3, <1>4 DEF Kept

(* The clients' steps: one that connects was not served, one that is told  *)
(* a count has the whole answer.                                           *)
LEMMA KeptActs ==
  ASSUME TypeOK, Kept, NEW c \in Clients, Acts(c)
  PROVE  Kept'
<1>1. UNCHANGED serverVars /\ answer' = answer
  BY DEF Acts, connect, connectRefused, sendBytes, sendFileSizeAndContent, sendUpTo,
         receive_data, clientFails, readFails, cutOff, truncate, netVars
<1>2. \A d \in Clients : at'[d] = "start" => at[d] = "start"
  BY DEF Acts, connect, connectRefused, sendBytes, sendFileSizeAndContent, sendUpTo,
         receive_data, clientFails, readFails, cutOff, truncate, TypeOK
<1>3. \A d \in Clients : at'[d] = "done" => at[d] = "done" \/ answer[d].bytes = WordBytes
  BY DEF Acts, connect, connectRefused, sendBytes, sendFileSizeAndContent, sendUpTo,
         receive_data, clientFails, readFails, cutOff, truncate, TypeOK
<1>4. Sums' /\ Answers'
  BY <1>1, <1>3 DEF serverVars, Kept, Sums, Counts, Answers
<1>5. CASE connect(c)
  <2>1. /\ backlog' = Append(backlog, c) /\ at[c] = "start" /\ at'[c] = "sending"
        /\ backlog \in Seq(Clients)
    BY <1>5 DEF connect, TypeOK
  <2>2. /\ Len(backlog') = Len(backlog) + 1 /\ Len(backlog) \in Nat
        /\ \A n \in 1 .. Len(backlog) : backlog'[n] = backlog[n]
        /\ backlog'[Len(backlog) + 1] = c
        /\ Range(backlog') = Range(backlog) \cup {c}
    BY <2>1, AppendElements, LenProperties
  <2>3. Fresh(c) /\ c \notin Range(backlog)
    BY <2>1 DEF Kept, Once
  <2>4. \A d : Fresh(d)' <=> Fresh(d)
    BY <1>1 DEF serverVars, Fresh
  <2>5. \A m \in 1 .. Len(backlog) : backlog[m] # c
    BY <2>1, <2>3 DEF Range
  <2>6. \A m, n \in 1 .. Len(backlog') : backlog'[m] = backlog'[n] => m = n
    <3>1. \A m \in 1 .. Len(backlog') : m \in 1 .. Len(backlog) \/ m = Len(backlog) + 1
      BY <2>2
    <3>2. \A m, n \in 1 .. Len(backlog) : backlog[m] = backlog[n] => m = n
      BY DEF Kept, Once
    <3> QED BY <2>2, <2>5, <3>1, <3>2
  <2>7. \A d \in Clients : at'[d] = "start" => d # c
    BY <2>1
  <2> QED BY <1>1, <1>2, <1>4, <2>2, <2>3, <2>4, <2>6, <2>7
          DEF serverVars, Kept, Once
<1>6. CASE UNCHANGED backlog
  <2>1. \A d : Fresh(d)' <=> Fresh(d)
    BY <1>1 DEF serverVars, Fresh
  <2> QED BY <1>1, <1>2, <1>4, <1>6, <2>1 DEF serverVars, Kept, Once
<1> QED BY <1>5, <1>6
        DEF Acts, connectRefused, sendBytes, sendFileSizeAndContent, sendUpTo,
            receive_data, clientFails, readFails, cutOff, truncate, netVars

(* No size of a file needs the highest bit of its word.                    *)
ShortFiles == \A c \in Clients : Len(FileOf[c]) < 2 ^ (WordBits - 1)

(* Two parts of a file that follow one another are counted one by one.     *)
LEMMA CountsMore ==
  ASSUME TypeOK, Placed, Kept, pc = "content", NEW k \in Readable
  PROVE  LET start == consumed - WordBytes
             buffer == SubSeq(FileOf[client], start + 1, start + k)
             whole == SubSeq(FileOf[client], 1, start + k)
         IN /\ \A ch \in Printable :
                 temp_pcc_total[ch] + Occurs(buffer, {ch}) = Occurs(whole, {ch})
            /\ printable_count + Occurs(buffer, Printable) = Occurs(whole, Printable)
            /\ k = remaining => whole = FileOf[client]
<1> DEFINE start == consumed - WordBytes
           buffer == SubSeq(FileOf[client], start + 1, start + k)
           whole == SubSeq(FileOf[client], 1, start + k)
<1>1. /\ client \in Clients /\ start \in Nat /\ k \in Nat
      /\ start + k <= Len(FileOf[client])
  BY ReadPart
<1>2. FileOf[client] \in Seq(Bytes)
  BY <1>1, Constants
<1>3. \A S : Occurs(whole, S) = Occurs(SubSeq(FileOf[client], 1, start), S)
                                + Occurs(buffer, S)
  <2> DEFINE s == FileOf[client]
  <2> HIDE DEF s, start
  <2>1. \A S : Occurs(SubSeq(s, 1, start + k), S)
                 = Occurs(SubSeq(s, 1, start), S)
                   + Occurs(SubSeq(s, start + 1, start + k), S)
    BY <1>1, <1>2, OccursMore DEF s
  <2> QED BY <2>1 DEF s
<1>4. Counts(SubSeq(FileOf[client], 1, start))
  BY DEF Kept, Sums
<1>5. k = remaining => whole = FileOf[client]
  <2> SUFFICES ASSUME k = remaining PROVE whole = FileOf[client]
    OBVIOUS
  <2>1. /\ consumed \in Nat /\ remaining \in Int /\ WordBytes \in Nat
        /\ consumed + remaining = WordBytes + Len(FileOf[client])
        /\ Len(FileOf[client]) \in Nat
    BY <1>1, Constants DEF TypeOK, Placed, StreamLen
  <2>2. start + k = Len(FileOf[client])
    BY <2>1
  <2> DEFINE s == FileOf[client]
  <2> HIDE DEF s
  <2>3. SubSeq(s, 1, Len(s)) = s
    BY <1>2 DEF s
  <2> QED BY <2>2, <2>3 DEF s
<1> HIDE DEF whole, buffer, start
<1>6. \A ch \in Printable :
        temp_pcc_total[ch] + Occurs(buffer, {ch}) = Occurs(whole, {ch})
  BY <1>3, <1>4 DEF Counts
<1>7. printable_count + Occurs(buffer, Printable) = Occurs(whole, Printable)
  BY <1>3, <1>4 DEF Counts
<1> QED BY <1>5, <1>6, <1>7 DEF whole, buffer, start

(* Nothing is counted of a file before its first byte is read, so that a   *)
(* file without any is counted already.                                    *)
LEMMA CountsNone ==
  ASSUME NEW s \in Seq(Bytes), temp_pcc_total = ZeroTotals, printable_count = 0
  PROVE  Counts(SubSeq(s, 1, 0)) /\ (Len(s) = 0 => Counts(s))
<1>1. Counts(SubSeq(s, 1, 0))
  BY OccursNone DEF Counts, ZeroTotals
<1>2. Len(s) = 0 => SubSeq(s, 1, 0) = s
  OBVIOUS
<1> QED BY <1>1, <1>2

(* The next connection is that of a client that was not served.            *)
LEMMA KeptAccept == ASSUME TypeOK, Placed, Kept, accept PROVE Kept'
<1> USE DEF accept, Goto
<1>1. /\ backlog \in Seq(Clients) /\ backlog # <<>> /\ backlog' = Tail(backlog)
      /\ client' \in {Head(backlog), None} /\ None \notin Clients
      /\ pc' = "assign"
      /\ UNCHANGED <<status, is_server_running, isOpen, remaining, consumed,
                     temp_pcc_total, printable_count, total_sent, pcc_total,
                     interrupts, counted, clientVars, answer, shut>>
  BY Constants DEF TypeOK
<1>2. /\ Head(backlog) \in Clients /\ Head(backlog) = backlog[1]
      /\ Len(backlog) \in Nat \ {0} /\ backlog' \in Seq(Clients)
      /\ Len(backlog') = Len(backlog) - 1
      /\ \A n \in 1 .. Len(backlog') : backlog'[n] = backlog[n + 1]
      /\ Range(backlog) = Range(backlog') \cup {Head(backlog)}
  BY <1>1, TailElements
<1>3. \A m, n \in 1 .. Len(backlog) : backlog[m] = backlog[n] => m = n
  BY DEF Kept, Once
<1>4. \A c \in Range(backlog') : c # Head(backlog)
  <2>1. \A n \in 1 .. Len(backlog') : /\ n + 1 \in 1 .. Len(backlog) /\ n + 1 # 1
                                      /\ 1 \in 1 .. Len(backlog)
    BY <1>2
  <2>2. \A n \in 1 .. Len(backlog') : backlog'[n] # backlog[1]
    BY <1>2, <1>3, <2>1
  <2>3. DOMAIN backlog' = 1 .. Len(backlog')
    BY <1>2
  <2> QED BY <1>2, <2>2, <2>3 DEF Range
<1>5. Range(backlog) \subseteq Clients
  BY <1>1 DEF Range
<1>6. \A c \in Clients : Fresh(c) /\ c # Head(backlog) => Fresh(c)'
  BY <1>1 DEF Fresh
<1>7. /\ counted \subseteq Clients
      /\ Head(backlog) \notin counted /\ answer[Head(backlog)].bytes = 0
  BY <1>2 DEF Kept, Once, Fresh, TypeOK
<1>8. \A m, n \in 1 .. Len(backlog') : backlog'[m] = backlog'[n] => m = n
  <2>1. \A n \in 1 .. Len(backlog') : n \in Nat /\ n + 1 \in 1 .. Len(backlog)
    BY <1>2
  <2> QED BY <1>2, <1>3, <2>1
<1>9. Once'
  <2>1. \A c \in Clients : at'[c] = "start" => Fresh(c)' /\ c \notin Range(backlog')
    BY <1>1, <1>2, <1>6 DEF Kept, Once, clientVars
  <2>2. \A c \in Range(backlog') : Fresh(c)'
    BY <1>2, <1>4, <1>5, <1>6 DEF Kept, Once
  <2>3. client' \notin counted' /\ (client' # None => answer'[client'].bytes = 0)
    BY <1>1, <1>7
  <2> QED BY <1>1, <1>8, <2>1, <2>2, <2>3 DEF Once
<1>10. Sums'
  BY <1>1 DEF Sums
<1>11. Answers'
  <2>1. UNCHANGED <<answer, at, counted, status>> /\ pc # "fold"
    BY <1>1 DEF clientVars
  <2> QED BY <2>1 DEF Kept, Answers
<1> QED BY <1>9, <1>10, <1>11 DEF Kept

(* The rest of the server's loop.                                          *)
LEMMA KeptServes ==
  ASSUME ShortFiles, TypeOK, Placed, Kept, Serves
  PROVE  Kept'
<1>0. WordBytes \in Nat \ {0} /\ None \notin Clients /\ counted \subseteq Clients
  BY Constants DEF TypeOK
<1>s. pc \in Serving => client \in Clients
  BY DEF TypeOK, Placed
<1> USE DEF netVars, clientVars
<1>1. CASE \/ registerHandler \/ createAndBindTCPServer \/ sigaction
           \/ testRunning \/ setup_server
  <2>1. /\ pc' \in Between /\ pc \in Between
        /\ UNCHANGED <<client, counted, answer, backlog, at, status>>
        /\ pc' \in {"register", "setup"} => /\ pc \in {"register", "setup"}
                                            /\ UNCHANGED pcc_total
    BY <1>1 DEF registerHandler, createAndBindTCPServer, sigaction, testRunning,
                setup_server, Goto, Between
  <2>2. Once'
    BY <2>1 DEF Kept, Once, Fresh, Between
  <2>3. Sums'
    BY <2>1 DEF Kept, Sums, Between
  <2>4. Answers'
    BY <2>1 DEF Kept, Answers, Between
  <2> QED BY <2>2, <2>3, <2>4 DEF Kept
<1>2. CASE accept
  BY <1>2, KeptAccept
<1>3. CASE acceptFailed \/ forgetClient
  <2>1. /\ pc' = "test" /\ pc \in {"assign", "forget"} /\ client' = None
        /\ UNCHANGED <<counted, answer, backlog, at, status>>
    BY <1>3 DEF acceptFailed, forgetClient, Goto
  <2>2. Range(backlog) \subseteq Clients
    BY DEF TypeOK, Range
  <2>3. Once'
    BY <2>1, <2>2, <1>0 DEF Kept, Once, Fresh
  <2>4. Sums'
    BY <2>1 DEF Sums
  <2>5. Answers'
    <3>1. UNCHANGED <<answer, at, counted, status>> /\ pc # "fold"
      BY <2>1
    <3> QED BY <3>1 DEF Kept, Answers
  <2> QED BY <2>3, <2>4, <2>5 DEF Kept
<1>4. CASE startConnection
  <2> USE DEF startConnection
  <2>1. Once'
    BY <1>4 DEF Kept, Once, Fresh
  <2>2. Sums'
    BY <1>4 DEF Sums
  <2>3. Answers'
    BY <1>4 DEF Kept, Answers
  <2> QED BY <2>1, <2>2, <2>3 DEF Kept
<1>5. CASE receiveFailed \/ receiveBroken
  <2>1. /\ pc \in {"size", "content"} /\ pc' = "reply" /\ isOpen' = FALSE
        /\ UNCHANGED <<client, counted, answer, backlog, at, status, total_sent>>
    BY <1>5 DEF receiveFailed, receiveBroken, closeAndReturn, close
  <2>2. Once'
    BY <2>1 DEF Kept, Once, Fresh, Placed, Serving
  <2>3. Sums'
    BY <2>1 DEF Sums
  <2>4. Answers'
    BY <2>1 DEF Kept, Answers
  <2> QED BY <2>2, <2>3, <2>4 DEF Kept
<1>6. ASSUME NEW k \in 1 .. WordBytes, receiveSize(k) PROVE Kept'
  <2>1. /\ client \in Clients /\ k \in Nat /\ k > 0 /\ k <= remaining
        /\ remaining \in Int /\ consumed \in Nat /\ consumed + remaining = WordBytes
        /\ pc = "size" /\ total_sent = 0 /\ client # None
    BY <1>6, <1>0, ReadableParts DEF receiveSize, TypeOK, Placed, Serving
  <2> DEFINE n == Len(FileOf[client])
  <2>2. n \in Nat /\ ToInt(n) = n /\ FileOf[client] \in Seq(Bytes)
    <3>1. n \in Nat /\ n < 2 ^ (WordBits - 1) /\ 2 ^ (WordBits - 1) \in Nat
      BY <2>1, Constants, ServiceAssumption, Powers DEF ShortFiles
    <3> QED BY <2>1, <3>1, Constants DEF ToInt
  <2>3. /\ pc' = (IF k < remaining THEN "size"
                  ELSE IF n > 0 THEN "content" ELSE "reply")
        /\ consumed' = consumed + k
        /\ UNCHANGED <<client, counted, answer, backlog, at, status, total_sent,
                       isOpen, temp_pcc_total, printable_count>>
    BY <1>6, <2>2 DEF receiveSize, consume
  <2>4. pc' # "size" => consumed' - WordBytes = 0
    BY <2>1, <2>3, <1>0
  <2> HIDE DEF n
  <2>5. Once'
    BY <2>1, <2>3 DEF Kept, Once, Fresh
  <2>6. temp_pcc_total = ZeroTotals /\ printable_count = 0
    BY <2>1 DEF Kept, Sums
  <2>7. Counts(SubSeq(FileOf[client], 1, 0)) /\ (n = 0 => Counts(FileOf[client]))
    BY <2>2, <2>6, CountsNone DEF n
  <2>8. Sums'
    <3>1. pc' = "content" => Counts(SubSeq(FileOf[client], 1, consumed' - WordBytes))
      BY <2>4, <2>7
    <3>2. pc' = "reply" => Counts(FileOf[client])
      BY <2>2, <2>3, <2>7
    <3>3. pc' \in {"size", "content", "reply"}
      BY <2>3
    <3> QED BY <2>3, <2>6, <3>1, <3>2, <3>3 DEF Sums, Counts
  <2>9. Answers'
    BY <2>1, <2>3 DEF Kept, Answers
  <2> QED BY <2>5, <2>8, <2>9 DEF Kept
<1>7. ASSUME NEW k \in 1 .. WordBytes, sendCount(k) PROVE Kept'
  <2>1. /\ pc = "reply" /\ isOpen /\ isOpen' = isOpen /\ client \in Clients
        /\ total_sent' = total_sent + k /\ total_sent \in Nat /\ k > 0
        /\ answer' = [answer EXCEPT ![client] = [count |-> printable_count,
                                                 bytes |-> total_sent + k]]
        /\ pc' = (IF total_sent + k = WordBytes THEN "fold" ELSE "reply")
        /\ UNCHANGED <<client, counted, backlog, at, status, temp_pcc_total,
                       printable_count>>
    BY <1>7, <1>s DEF sendCount, Serving, TypeOK
  <2>2. /\ answer'[client].count = printable_count
        /\ answer'[client].bytes = total_sent + k
        /\ \A c \in Clients : c # client => answer'[c] = answer[c]
    BY <2>1 DEF TypeOK
  <2>3. Once'
    <3>1. Range(backlog) \subseteq Clients
      BY DEF TypeOK, Range
    <3>2. \A c \in Clients : Fresh(c) => Fresh(c)'
      BY <2>1, <2>2 DEF Fresh
    <3> QED BY <2>1, <2>2, <3>1, <3>2 DEF Kept, Once
  <2>4. Counts(FileOf[client])
    BY <2>1 DEF Kept, Sums
  <2>5. Sums'
    BY <2>1, <2>4 DEF Sums, Counts
  <2>6. Answers'
    <3>1. at[client] # "done"
      <4>1. answer[client].bytes < WordBytes
        BY <2>1 DEF Kept, Once, Placed
      <4>2. answer[client].bytes # WordBytes
        BY <4>1, <1>0 DEF Placed, Kept, Once
      <4> QED BY <2>1, <4>2 DEF Kept, Answers
    <3>2. answer'[client].count = Occurs(FileOf[client], Printable)
      BY <2>2, <2>4 DEF Counts
    <3>3. answer'[client].bytes = WordBytes => pc' = "fold"
      BY <2>1, <2>2
    <3> QED BY <2>1, <2>2, <3>1, <3>2, <3>3 DEF Kept, Answers
  <2> QED BY <2>3, <2>5, <2>6 DEF Kept
<1>8. ASSUME NEW k \in 1 .. 2 ^ WordBits, receiveContent(k) PROVE Kept'
  <2> DEFINE start == consumed - WordBytes
             buffer == SubSeq(FileOf[client], start + 1, start + k)
             whole == SubSeq(FileOf[client], 1, start + k)
  <2>1. pc = "content" /\ k \in Readable
    BY <1>8 DEF receiveContent
  <2>2. /\ \A ch \in Printable :
             temp_pcc_total[ch] + Occurs(buffer, {ch}) = Occurs(whole, {ch})
        /\ printable_count + Occurs(buffer, Printable) = Occurs(whole, Printable)
        /\ k = remaining => whole = FileOf[client]
    BY <2>1, CountsMore
  <2>3. /\ temp_pcc_total' = [ch \in Printable |->
                                temp_pcc_total[ch] + Occurs(buffer, {ch})]
        /\ printable_count' = printable_count + Occurs(buffer, Printable)
        /\ consumed' = consumed + k
        /\ pc' = (IF remaining = k THEN "reply" ELSE "content")
        /\ UNCHANGED <<client, counted, answer, backlog, at, status, total_sent>>
    BY <1>8 DEF receiveContent, consume, contentComplete
  <2>4. consumed' - WordBytes = start + k
    BY <2>3, <1>0 DEF TypeOK
  <2>5. /\ \A ch \in Printable : temp_pcc_total'[ch] = Occurs(whole, {ch})
        /\ printable_count' = Occurs(whole, Printable)
    <3> HIDE DEF buffer, whole
    <3> QED BY <2>2, <2>3
  <2>6. Once'
    BY <2>1, <2>3, <1>s DEF Kept, Once, Fresh, Placed, Serving
  <2>7. Sums'
    <3>1. /\ pc' = "content" => whole = SubSeq(FileOf[client], 1, consumed' - WordBytes)
          /\ pc' = "reply" => whole = FileOf[client]
      BY <2>2, <2>3, <2>4
    <3> HIDE DEF whole
    <3> QED BY <2>3, <2>5, <3>1 DEF Sums, Counts
  <2>8. Answers'
    BY <2>1, <2>3 DEF Kept, Answers
  <2> QED BY <2>6, <2>7, <2>8 DEF Kept
<1>9. CASE sendFailed
  <2> USE DEF sendFailed, close
  <2>1. Once'
    BY <1>9 DEF Kept, Once, Fresh
  <2>2. Sums'
    BY <1>9 DEF Kept, Sums, Counts
  <2>3. Answers'
    BY <1>9 DEF Kept, Answers
  <2> QED BY <2>1, <2>2, <2>3 DEF Kept
<1>10. CASE foldTotals
  <2> USE DEF foldTotals
  <2>1. Once'
    BY <1>10 DEF Kept, Once, Fresh
  <2>2. Sums'
    BY <1>10 DEF Sums
  <2>3. Answers'
    BY <1>10 DEF Kept, Answers
  <2> QED BY <2>1, <2>2, <2>3 DEF Kept
<1>11. CASE closeClient
  <2> USE DEF closeClient, close
  <2>1. Once'
    BY <1>11 DEF Kept, Once, Fresh
  <2>2. Sums'
    BY <1>11 DEF Sums
  <2>3. Answers'
    BY <1>11 DEF Kept, Answers
  <2> QED BY <2>1, <2>2, <2>3 DEF Kept
<1> QED BY <1>1, <1>2, <1>3, <1>4, <1>5, <1>6, <1>7, <1>8, <1>9, <1>10, <1>11
        DEF Serves

(* Clients and signals change neither the totals nor whom they count.      *)
LEMMA KeptStep ==
  ASSUME ShortFiles, TypeOK, Placed, Kept, [VersionsNext]_allVars
  PROVE  Kept'
<1>1. CASE UNCHANGED allVars
  <2> USE <1>1 DEF allVars, vars, serverVars, clientVars, netVars
  <2>1. Once'
    BY DEF Kept, Once, Fresh
  <2>2. Sums'
    BY DEF Kept, Sums, Counts
  <2>3. Answers'
    BY DEF Kept, Answers
  <2> QED BY <2>1, <2>2, <2>3 DEF Kept
<1>2. CASE Serves
  BY <1>2, KeptServes
<1>3. CASE Ends
  <2>1. /\ pc # "exited"
        /\ \E how \in {"printed", "failure", "sigpipe", "killed"} :
             Exit(how) /\ (how = "printed" => pc = "display")
    BY <1>3, EndsByExit
  <2>2. "display" \notin Serving
    BY DEF Serving
  <2> QED BY <2>1, <2>2, KeptExit
<1>4. CASE Interrupted
  <2>1. CASE client_socket_fd # None /\ is_server_running' = FALSE
             /\ UNCHANGED <<pc, status, client_socket_fd, client, isOpen, remaining,
                            consumed, temp_pcc_total, printable_count, total_sent,
                            pcc_total, counted, clientVars, netVars>>
    <3> USE <2>1 DEF clientVars, netVars
    <3>1. Once'
      BY DEF Kept, Once, Fresh
    <3>2. Sums'
      BY DEF Kept, Sums, Counts
    <3>3. Answers'
      BY DEF Kept, Answers
    <3> QED BY <3>1, <3>2, <3>3 DEF Kept
  <2>2. CASE \E how \in {"printed", "failure", "sigpipe", "killed"} :
               Exit(how) /\ (how = "printed" => client_socket_fd = None)
    <3>1. client_socket_fd = None => pc \notin Serving
      BY DEF Placed
    <3> QED BY <1>4, <2>2, <3>1, KeptExit DEF Interrupted
  <2> QED BY <1>4, <2>1, <2>2 DEF Interrupted
<1>5. ASSUME NEW c \in Clients, Acts(c) PROVE Kept'
  BY <1>5, KeptActs
<1> QED BY <1>1, <1>2, <1>3, <1>4, <1>5, StepsOfBoth, SignalsInterrupt DEF AnyStep

-----------------------------------------------------------------------------
(* Each step of the service is one of the ledger, or changes nothing of    *)
(* it: adding a file to the statistics counts it, a client that has its    *)
(* answer was told, the end of the server prints the statistics or loses   *)
(* them.                                                                   *)
Told == [c \in Clients |-> IF at[c] = "done" THEN answer[c].count ELSE -1]
Closed == CASE status = "running" -> "no"
            [] status = "printed" -> "printed"
            [] OTHER -> "lost"

(* The ledger sees nothing else of the service.                            *)
LEMMA SameLedger ==
  ASSUME pcc_total' = pcc_total, counted' = counted, Told' = Told, status' = status
  PROVE  UNCHANGED Ledger!vars
BY DEF Ledger!vars, Told

(* It starts empty.                                                        *)
LEMMA LedgerInit == VersionsInit => Ledger!Init
BY DEF VersionsInit, Idle, ZeroTotals, Ledger!Init

(* The end of the server prints the statistics, and then has counted every *)
(* client that has its answer, or loses them.                              *)
LEMMA LedgerExit ==
  ASSUME TypeOK, Placed, Kept, pc # "exited",
         NEW how \in {"printed", "failure", "sigpipe", "killed"}, Exit(how),
         how = "printed" => pc \notin Serving
  PROVE  Ledger!Next
<1>1. status = "running" /\ status' = how
  BY DEF Placed, Exit
<1>2. UNCHANGED <<pcc_total, counted, at, answer>>
  BY DEF Exit, clientVars
<1>3. CASE how # "printed"
  BY <1>1, <1>2, <1>3 DEF Ledger!Next, Ledger!LoseStatistics
<1>4. CASE how = "printed"
  <2>1. \A c \in Clients : at[c] = "done" => c \in counted
    BY <1>1, <1>4 DEF Kept, Answers, Serving
  <2>2. \A c \in Clients :
          (IF at[c] = "done" THEN answer[c].count ELSE -1) # -1 => c \in counted
    BY <2>1
  <2> QED BY <1>1, <1>2, <1>4, <2>2 DEF Ledger!Next, Ledger!PrintStatistics
<1> QED BY <1>3, <1>4

(* Folding the totals of one client into those of all counts its file,     *)
(* once ...                                                                *)
LEMMA LedgerCount ==
  ASSUME TypeOK, Placed, Kept, foldTotals
  PROVE  Ledger!Next
<1> USE DEF foldTotals
<1>1. client \in Clients /\ status = "running" /\ status' = status
  BY DEF TypeOK, Placed, Serving
<1>2. client \notin counted /\ counted' = counted \cup {client}
  BY DEF Kept, Once
<1>3. UNCHANGED <<at, answer>>
  BY DEF clientVars, netVars
<1>4. \A ch \in Printable : temp_pcc_total[ch] = Occurs(FileOf[client], {ch})
  BY DEF Kept, Sums, Counts
<1>5. pcc_total' = [ch \in Printable |->
                      (pcc_total[ch] + Occurs(FileOf[client], {ch})) % 2 ^ WordBits]
  BY <1>4 DEF newTotal
<1> QED BY <1>1, <1>2, <1>3, <1>5 DEF Ledger!Next, Ledger!Count

(* ... a client that has read its whole answer is told the number of       *)
(* printable characters in its own file ...                                *)
LEMMA LedgerTell ==
  ASSUME TypeOK, Placed, Kept, NEW c \in Clients, receive_data(c)
  PROVE  Ledger!Next
<1> USE DEF receive_data
<1>1. /\ at[c] = "waiting" /\ answer[c].bytes = WordBytes
      /\ at' = [at EXCEPT ![c] = "done"]
      /\ UNCHANGED <<pcc_total, counted, answer, status, pc, client>>
  BY DEF serverVars, netVars
<1>2. answer[c].count = Occurs(FileOf[c], Printable)
  BY <1>1, Constants DEF Kept, Answers
<1>3. status = "printed" => c \in counted
  BY <1>1 DEF Kept, Answers, Placed
<1>4. Told' = [Told EXCEPT ![c] = Occurs(FileOf[c], Printable)]
  BY <1>1, <1>2 DEF Told, TypeOK
<1>5. Told[c] = -1
  BY <1>1 DEF Told
<1> QED BY <1>1, <1>3, <1>4, <1>5 DEF Told, Ledger!Next, Ledger!Tell

(* ... and the other steps of the server ...                               *)
LEMMA LedgerServes ==
  ASSUME TypeOK, Placed, Kept, Serves, ~ foldTotals
  PROVE  UNCHANGED Ledger!vars
<1>1. counted' = counted /\ status' = status /\ at' = at
  BY DEF Serves, registerHandler, setup_server, createAndBindTCPServer, sigaction,
         testRunning, accept, acceptFailed, startConnection, receiveFailed,
         receiveBroken, receiveSize, sendCount, receiveContent, sendFailed,
         closeClient, forgetClient, consume, Goto, clientVars
<1>2. pcc_total' = pcc_total
  BY DEF Kept, Sums, Serves, registerHandler, setup_server, createAndBindTCPServer,
         sigaction, testRunning, accept, acceptFailed, startConnection,
         receiveFailed, receiveBroken, receiveSize, sendCount, receiveContent,
         sendFailed, closeClient, forgetClient, consume, Goto
<1>3. \A c \in Clients : at[c] = "done" => answer'[c] = answer[c]
  <2>1. ASSUME NEW k \in 1 .. WordBytes, sendCount(k)
        PROVE  \A c \in Clients : at[c] = "done" => answer'[c] = answer[c]
    <3>1. pc = "reply" /\ client \in Clients
      BY <2>1 DEF sendCount, TypeOK, Placed, Serving
    <3>2. total_sent < WordBytes /\ answer[client].bytes = total_sent
      BY <3>1 DEF Placed, Kept, Once
    <3>3. answer[client].bytes # WordBytes
      BY <3>2, Constants
    <3>4. at[client] # "done"
      BY <3>1, <3>3 DEF Kept, Answers
    <3>5. \A c \in Clients : c # client => answer'[c] = answer[c]
      BY <2>1 DEF sendCount, TypeOK
    <3> QED BY <3>4, <3>5
  <2>2. CASE answer' = answer
    BY <2>2
  <2> QED
    BY <2>1, <2>2
    DEF Serves, registerHandler, setup_server, createAndBindTCPServer, sigaction,
        testRunning, accept, acceptFailed, startConnection, receiveFailed,
        receiveBroken, receiveSize, receiveContent, sendFailed, closeClient,
        forgetClient, consume, Goto, netVars
<1>4. Told' = Told
  BY <1>1, <1>3 DEF Told
<1> QED BY <1>1, <1>2, <1>4, SameLedger

(* ... and of the clients do not show.                                     *)
LEMMA LedgerActs ==
  ASSUME TypeOK, NEW c \in Clients, Acts(c), ~ receive_data(c)
  PROVE  UNCHANGED Ledger!vars
<1>1. UNCHANGED <<pcc_total, counted, status, answer>>
  BY DEF Acts, connect, connectRefused, sendBytes, sendFileSizeAndContent, sendUpTo,
         clientFails, readFails, cutOff, truncate, serverVars, netVars
<1>2. \A d \in Clients : at'[d] = "done" <=> at[d] = "done"
  BY DEF Acts, connect, connectRefused, sendBytes, sendFileSizeAndContent, sendUpTo,
         clientFails, readFails, cutOff, truncate, TypeOK
<1>3. Told' = Told
  BY <1>1, <1>2 DEF Told
<1> QED BY <1>1, <1>3, SameLedger

(* Together: every step of the service is one of the ledger, or none.      *)
LEMMA LedgerStep ==
  ASSUME TypeOK, Placed, Kept, [VersionsNext]_allVars
  PROVE  [Ledger!Next]_(Ledger!vars)
<1>1. CASE UNCHANGED allVars
  <2>1. UNCHANGED <<pcc_total, counted, at, answer, status>>
    BY <1>1 DEF allVars, vars, serverVars, clientVars, netVars
  <2> QED BY <2>1, SameLedger DEF Told
<1>2. CASE Serves
  BY <1>2, LedgerServes, LedgerCount
<1>3. CASE Ends
  <2>1. /\ pc # "exited"
        /\ \E how \in {"printed", "failure", "sigpipe", "killed"} :
             Exit(how) /\ (how = "printed" => pc = "display")
    BY <1>3, EndsByExit
  <2>2. "display" \notin Serving
    BY DEF Serving
  <2> QED BY <2>1, <2>2, LedgerExit
<1>4. CASE Interrupted
  <2>1. CASE client_socket_fd # None /\ is_server_running' = FALSE
             /\ UNCHANGED <<pc, status, client_socket_fd, client, isOpen, remaining,
                            consumed, temp_pcc_total, printable_count, total_sent,
                            pcc_total, counted, clientVars, netVars>>
    BY <2>1, SameLedger DEF Told, clientVars, netVars
  <2>2. CASE \E how \in {"printed", "failure", "sigpipe", "killed"} :
               Exit(how) /\ (how = "printed" => client_socket_fd = None)
    <3>1. client_socket_fd = None => pc \notin Serving
      BY DEF Placed
    <3> QED BY <1>4, <2>2, <3>1, LedgerExit DEF Interrupted
  <2> QED BY <1>4, <2>1, <2>2 DEF Interrupted
<1>5. ASSUME NEW c \in Clients, Acts(c) PROVE [Ledger!Next]_(Ledger!vars)
  BY <1>5, LedgerActs, LedgerTell
<1> QED BY <1>1, <1>2, <1>3, <1>4, <1>5, StepsOfBoth, SignalsInterrupt DEF AnyStep

(* The service of either version implements the ledger, if no file needs   *)
(* the highest bit of the word that holds its size: every file is counted  *)
(* whole and once, every answer is that of the client's own file, and no   *)
(* client is told a count that the printed statistics leave out.  The run  *)
(* pcc_huge shows what happens to larger files.                            *)
THEOREM ImplementsLedger ==
  ASSUME \A c \in Clients : Len(FileOf[c]) < 2 ^ (WordBits - 1)
  PROVE  VersionsSpec => KeepsLedger
<1>1. ShortFiles
  BY DEF ShortFiles
<1>2. VersionsInit => Kept /\ Ledger!Init
  BY KeptInit, LedgerInit
<1>3. TypeOK /\ Placed /\ Kept /\ [VersionsNext]_allVars => Kept'
  BY <1>1, KeptStep
<1>4. TypeOK /\ Placed /\ Kept /\ [VersionsNext]_allVars => [Ledger!Next]_(Ledger!vars)
  BY LedgerStep
<1>5. VersionsSpec => VersionsInit /\ [][VersionsNext]_allVars
  BY PTL DEF VersionsSpec
<1> QED BY <1>2, <1>3, <1>4, <1>5, BaseHolds, PTL DEF KeepsLedger, Ledger!Spec

=============================================================================
