--------------------------- MODULE Project1Proofs ---------------------------
(***************************************************************************)
(* Theorems about the programs of project1.  EncServer, for every set of   *)
(* clients and descriptors and every number of slots.  PsTree, for every   *)
(* tree of processes.                                                      *)
(***************************************************************************)
EXTENDS EncServer, PsTree, Integers, RunListProofs

-----------------------------------------------------------------------------
(* Types, and what a thread may rely on wherever it is *)

Points == {"none", "start", "close", "done"} \cup FirstLoop \cup SecondLoop

\* The thread has a message that it has not answered.
Holding == {"enter", "refuse", "first", "answer"}

Types ==
    /\ environment \in Environments
    /\ backlog \in Seq(Clients)
    /\ main \in {"accept", "create", "exit"}
    /\ newsockfd \in Fds \cup {0}
    /\ fdTable \in [Fds -> Clients \cup {NoClient}]
    /\ thread \in [Clients -> Points]
    /\ sockfd \in [Clients -> Fds \cup {0}]
    /\ file \in [Clients -> Clients \cup {NoClient}]
    /\ buffer \in [Clients -> Message \cup {NoMessage}]
    /\ client \in [Clients -> {"off", "typing", "waiting", "gone"}]
    /\ sent \in [Clients -> 0 .. MaxMessages]
    /\ toServer \in [Clients -> Seq(Message)]
    /\ toClient \in [Clients -> Seq(Answer)]

\* A variable has been set when it is used.
Assigned ==
    /\ main = "create" => newsockfd \in Fds /\ backlog # <<>>
    /\ \A t \in Clients :
        /\ thread[t] = "start" => newsockfd \in Fds
        /\ thread[t] \notin {"none", "start"} => sockfd[t] \in Fds
        /\ thread[t] \in {"recv", "recv_more"} => file[t] \in Clients
        /\ thread[t] \in Holding => buffer[t] \in Message

\* The counter covers the threads of the second loop.
SlotInv ==
    /\ IsFiniteSet(Serving)
    /\ clientCnt \in 0 .. Slots
    /\ Cardinality(Serving) <= clientCnt

-----------------------------------------------------------------------------
(* With connections no faster than threads *)

\* One connection at a time is on its way from connect to ReadArgument.
OneInFlight ==
    /\ backlog = <<>> \/ \E c \in Clients : backlog = <<c>>
    /\ \A c \in Clients : backlog = <<c>> =>
        /\ client[c] # "off" /\ thread[c] = "none"
        /\ \A t \in Clients : thread[t] # "start"
        /\ main = "create" => fdTable[newsockfd] = c
    /\ \A t \in Clients :
        /\ thread[t] = "start" => main # "create" /\ backlog = <<>> /\ fdTable[newsockfd] = t
        /\ thread[t] # "none" => client[t] # "off"

\* A thread reads from and writes to the connection it was made for.
OwnFiles ==
    \A t \in Clients :
        /\ thread[t] \notin {"none", "start", "done"} => fdTable[sockfd[t]] = t
        /\ file[t] \in {t, NoClient}

ConnInv == "crowd" \notin environment => OneInFlight /\ OwnFiles

\* The last message of a client that waits is in one place: on its way to the
\* server, in the buffer of the thread, or answered.
LastMessage(c) == [from |-> c, num |-> sent[c]]
Unread(c)   == toServer[c] = <<LastMessage(c)>> /\ thread[c] \notin Holding /\ toClient[c] = <<>>
InBuffer(c) == toServer[c] = <<>> /\ thread[c] \in Holding /\ toClient[c] = <<>>
               /\ buffer[c] = LastMessage(c)
Answered(c) == toServer[c] = <<>> /\ thread[c] \notin Holding
               /\ \E a \in Answer : toClient[c] = <<a>> /\ a.to = LastMessage(c)

OneMessage(c) ==
    /\ client[c] \in {"off", "typing"} =>
          toServer[c] = <<>> /\ thread[c] \notin Holding /\ toClient[c] = <<>>
    /\ client[c] = "waiting" => sent[c] # 0 /\ (Unread(c) \/ InBuffer(c) \/ Answered(c))

TokenInv == "crowd" \notin environment => \A c \in Clients : OneMessage(c)

\* A client that left of its own accord, or with the server, leaves no thread
\* with a message to answer behind.
GoneQuietly(c) ==
    client[c] = "gone" =>
        \/ main = "exit"
        \/ thread[c] = "done"
        \/ thread[c] \notin Holding /\ toServer[c] \in {<<>>, <<[from |-> c, num |-> 0]>>}

SlotsExact ==
    environment = {} =>
        /\ \A c \in Clients : GoneQuietly(c)
        /\ clientCnt = Cardinality(Serving)

IInv == Types /\ Assigned /\ SlotInv /\ ConnInv /\ TokenInv /\ SlotsExact

-----------------------------------------------------------------------------
(* Lemmas about the operators of the model *)

\* accept gets a free descriptor.
LEMMA LowestIsFree ==
    ASSUME FreeFds # {}
    PROVE  Min(FreeFds) \in Fds /\ fdTable[Min(FreeFds)] = NoClient
  <1>1. FreeFds \subseteq Nat /\ FreeFds \subseteq Fds
    BY FdAssumption DEF FreeFds
  <1>2. PICK x \in FreeFds : \A y \in FreeFds : ~(<<y, x>> \in OpToRel(<, Nat))
    BY <1>1, NatLessThanWellFounded, WFMin
  <1>3. \A y \in FreeFds : x <= y
    <2> SUFFICES ASSUME NEW y \in FreeFds PROVE x <= y
      OBVIOUS
    <2>1. x \in Nat /\ y \in Nat /\ ~(y < x)
      BY <1>1, <1>2 DEF OpToRel
    <2> QED BY <2>1
  <1>4. Min(FreeFds) \in FreeFds
    BY <1>2, <1>3 DEF Min
  <1> QED BY <1>4 DEF FreeFds

\* What a move of one thread does to the set of those that serve.
LEMMA ServingStep ==
    ASSUME NEW t \in Clients, NEW to, thread \in [Clients -> Points],
           thread' = [thread EXCEPT ![t] = to], IsFiniteSet(Serving)
    PROVE  /\ IsFiniteSet(Serving') /\ Cardinality(Serving) \in Nat /\ Cardinality(Serving') \in Nat
           /\ to \in SecondLoop /\ thread[t] \notin SecondLoop
                => Cardinality(Serving') = Cardinality(Serving) + 1
           /\ to \notin SecondLoop /\ thread[t] \in SecondLoop
                => Cardinality(Serving') = Cardinality(Serving) - 1
           /\ (to \in SecondLoop <=> thread[t] \in SecondLoop)
                => Cardinality(Serving') = Cardinality(Serving)
  <1>1. /\ \A r \in Clients : thread'[r] = IF r = t THEN to ELSE thread[r]
        /\ Serving' = {r \in Clients : thread'[r] \in SecondLoop}
        /\ t \in Serving <=> thread[t] \in SecondLoop
    BY DEF Serving
  <1>2. CASE to \in SecondLoop
    <2>1. Serving' = Serving \cup {t}
      BY <1>1, <1>2 DEF Serving
    <2> QED BY <1>1, <1>2, <2>1, FS_AddElement, FS_CardinalityType
  <1>3. CASE to \notin SecondLoop
    <2>1. Serving' = Serving \ {t}
      BY <1>1, <1>3 DEF Serving
    <2>2. /\ IsFiniteSet(Serving')
          /\ Cardinality(Serving') = IF t \in Serving THEN Cardinality(Serving) - 1
                                     ELSE Cardinality(Serving)
      BY <2>1, FS_RemoveElement
    <2>3. Cardinality(Serving) \in Nat /\ Cardinality(Serving') \in Nat
      BY <2>2, FS_CardinalityType
    <2> QED BY <1>1, <1>3, <2>2, <2>3
  <1> QED BY <1>2, <1>3

\* A list of one message, and none.
LEMMA OneElement ==
    ASSUME NEW S, NEW e \in S
    PROVE  /\ Append(<<>>, e) = <<e>> /\ Head(<<e>>) = e /\ Tail(<<e>>) = <<>>
           /\ <<e>> # <<>> /\ <<e>> \in Seq(S) /\ <<>> \in Seq(S)
           /\ DOMAIN <<e>> = {1} /\ <<e>>[1] = e
           /\ \A f : <<f>> = <<e>> => f = e
  <1>1. Append(<<>>, e) = <<e>> /\ <<e>> \in Seq(S) /\ <<>> \in Seq(S) /\ <<e>> # <<>>
    OBVIOUS
  <1>2. Head(<<e>>) = e /\ Tail(<<e>>) = <<>>
    BY <1>1, HeadTailAppend
  <1>3. DOMAIN <<e>> = {1} /\ <<e>>[1] = e
    OBVIOUS
  <1> QED BY <1>1, <1>2, <1>3

-----------------------------------------------------------------------------
(* Types and slots, whatever the clients do *)

\* What one step of thread t does to where it is.
LEMMA ServeMoves ==
    ASSUME Types, NEW t \in Clients, Serve(t)
    PROVE  /\ main # "exit" /\ thread[t] \notin {"none", "done"}
           /\ UNCHANGED <<environment, backlog, main, newsockfd, client, sent>>
           /\ thread' = [thread EXCEPT ![t] = thread'[t]]
           /\ thread'[t] \in Points \ {"none", "start"}
  <1>1. /\ main # "exit"
        /\ \/ ReadArgument(t) \/ Read(t) \/ Recv(t) \/ Enter(t)
           \/ Write(t) \/ WriteFails(t) \/ Leave(t) \/ Close(t)
    BY DEF Serve
  <1>2. /\ thread[t] \notin {"none", "done"}
        /\ UNCHANGED <<environment, backlog, main, newsockfd, client, sent>>
    BY <1>1 DEF ReadArgument, Read, Recv, Enter, Write, WriteFails, Leave, Close, Goto, mainVars,
                clientVars
  <1> DEFINE Ahead == {"read", "recv", "enter", "refuse", "first", "read_more", "recv_more",
                       "answer", "leave", "close", "done"}
             Moved(to) == to \in Ahead /\ thread' = [thread EXCEPT ![t] = to]
             Progress == /\ thread' = [thread EXCEPT ![t] = thread'[t]]
                         /\ thread'[t] \in Points \ {"none", "start"}
  <1>3. \A to : Moved(to) => Progress
    <2>1. Ahead \subseteq Points \ {"none", "start"}
      BY DEF Points, FirstLoop, SecondLoop
    <2>2. thread \in [Clients -> Points]
      BY DEF Types
    <2> HIDE DEF Ahead
    <2> QED BY <2>1, <2>2
  <1>4. CASE ReadArgument(t) \/ Leave(t) \/ Close(t)
    <2>1. Moved("read") \/ Moved("close") \/ Moved("done")
      BY <1>4 DEF ReadArgument, Leave, Close, Goto
    <2> HIDE DEF Moved
    <2> QED BY <1>1, <1>2, <1>3, <2>1
  <1>5. CASE Read(t)
    <2>1. Moved("leave") \/ Moved("close") \/ Moved("recv") \/ Moved("recv_more")
      BY <1>5 DEF Read, Leaving
    <2> HIDE DEF Moved
    <2> QED BY <1>1, <1>2, <1>3, <2>1
  <1>6. CASE Recv(t)
    <2>1. Moved("leave") \/ Moved("close") \/ Moved("enter") \/ Moved("answer")
      BY <1>6 DEF Recv, Goto, Leaving, AfterMessage
    <2> HIDE DEF Moved
    <2> QED BY <1>1, <1>2, <1>3, <2>1
  <1>7. CASE Enter(t)
    <2>1. Moved("first") \/ Moved("refuse")
      BY <1>7 DEF Enter, Goto
    <2> HIDE DEF Moved
    <2> QED BY <1>1, <1>2, <1>3, <2>1
  <1>8. CASE Write(t)
    <2>1. Moved("read") \/ Moved("read_more")
      BY <1>8 DEF Write
    <2> HIDE DEF Moved
    <2> QED BY <1>1, <1>2, <1>3, <2>1
  <1>9. CASE WriteFails(t)
    <2>1. Moved("leave") \/ Moved("close")
      BY <1>9 DEF WriteFails
    <2> HIDE DEF Moved
    <2> QED BY <1>1, <1>2, <1>3, <2>1
  <1> QED BY <1>1, <1>2, <1>4, <1>5, <1>6, <1>7, <1>8, <1>9

\* The process ends and leaves everything as it is.
Ends == CreateFails \/ \E t \in Clients : BrokenPipe(t)

LEMMA EndsMoves ==
    ASSUME Ends
    PROVE  /\ main' = "exit"
           /\ UNCHANGED <<environment, backlog, newsockfd, fdTable, clientCnt, thread, sockfd, file,
                          buffer, client, sent, toServer, toClient>>
  BY DEF Ends, CreateFails, BrokenPipe, threadVars, clientVars

LEMMA TypesInit == Init => Types /\ Assigned
  <1> SUFFICES ASSUME Init PROVE Types /\ Assigned
    OBVIOUS
  <1>1. <<>> \in Seq(Clients) /\ <<>> \in Seq(Message) /\ <<>> \in Seq(Answer)
    OBVIOUS
  <1>2. 0 \in 0 .. MaxMessages
    BY SlotAssumption
  <1>3. Types
    BY <1>1, <1>2 DEF Init, Types, Points
  <1>4. Assigned
    BY DEF Init, Assigned, Holding
  <1> QED BY <1>3, <1>4

LEMMA TypesNext ==
    ASSUME Types, Assigned, [Next]_vars
    PROVE  Types'
  <1>1. CASE UNCHANGED vars
    BY <1>1 DEF vars, mainVars, threadVars, clientVars, Types
  <1>2. CASE Accept
    <2>1. /\ UNCHANGED <<environment, clientCnt, threadVars, clientVars, toClient>>
          /\ backlog # <<>> /\ backlog' = backlog /\ main' \in {"accept", "create", "exit"}
          /\ \/ UNCHANGED <<newsockfd, fdTable>>
             \/ /\ FreeFds # {} /\ newsockfd' = Min(FreeFds)
                /\ fdTable' = [fdTable EXCEPT ![newsockfd'] = Head(backlog)]
      BY <1>2 DEF Accept
    <2>2. newsockfd' \in Fds \cup {0} /\ fdTable' \in [Fds -> Clients \cup {NoClient}]
      <3>1. Head(backlog) \in Clients
        BY <2>1, HeadTailProperties DEF Types
      <3> QED BY <2>1, <3>1, LowestIsFree DEF Types
    <2> QED BY <2>1, <2>2 DEF Types, threadVars, clientVars
  <1>3. CASE Create
    <2>1. /\ UNCHANGED <<environment, newsockfd, fdTable, clientCnt, sockfd, file, buffer,
                         clientVars, toClient>>
          /\ backlog # <<>> /\ backlog' = Tail(backlog) /\ main' = "accept"
          /\ thread' = [thread EXCEPT ![Head(backlog)] = "start"]
      BY <1>3 DEF Create, Assigned
    <2>2. Head(backlog) \in Clients /\ Tail(backlog) \in Seq(Clients)
      BY <2>1, HeadTailProperties DEF Types
    <2>3. thread' \in [Clients -> Points]
      BY <2>1, <2>2 DEF Types, Points
    <2> QED BY <2>1, <2>2, <2>3 DEF Types, clientVars
  <1>4. ASSUME NEW t \in Clients, Serve(t) PROVE Types'
    <2>1. /\ UNCHANGED <<environment, backlog, main, newsockfd, client, sent>>
          /\ thread' \in [Clients -> Points]
      BY <1>4, ServeMoves DEF Types
    <2>2. CASE ReadArgument(t) \/ Enter(t) \/ Leave(t) \/ WriteFails(t) \/ Close(t)
      <3>1. /\ UNCHANGED <<file, buffer, toServer, toClient>>
            /\ sockfd' \in {sockfd, [sockfd EXCEPT ![t] = newsockfd]}
            /\ fdTable' \in {fdTable, [fdTable EXCEPT ![sockfd[t]] = NoClient]}
        BY <2>2 DEF ReadArgument, Enter, Leave, WriteFails, Close, clientVars
      <3>2. sockfd' \in [Clients -> Fds \cup {0}]
        BY <3>1 DEF Types
      <3>3. fdTable' \in [Fds -> Clients \cup {NoClient}]
        BY <3>1 DEF Types
      <3> QED BY <2>1, <3>1, <3>2, <3>3 DEF Types
    <2>3. CASE Read(t)
      <3>1. /\ UNCHANGED <<fdTable, sockfd, buffer, toServer, toClient>>
            /\ thread[t] \in {"read", "read_more"}
            /\ file' = [file EXCEPT ![t] = fdTable[sockfd[t]]]
        BY <2>3 DEF Read, clientVars
      <3>2. file' \in [Clients -> Clients \cup {NoClient}]
        BY <3>1 DEF Types, Assigned
      <3> QED BY <2>1, <3>1, <3>2 DEF Types
    <2>4. CASE Recv(t)
      <3>1. /\ UNCHANGED <<fdTable, sockfd, toClient>>
            /\ thread[t] \in {"recv", "recv_more"}
            /\ file' = [file EXCEPT ![t] = NoClient]
            /\ \/ toServer' = toServer /\ buffer' = buffer
               \/ /\ toServer[file[t]] # <<>>
                  /\ toServer' = [toServer EXCEPT ![file[t]] = Tail(toServer[file[t]])]
                  /\ \/ buffer' = buffer
                     \/ buffer' = [buffer EXCEPT ![t] = Head(toServer[file[t]])]
        BY <2>4 DEF Recv, Fill
      <3>2. file[t] \in Clients /\ toServer[file[t]] \in Seq(Message)
        BY <3>1 DEF Assigned, Types
      <3>3. file' \in [Clients -> Clients \cup {NoClient}]
        BY <3>1 DEF Types
      <3>4. toServer[file[t]] # <<>> => /\ Head(toServer[file[t]]) \in Message
                                        /\ Tail(toServer[file[t]]) \in Seq(Message)
        BY <3>2, HeadTailProperties
      <3>5. toServer' \in [Clients -> Seq(Message)]
        BY <3>1, <3>2, <3>4 DEF Types
      <3>6. buffer' \in [Clients -> Message \cup {NoMessage}]
        BY <3>1, <3>4 DEF Types
      <3> QED BY <2>1, <3>1, <3>3, <3>5, <3>6 DEF Types
    <2>5. CASE Write(t)
      <3> DEFINE c == fdTable[sockfd[t]]
      <3>1. /\ UNCHANGED <<fdTable, sockfd, file, buffer, toServer>>
            /\ thread[t] \in {"first", "refuse", "answer"} /\ c # NoClient
            /\ \/ toClient' = [toClient EXCEPT ![c] = toClient[c]]
               \/ toClient' = [toClient EXCEPT ![c] = Append(toClient[c], AnswerOf(t))]
        BY <2>5 DEF Write, clientVars
      <3>2. c \in Clients /\ buffer[t] \in Message
        BY <3>1 DEF Types, Assigned, Holding
      <3>3. AnswerOf(t) \in Answer
        BY <3>2 DEF AnswerOf, Answer
      <3> HIDE DEF c
      <3>4. Append(toClient[c], AnswerOf(t)) \in Seq(Answer)
        BY <3>2, <3>3, AppendProperties DEF Types
      <3>5. toClient' \in [Clients -> Seq(Answer)]
        BY <3>1, <3>2, <3>4 DEF Types
      <3> QED BY <2>1, <3>1, <3>5 DEF Types
    <2> QED BY <1>4, <2>2, <2>3, <2>4, <2>5 DEF Serve
  <1>5. ASSUME NEW c \in Clients, Connect(c) \/ Kill(c) PROVE Types'
    <2>1. /\ UNCHANGED <<environment, main, newsockfd, fdTable, clientCnt, threadVars, sent,
                         toServer, toClient>>
          /\ \E st \in {"typing", "gone"} : client' = [client EXCEPT ![c] = st]
          /\ backlog' \in {backlog, Append(backlog, c)}
      BY <1>5 DEF Connect, Kill, mainVars
    <2>2. backlog' \in Seq(Clients)
      <3>1. Append(backlog, c) \in Seq(Clients)
        BY AppendProperties DEF Types
      <3> QED BY <2>1, <3>1 DEF Types
    <2> QED BY <2>1, <2>2 DEF Types, threadVars
  <1>6. ASSUME NEW c \in Clients, Send(c) PROVE Types'
    <2> DEFINE m == [from |-> c, num |-> sent'[c]]
    <2>1. /\ UNCHANGED <<mainVars, fdTable, clientCnt, threadVars, toClient>>
          /\ sent[c] < MaxMessages /\ sent' = [sent EXCEPT ![c] = sent[c] + 1]
          /\ \E st \in {"waiting", "gone"} : client' = [client EXCEPT ![c] = st]
          /\ toServer' \in {toServer, [toServer EXCEPT ![c] = Append(toServer[c], m)]}
      BY <1>6 DEF Send
    <2>2. sent' \in [Clients -> 0 .. MaxMessages]
      <3>1. sent[c] + 1 \in 0 .. MaxMessages
        BY <2>1, SlotAssumption DEF Types
      <3> QED BY <2>1, <3>1 DEF Types
    <2>3. m \in Message
      BY <2>2 DEF Message
    <2> HIDE DEF m
    <2>4. toServer' \in [Clients -> Seq(Message)]
      <3>1. Append(toServer[c], m) \in Seq(Message)
        BY <2>3, AppendProperties DEF Types
      <3> QED BY <2>1, <3>1 DEF Types
    <2> QED BY <2>1, <2>2, <2>4 DEF Types, threadVars, mainVars
  <1>7. ASSUME NEW c \in Clients, Quit(c) PROVE Types'
    <2> DEFINE m == [from |-> c, num |-> 0]
    <2>1. /\ UNCHANGED <<mainVars, fdTable, clientCnt, threadVars, sent, toClient>>
          /\ client' = [client EXCEPT ![c] = "gone"]
          /\ toServer' = [toServer EXCEPT ![c] = Append(toServer[c], m)]
      BY <1>7 DEF Quit
    <2>2. m \in Message
      BY SlotAssumption DEF Message
    <2> HIDE DEF m
    <2>3. toServer' \in [Clients -> Seq(Message)]
      <3>1. Append(toServer[c], m) \in Seq(Message)
        BY <2>2, AppendProperties DEF Types
      <3> QED BY <2>1, <3>1 DEF Types
    <2> QED BY <2>1, <2>3 DEF Types, threadVars, mainVars
  <1>8. ASSUME NEW c \in Clients, Receive(c) PROVE Types'
    <2>1. /\ UNCHANGED <<mainVars, fdTable, clientCnt, threadVars, sent, toServer>>
          /\ \E st \in {"typing", "gone"} : client' = [client EXCEPT ![c] = st]
          /\ \/ toClient' = toClient
             \/ toClient[c] # <<>> /\ toClient' = [toClient EXCEPT ![c] = Tail(toClient[c])]
      BY <1>8 DEF Receive
    <2>2. toClient' \in [Clients -> Seq(Answer)]
      <3>1. toClient[c] # <<>> => Tail(toClient[c]) \in Seq(Answer)
        BY HeadTailProperties DEF Types
      <3> QED BY <2>1, <3>1 DEF Types
    <2> QED BY <2>1, <2>2 DEF Types, threadVars, mainVars
  <1>9. CASE Ends
    BY <1>9, EndsMoves DEF Types
  <1> QED BY <1>1, <1>2, <1>3, <1>4, <1>5, <1>6, <1>7, <1>8, <1>9 DEF Next, Ends

\* A client changes neither the threads nor the descriptors.
ClientStep(c) == Connect(c) \/ Send(c) \/ Quit(c) \/ Receive(c) \/ Kill(c)

LEMMA ClientMoves ==
    ASSUME NEW c \in Clients, ClientStep(c)
    PROVE  /\ UNCHANGED <<environment, main, newsockfd, fdTable, clientCnt, thread, sockfd, file,
                          buffer>>
           /\ backlog' = backlog \/ Connect(c)
  BY DEF ClientStep, Connect, Send, Quit, Receive, Kill, threadVars, mainVars

LEMMA AssignedNext ==
    ASSUME Types, Assigned, [Next]_vars
    PROVE  Assigned'
  <1>1. /\ thread \in [Clients -> Points] /\ sockfd \in [Clients -> Fds \cup {0}]
        /\ file \in [Clients -> Clients \cup {NoClient}]
        /\ buffer \in [Clients -> Message \cup {NoMessage}]
    BY DEF Types
  <1>2. CASE UNCHANGED vars
    BY <1>2 DEF vars, mainVars, threadVars, Assigned
  <1>3. CASE Accept
    <2>1. /\ UNCHANGED <<thread, sockfd, file, buffer>>
          /\ backlog # <<>> /\ backlog' = backlog
          /\ \/ main' = "exit" /\ newsockfd' = newsockfd
             \/ FreeFds # {} /\ newsockfd' = Min(FreeFds)
      BY <1>3 DEF Accept, threadVars
    <2>2. (newsockfd' = newsockfd /\ main' = "exit") \/ newsockfd' \in Fds
      BY <2>1, LowestIsFree
    <2> QED BY <2>1, <2>2 DEF Assigned
  <1>4. CASE Create
    <2>1. /\ UNCHANGED <<newsockfd, sockfd, file, buffer>> /\ newsockfd \in Fds
          /\ main' = "accept" /\ thread' = [thread EXCEPT ![Head(backlog)] = "start"]
      BY <1>4 DEF Create, Assigned
    <2>2. \A t \in Clients : thread'[t] \in {thread[t], "start"}
      BY <1>1, <2>1
    <2> QED BY <2>1, <2>2 DEF Assigned, Holding
  <1>5. ASSUME NEW t \in Clients, Serve(t) PROVE Assigned'
    <2>1. UNCHANGED <<main, newsockfd, backlog>> /\ thread[t] # "none"
      BY <1>5, ServeMoves
    <2>2. \A r \in Clients \ {t} : thread'[r] = thread[r] /\ sockfd'[r] = sockfd[r]
                                   /\ file'[r] = file[r] /\ buffer'[r] = buffer[r]
      <3>1. \A r \in Clients \ {t} : thread'[r] = thread[r]
        <4>1. thread' = [thread EXCEPT ![t] = thread'[t]]
          BY <1>5, ServeMoves
        <4> QED BY <1>1, <4>1
      <3>2. /\ \E x : sockfd' = [sockfd EXCEPT ![t] = x]
            /\ \E x : file' = [file EXCEPT ![t] = x]
            /\ \E x : buffer' = [buffer EXCEPT ![t] = x]
        <4>1. /\ sockfd' = sockfd \/ sockfd' = [sockfd EXCEPT ![t] = newsockfd]
              /\ \/ file' = file
                 \/ file' = [file EXCEPT ![t] = fdTable[sockfd[t]]]
                 \/ file' = [file EXCEPT ![t] = NoClient]
              /\ \/ buffer' = buffer
                 \/ buffer' = [buffer EXCEPT ![t] = Head(toServer[file[t]])]
          BY <1>5 DEF Serve, ReadArgument, Read, Recv, Enter, Write, WriteFails, Leave, Close,
                      Fill
        <4>2. /\ sockfd = [sockfd EXCEPT ![t] = sockfd[t]] /\ file = [file EXCEPT ![t] = file[t]]
              /\ buffer = [buffer EXCEPT ![t] = buffer[t]]
          BY <1>1
        <4> QED BY <4>1, <4>2
      <3> QED BY <3>1, <3>2
    <2>3. thread'[t] \notin {"none", "start"}
      BY <1>5, ServeMoves
    <2>4. sockfd'[t] \in Fds
      <3>1. CASE ReadArgument(t)
        BY <1>1, <3>1 DEF ReadArgument, Goto, Assigned
      <3>2. CASE ~ReadArgument(t)
        <4>1. sockfd' = sockfd /\ thread[t] # "start"
          BY <1>5, <3>2 DEF Serve, Read, Recv, Enter, Write, WriteFails, Leave, Close, Goto
        <4> QED BY <2>1, <4>1 DEF Assigned
      <3> QED BY <3>1, <3>2
    <2>5. thread'[t] \in {"recv", "recv_more"} => file'[t] \in Clients
      <3>1. CASE Read(t)
        <4>1. /\ file' \in [Clients -> Clients \cup {NoClient}]
              /\ file'[t] = NoClient => thread' = [thread EXCEPT ![t] = Leaving(t)]
          BY <3>1, TypesNext DEF Read, Types
        <4> QED BY <1>1, <4>1 DEF Leaving
      <3>2. CASE ~Read(t)
        <4>1. \E to \in {"read", "close", "done", "enter", "answer", "leave", "first", "refuse",
                         "read_more"} : thread' = [thread EXCEPT ![t] = to]
          BY <1>5, <3>2 DEF Serve, ReadArgument, Recv, Enter, Write, WriteFails, Leave, Close,
                            Goto, Leaving, AfterMessage
        <4> QED BY <1>1, <4>1
      <3> QED BY <3>1, <3>2
    <2>6. thread'[t] \in Holding => buffer'[t] \in Message
      <3>1. CASE Recv(t)
        <4>1. /\ thread[t] \in {"recv", "recv_more"}
              /\ \/ thread' = [thread EXCEPT ![t] = Leaving(t)]
                 \/ /\ toServer[file[t]] # <<>>
                    /\ buffer' = [buffer EXCEPT ![t] = Head(toServer[file[t]])]
          BY <3>1 DEF Recv, Goto, Fill
        <4>2. toServer[file[t]] \in Seq(Message)
          BY <4>1 DEF Assigned, Types
        <4>3. toServer[file[t]] # <<>> => Head(toServer[file[t]]) \in Message
          BY <4>2, HeadTailProperties
        <4> QED BY <1>1, <4>1, <4>3 DEF Leaving, Holding
      <3>2. CASE Enter(t)
        BY <1>1, <3>2 DEF Enter, Goto, Assigned, Holding
      <3>3. CASE ~Recv(t) /\ ~Enter(t)
        <4>1. \E to \in {"read", "close", "done", "leave", "recv", "recv_more",
                         "read_more"} : thread' = [thread EXCEPT ![t] = to]
          BY <1>5, <3>3 DEF Serve, ReadArgument, Read, Write, WriteFails, Leave, Close, Goto,
                            Leaving
        <4> QED BY <1>1, <4>1 DEF Holding
      <3> QED BY <3>1, <3>2, <3>3
    <2> QED BY <2>1, <2>2, <2>3, <2>4, <2>5, <2>6 DEF Assigned
  <1>6. ASSUME NEW c \in Clients, ClientStep(c) PROVE Assigned'
    <2>1. UNCHANGED <<main, newsockfd, thread, sockfd, file, buffer>>
      BY <1>6, ClientMoves
    <2>2. backlog' = backlog \/ backlog' # <<>>
      <3>1. Append(backlog, c) # <<>>
        <4>1. backlog \in Seq(Clients)
          BY DEF Types
        <4> QED BY <4>1, AppendProperties
      <3> QED BY <1>6, <3>1, ClientMoves DEF Connect
    <2> QED BY <2>1, <2>2 DEF Assigned
  <1>7. CASE Ends
    BY <1>7, EndsMoves DEF Assigned
  <1> QED BY <1>2, <1>3, <1>4, <1>5, <1>6, <1>7 DEF Next, Ends, ClientStep

\* Only Enter takes a slot, only Leave gives one back, and a thread that leaves
\* the second loop otherwise (WriteFails) keeps its slot taken.
LEMMA SlotMoves ==
    ASSUME Types, NEW t \in Clients, Serve(t)
    PROVE  \/ /\ HasSlot /\ clientCnt' = clientCnt + 1
              /\ thread[t] \notin SecondLoop /\ thread'[t] \in SecondLoop
           \/ /\ clientCnt' = clientCnt - 1
              /\ thread[t] \in SecondLoop /\ thread'[t] \notin SecondLoop
           \/ /\ clientCnt' = clientCnt
              /\ thread'[t] \in SecondLoop <=> thread[t] \in SecondLoop
           \/ /\ clientCnt' = clientCnt
              /\ thread[t] = "first" /\ thread'[t] = "close" /\ WriteFails(t)
  <1>1. thread \in [Clients -> Points]
    BY DEF Types
  <1>2. CASE Enter(t)
    BY <1>1, <1>2 DEF Enter, Goto, SecondLoop
  <1>3. CASE Leave(t)
    BY <1>1, <1>3 DEF Leave, Goto, SecondLoop
  <1>4. CASE ReadArgument(t) \/ Close(t)
    BY <1>1, <1>4 DEF ReadArgument, Close, Goto, SecondLoop
  <1>5. CASE Read(t)
    BY <1>1, <1>5 DEF Read, Leaving, SecondLoop
  <1>6. CASE Recv(t)
    <2>1. /\ clientCnt' = clientCnt /\ thread[t] \in {"recv", "recv_more"}
          /\ \/ thread' = [thread EXCEPT ![t] = Leaving(t)]
             \/ thread' = [thread EXCEPT ![t] = AfterMessage(t)]
      BY <1>6 DEF Recv, Goto
    <2> QED BY <1>1, <2>1 DEF Leaving, AfterMessage, SecondLoop
  <1>7. CASE Write(t)
    BY <1>1, <1>7 DEF Write, SecondLoop
  <1>8. CASE WriteFails(t)
    BY <1>1, <1>8 DEF WriteFails, SecondLoop
  <1> QED BY <1>2, <1>3, <1>4, <1>5, <1>6, <1>7, <1>8 DEF Serve

LEMMA SlotInit == Init => SlotInv
  <1> SUFFICES ASSUME Init PROVE SlotInv
    OBVIOUS
  <1>1. Serving = {} /\ clientCnt = 0
    BY DEF Init, Serving, SecondLoop
  <1> QED BY <1>1, FS_EmptySet, SlotAssumption DEF SlotInv

LEMMA SlotNext ==
    ASSUME Types, Assigned, SlotInv, [Next]_vars
    PROVE  SlotInv'
  <1>1. /\ thread \in [Clients -> Points] /\ Slots \in Nat /\ IsFiniteSet(Serving)
        /\ clientCnt \in 0 .. Slots /\ Cardinality(Serving) <= clientCnt
    BY SlotAssumption DEF Types, SlotInv
  <1>2. CASE UNCHANGED <<thread, clientCnt>>
    BY <1>1, <1>2 DEF SlotInv, Serving
  <1>3. CASE Create
    <2>1. /\ clientCnt' = clientCnt /\ thread' = [thread EXCEPT ![Head(backlog)] = "start"]
          /\ Head(backlog) \in Clients
      BY <1>3, HeadTailProperties DEF Create, Assigned, Types
    <2>2. /\ IsFiniteSet(Serving')
          /\ Cardinality(Serving') \in Nat /\ Cardinality(Serving) \in Nat
          /\ "start" \notin SecondLoop /\ thread[Head(backlog)] \in SecondLoop
                => Cardinality(Serving') = Cardinality(Serving) - 1
          /\ ("start" \in SecondLoop <=> thread[Head(backlog)] \in SecondLoop)
                => Cardinality(Serving') = Cardinality(Serving)
      BY <1>1, <2>1, ServingStep, Zenon
    <2>3. "start" \notin SecondLoop
      BY DEF SecondLoop
    <2> QED BY <1>1, <2>1, <2>2, <2>3 DEF SlotInv
  <1>4. ASSUME NEW t \in Clients, Serve(t) PROVE SlotInv'
    <2>1. thread' = [thread EXCEPT ![t] = thread'[t]]
      BY <1>4, ServeMoves
    <2>2. /\ IsFiniteSet(Serving') /\ Cardinality(Serving) \in Nat /\ Cardinality(Serving') \in Nat
          /\ thread'[t] \in SecondLoop /\ thread[t] \notin SecondLoop
                => Cardinality(Serving') = Cardinality(Serving) + 1
          /\ thread'[t] \notin SecondLoop /\ thread[t] \in SecondLoop
                => Cardinality(Serving') = Cardinality(Serving) - 1
          /\ (thread'[t] \in SecondLoop <=> thread[t] \in SecondLoop)
                => Cardinality(Serving') = Cardinality(Serving)
      BY <1>1, <2>1, ServingStep, Zenon
    <2>3. /\ clientCnt' \in 0 .. Slots /\ Cardinality(Serving') <= clientCnt'
      BY <1>1, <1>4, <2>2, SlotMoves DEF HasSlot, SecondLoop
    <2> QED BY <2>2, <2>3 DEF SlotInv
  <1>5. ASSUME NEW c \in Clients, ClientStep(c) PROVE SlotInv'
    BY <1>2, <1>5, ClientMoves
  <1>6. CASE Accept \/ UNCHANGED vars
    BY <1>2, <1>6 DEF Accept, vars, threadVars
  <1>7. CASE Ends
    BY <1>2, <1>7, EndsMoves
  <1> QED BY <1>3, <1>4, <1>5, <1>6, <1>7 DEF Next, Ends, ClientStep

\* Every variable keeps its type.
THEOREM TypeCorrect == Spec => []TypeOK
  <1>1. Init => Types /\ Assigned /\ SlotInv
    BY TypesInit, SlotInit
  <1>2. Types /\ Assigned /\ SlotInv /\ [Next]_vars => (Types /\ Assigned /\ SlotInv)'
    BY TypesNext, AssignedNext, SlotNext
  <1>3. Types /\ SlotInv => TypeOK
    BY DEF Types, SlotInv, TypeOK, Points
  <1> QED BY <1>1, <1>2, <1>3, PTL DEF Spec

\* However connections, descriptors and failing writes get mixed up, every
\* thread of the second loop has a slot of client_cnt, which never exceeds the
\* number of slots.
THEOREM SlotsTheorem == Spec => []SlotsCoverServing
  <1>1. Init => Types /\ Assigned /\ SlotInv
    BY TypesInit, SlotInit
  <1>2. Types /\ Assigned /\ SlotInv /\ [Next]_vars => (Types /\ Assigned /\ SlotInv)'
    BY TypesNext, AssignedNext, SlotNext
  <1>3. SlotInv => SlotsCoverServing
    BY SlotAssumption DEF SlotInv, SlotsCoverServing
  <1> QED BY <1>1, <1>2, <1>3, PTL DEF Spec

-----------------------------------------------------------------------------
(* Connections and descriptors, without a crowd *)

LEMMA ConnInit == Init => ConnInv
  BY DEF Init, ConnInv, OneInFlight, OwnFiles

\* The connection that is on its way, if any.
LEMMA InFlight ==
    ASSUME OneInFlight, backlog # <<>>
    PROVE  \E c \in Clients :
              /\ backlog = <<c>> /\ Head(backlog) = c /\ Tail(backlog) = <<>>
              /\ client[c] # "off" /\ thread[c] = "none"
              /\ \A t \in Clients : thread[t] # "start"
              /\ main = "create" => fdTable[newsockfd] = c
  <1>1. PICK c \in Clients : backlog = <<c>>
    BY DEF OneInFlight
  <1>2. Head(backlog) = c /\ Tail(backlog) = <<>>
    BY <1>1, OneElement
  <1> QED BY <1>1, <1>2 DEF OneInFlight

LEMMA ConnServe ==
    ASSUME Types, Assigned, OneInFlight, OwnFiles, NEW t \in Clients, Serve(t)
    PROVE  OneInFlight' /\ OwnFiles'
  <1>1. /\ thread \in [Clients -> Points] /\ sockfd \in [Clients -> Fds \cup {0}]
        /\ file \in [Clients -> Clients \cup {NoClient}]
        /\ fdTable \in [Fds -> Clients \cup {NoClient}]
        /\ NoClient \notin Clients
    BY ClientAssumption DEF Types
  <1>2. /\ UNCHANGED <<environment, backlog, main, newsockfd, client>>
        /\ thread[t] # "none" /\ thread'[t] \notin {"none", "start"}
        /\ \A r \in Clients \ {t} : thread'[r] = thread[r]
    BY <1>1, ServeMoves
  <1>3. \A c \in Clients : backlog = <<c>> => c # t
    BY <1>2 DEF OneInFlight
  <1>4. /\ newsockfd' = newsockfd
        /\ \A r \in Clients : thread[r] = "start" => newsockfd \in Fds
        /\ main = "create" => newsockfd \in Fds
        /\ \A r \in Clients : thread[r] \notin {"none", "start"} => sockfd[r] \in Fds
    BY <1>2 DEF Assigned
  <1>5. CASE ReadArgument(t)
    <2>1. /\ UNCHANGED <<fdTable, file>> /\ thread[t] = "start"
          /\ sockfd' = [sockfd EXCEPT ![t] = newsockfd]
      BY <1>5 DEF ReadArgument, Goto
    <2>2. OneInFlight'
      BY <1>2, <2>1 DEF OneInFlight
    <2>3. fdTable[newsockfd] = t
      BY <2>1 DEF OneInFlight
    <2>4. OwnFiles'
      BY <1>1, <1>2, <2>1, <2>3 DEF OwnFiles
    <2> QED BY <2>2, <2>4
  <1>6. CASE Close(t)
    <2>1. /\ UNCHANGED <<sockfd, file>> /\ thread[t] = "close" /\ thread'[t] = "done"
          /\ fdTable' = [fdTable EXCEPT ![sockfd[t]] = NoClient]
      BY <1>1, <1>6 DEF Close, Goto
    <2>2. sockfd[t] \in Fds /\ fdTable[sockfd[t]] = t
      BY <1>4, <2>1 DEF OwnFiles
    <2>3. \A f \in Fds : fdTable[f] # t => fdTable'[f] = fdTable[f]
      BY <1>1, <2>1, <2>2
    <2>4. OneInFlight'
      <3>1. \A c \in Clients : backlog = <<c>> /\ main = "create" => fdTable'[newsockfd] = c
        BY <1>3, <1>4, <2>3 DEF OneInFlight
      <3>2. \A r \in Clients : thread'[r] = "start" => thread[r] = "start" /\ r # t
        BY <1>2
      <3>3. \A r \in Clients : thread'[r] = "start" => fdTable'[newsockfd] = r
        BY <1>4, <2>3, <3>2 DEF OneInFlight
      <3>4. \A r \in Clients : thread[r] = "none" => thread'[r] = "none"
        BY <1>2
      <3>5. \A r \in Clients : thread'[r] # "none" => thread[r] # "none"
        BY <1>2
      <3> QED BY <1>2, <3>1, <3>2, <3>3, <3>4, <3>5 DEF OneInFlight
    <2>5. OwnFiles'
      <3> SUFFICES ASSUME NEW r \in Clients
                   PROVE  /\ thread'[r] \notin {"none", "start", "done"}
                                => fdTable'[sockfd'[r]] = r
                          /\ file'[r] \in {r, NoClient}
        BY DEF OwnFiles
      <3>1. CASE r = t
        BY <2>1, <3>1 DEF OwnFiles
      <3>2. CASE r # t
        BY <1>2, <1>4, <2>1, <2>3, <3>2 DEF OwnFiles
      <3> QED BY <3>1, <3>2
    <2> QED BY <2>4, <2>5
  <1>7. CASE Read(t) \/ Recv(t) \/ Enter(t) \/ Write(t) \/ WriteFails(t) \/ Leave(t)
    <2>1. UNCHANGED <<fdTable, sockfd>> /\ thread[t] \notin {"none", "start", "done"}
      BY <1>7 DEF Read, Recv, Enter, Write, WriteFails, Leave, Goto
    <2>2. OneInFlight'
      BY <1>2, <2>1 DEF OneInFlight
    <2>3. fdTable[sockfd[t]] = t
      BY <2>1 DEF OwnFiles
    <2>4. \/ file' = file \/ file' = [file EXCEPT ![t] = t]
          \/ file' = [file EXCEPT ![t] = NoClient]
      BY <1>7, <2>3 DEF Read, Recv, Enter, Write, WriteFails, Leave
    <2>5. \A r \in Clients : file'[r] \in {r, NoClient}
      BY <1>1, <2>4 DEF OwnFiles
    <2>6. OwnFiles'
      BY <1>2, <2>1, <2>3, <2>5 DEF OwnFiles
    <2> QED BY <2>2, <2>6
  <1> QED BY <1>5, <1>6, <1>7 DEF Serve

LEMMA ConnNext ==
    ASSUME Types, Assigned, ConnInv, [Next]_vars
    PROVE  ConnInv'
  <1>1. environment' = environment
    BY ServeMoves, ClientMoves, EndsMoves DEF Next, Ends, Accept, Create, ClientStep, vars, mainVars
  <1> SUFFICES ASSUME "crowd" \notin environment PROVE OneInFlight' /\ OwnFiles'
    BY <1>1 DEF ConnInv
  <1>2. OneInFlight /\ OwnFiles
    BY DEF ConnInv
  <1>3. /\ thread \in [Clients -> Points] /\ client \in [Clients -> {"off", "typing", "waiting", "gone"}]
        /\ fdTable \in [Fds -> Clients \cup {NoClient}]
        /\ NoClient \notin Clients
        /\ \A r \in Clients : thread[r] \notin {"none", "start"} => sockfd[r] \in Fds
    BY ClientAssumption DEF Types, Assigned
  <1>4. CASE UNCHANGED vars
    BY <1>2, <1>4 DEF vars, mainVars, threadVars, clientVars, OneInFlight, OwnFiles
  <1>5. CASE Accept
    <2>1. /\ UNCHANGED <<thread, sockfd, file, client>> /\ backlog # <<>> /\ backlog' = backlog
          /\ \/ main' = "exit" /\ UNCHANGED <<newsockfd, fdTable>>
             \/ /\ FreeFds # {} /\ newsockfd' = Min(FreeFds)
                /\ fdTable' = [fdTable EXCEPT ![newsockfd'] = Head(backlog)]
      BY <1>5 DEF Accept, threadVars, clientVars
    <2>2. PICK c \in Clients : /\ backlog = <<c>> /\ Head(backlog) = c
                               /\ client[c] # "off" /\ thread[c] = "none"
                               /\ \A t \in Clients : thread[t] # "start"
      BY <1>2, <2>1, InFlight
    <2>3. \A b \in Clients : backlog = <<b>> => b = c
      BY <2>2, OneElement
    <2>4. CASE main' = "exit" /\ UNCHANGED <<newsockfd, fdTable>>
      BY <1>2, <2>1, <2>4 DEF OneInFlight, OwnFiles
    <2>5. CASE /\ FreeFds # {} /\ newsockfd' = Min(FreeFds)
               /\ fdTable' = [fdTable EXCEPT ![newsockfd'] = Head(backlog)]
      <3>1. newsockfd' \in Fds /\ fdTable[newsockfd'] = NoClient
        BY <2>5, LowestIsFree
      <3>2. /\ fdTable'[newsockfd'] = c
            /\ \A f \in Fds : fdTable[f] # NoClient => fdTable'[f] = fdTable[f]
        BY <1>3, <2>2, <2>5, <3>1
      <3>3. OneInFlight'
        BY <1>2, <2>1, <2>2, <2>3, <3>2 DEF OneInFlight
      <3>4. OwnFiles'
        BY <1>3, <1>2, <2>1, <3>2 DEF OwnFiles
      <3> QED BY <3>3, <3>4
    <2> QED BY <2>1, <2>4, <2>5
  <1>6. CASE Create
    <2>1. /\ UNCHANGED <<newsockfd, fdTable, sockfd, file, client>>
          /\ main = "create" /\ main' = "accept" /\ backlog # <<>>
          /\ thread' = [thread EXCEPT ![Head(backlog)] = "start"] /\ backlog' = Tail(backlog)
      BY <1>6 DEF Create, clientVars, Assigned
    <2>2. PICK c \in Clients : /\ Head(backlog) = c /\ Tail(backlog) = <<>>
                               /\ client[c] # "off" /\ thread[c] = "none"
                               /\ \A t \in Clients : thread[t] # "start"
                               /\ fdTable[newsockfd] = c
      BY <1>2, <2>1, InFlight
    <2>3. thread'[c] = "start" /\ \A r \in Clients \ {c} : thread'[r] = thread[r]
      BY <1>3, <2>1, <2>2
    <2>4. \A b \in Clients : backlog' # <<b>>
      BY <2>1, <2>2, OneElement
    <2> QED BY <1>2, <2>1, <2>2, <2>3, <2>4 DEF OneInFlight, OwnFiles
  <1>7. ASSUME NEW t \in Clients, Serve(t) PROVE OneInFlight' /\ OwnFiles'
    BY <1>2, <1>7, ConnServe
  <1>8. ASSUME NEW c \in Clients, ClientStep(c) PROVE OneInFlight' /\ OwnFiles'
    <2>1. UNCHANGED <<main, newsockfd, fdTable, thread, sockfd, file>>
      BY <1>8, ClientMoves
    <2>2. \A r \in Clients : client[r] # "off" => client'[r] # "off"
      BY <1>3, <1>8 DEF ClientStep, Connect, Send, Quit, Receive, Kill
    <2>3. OwnFiles'
      BY <1>2, <2>1 DEF OwnFiles
    <2>4. CASE Connect(c)
      <3>1. /\ client[c] = "off" /\ main = "accept" /\ backlog = <<>>
            /\ \A t \in Clients : thread[t] # "start"
            /\ client' = [client EXCEPT ![c] = "typing"] /\ backlog' = Append(backlog, c)
        BY <2>4 DEF Connect
      <3>2. backlog' = <<c>> /\ \A b \in Clients : backlog' = <<b>> => b = c
        BY <3>1, OneElement
      <3>3. thread[c] = "none" /\ client'[c] # "off"
        BY <1>3, <1>2, <3>1 DEF OneInFlight
      <3>4. OneInFlight'
        BY <1>2, <2>1, <2>2, <3>1, <3>2, <3>3 DEF OneInFlight
      <3> QED BY <2>3, <3>4
    <2>5. CASE backlog' = backlog
      BY <1>2, <2>1, <2>2, <2>3, <2>5 DEF OneInFlight
    <2> QED BY <1>8, <2>4, <2>5, ClientMoves
  <1>9. CASE Ends
    BY <1>2, <1>9, EndsMoves DEF OneInFlight, OwnFiles
  <1> QED BY <1>4, <1>5, <1>6, <1>7, <1>8, <1>9 DEF Next, Ends, ClientStep

-----------------------------------------------------------------------------
(* Messages and answers, without a crowd *)

LEMMA TokenInit == Init => TokenInv
  BY DEF Init, TokenInv, OneMessage, Holding

\* Nothing that OneMessage(c) speaks of changes.
LEMMA OneMessageKept ==
    ASSUME NEW c \in Clients, OneMessage(c),
           client'[c] = client[c], sent'[c] = sent[c], toServer'[c] = toServer[c],
           toClient'[c] = toClient[c], buffer'[c] = buffer[c],
           thread'[c] \in Holding <=> thread[c] \in Holding
    PROVE  OneMessage(c)'
  BY DEF OneMessage, Unread, InBuffer, Answered, LastMessage

\* What one step of thread t does to the messages of its own client, which are
\* the only ones it touches.
LEMMA ServeOwn ==
    ASSUME Types, Assigned, OwnFiles, NEW t \in Clients, Serve(t)
    PROVE  /\ \/ /\ thread[t] \notin Holding /\ thread'[t] \notin Holding
                 /\ UNCHANGED <<toServer, toClient, buffer>>
              \/ /\ thread[t] \notin Holding /\ thread'[t] \notin Holding
                 /\ toServer[t] # <<>> /\ Head(toServer[t]).num = 0
                 /\ toServer' = [toServer EXCEPT ![t] = Tail(toServer[t])]
                 /\ UNCHANGED <<toClient, buffer>>
              \/ /\ thread[t] \notin Holding /\ thread'[t] \in Holding
                 /\ toServer[t] # <<>> /\ Head(toServer[t]).num # 0
                 /\ toServer' = [toServer EXCEPT ![t] = Tail(toServer[t])]
                 /\ buffer' = [buffer EXCEPT ![t] = Head(toServer[t])]
                 /\ UNCHANGED toClient
              \/ /\ thread[t] = "enter" /\ thread'[t] \in Holding
                 /\ UNCHANGED <<toServer, toClient, buffer>>
              \/ /\ thread[t] \in Holding /\ thread'[t] \notin Holding
                 /\ toClient' = [toClient EXCEPT ![t] = IF client[t] = "gone" THEN toClient[t]
                                                       ELSE Append(toClient[t], AnswerOf(t))]
                 /\ UNCHANGED <<toServer, buffer>>
              \/ /\ WriteFails(t) /\ thread[t] \in Holding /\ client[t] = "gone"
                 /\ UNCHANGED <<toServer, toClient, buffer>>
  <1>1. /\ thread \in [Clients -> Points] /\ NoClient \notin Clients
        /\ thread[t] \in {"recv", "recv_more"} => file[t] = t
        /\ thread[t] \in {"first", "refuse", "answer"} => fdTable[sockfd[t]] = t
    BY ClientAssumption DEF Types, Assigned, OwnFiles
  <1>2. CASE ReadArgument(t) \/ Leave(t) \/ Close(t)
    BY <1>1, <1>2 DEF ReadArgument, Leave, Close, Goto, Holding, clientVars
  <1>3. CASE Read(t)
    BY <1>1, <1>3 DEF Read, Leaving, Holding, clientVars
  <1>4. CASE Recv(t)
    <2>1. /\ thread[t] \in {"recv", "recv_more"} /\ toClient' = toClient
          /\ \/ /\ toServer[t] # <<>> /\ toServer' = [toServer EXCEPT ![t] = Tail(toServer[t])]
                /\ Head(toServer[t]).num = 0
                /\ thread' = [thread EXCEPT ![t] = Leaving(t)] /\ buffer' = buffer
             \/ /\ toServer[t] # <<>> /\ toServer' = [toServer EXCEPT ![t] = Tail(toServer[t])]
                /\ Head(toServer[t]).num # 0
                /\ thread' = [thread EXCEPT ![t] = AfterMessage(t)]
                /\ buffer' = [buffer EXCEPT ![t] = Head(toServer[t])]
             \/ /\ thread' = [thread EXCEPT ![t] = Leaving(t)]
                /\ UNCHANGED <<toServer, buffer>>
      BY <1>1, <1>4 DEF Recv, Goto, Fill
    <2>2. Leaving(t) \notin Holding /\ AfterMessage(t) \in Holding /\ thread[t] \notin Holding
      BY <2>1 DEF Leaving, AfterMessage, Holding
    <2> QED BY <1>1, <2>1, <2>2
  <1>5. CASE Enter(t)
    BY <1>1, <1>5 DEF Enter, Goto, Holding, clientVars
  <1>6. CASE Write(t)
    BY <1>1, <1>6 DEF Write, Holding, clientVars
  <1>7. CASE WriteFails(t)
    BY <1>1, <1>7 DEF WriteFails, Holding, clientVars
  <1> QED BY <1>2, <1>3, <1>4, <1>5, <1>6, <1>7 DEF Serve

LEMMA TokenServe ==
    ASSUME Types, Assigned, OneInFlight, OwnFiles, \A c \in Clients : OneMessage(c),
           NEW t \in Clients, Serve(t)
    PROVE  \A c \in Clients : OneMessage(c)'
  <1>1. /\ toServer \in [Clients -> Seq(Message)] /\ toClient \in [Clients -> Seq(Answer)]
        /\ buffer \in [Clients -> Message \cup {NoMessage}] /\ thread \in [Clients -> Points]
    BY DEF Types
  <1>2. UNCHANGED <<client, sent>> /\ \A c \in Clients \ {t} : thread'[c] = thread[c]
    BY <1>1, ServeMoves
  <1>3. \A c \in Clients \ {t} :
          toServer'[c] = toServer[c] /\ toClient'[c] = toClient[c] /\ buffer'[c] = buffer[c]
    <2>1. /\ \/ toServer' = toServer \/ toServer' = [toServer EXCEPT ![t] = Tail(toServer[t])]
          /\ \/ toClient' = toClient
             \/ toClient' = [toClient EXCEPT ![t] = IF client[t] = "gone" THEN toClient[t]
                                                   ELSE Append(toClient[t], AnswerOf(t))]
          /\ \/ buffer' = buffer \/ buffer' = [buffer EXCEPT ![t] = Head(toServer[t])]
      BY ServeOwn
    <2> QED BY <1>1, <2>1
  <1>4. \A c \in Clients \ {t} : OneMessage(c)'
    BY <1>2, <1>3, OneMessageKept
  <1>5. OneMessage(t)'
    <2>1. /\ OneMessage(t) /\ client'[t] = client[t] /\ sent'[t] = sent[t]
          /\ LastMessage(t)' = LastMessage(t) /\ LastMessage(t).num = sent[t]
          /\ client[t] \in {"off", "typing", "waiting", "gone"}
      BY <1>2 DEF LastMessage, Types
    <2>2. CASE /\ thread[t] \in Holding <=> thread'[t] \in Holding
               /\ UNCHANGED <<toServer, toClient, buffer>>
      BY <2>1, <2>2, OneMessageKept
    <2>3. CASE /\ thread[t] \notin Holding /\ thread'[t] \notin Holding
               /\ toServer[t] # <<>> /\ Head(toServer[t]).num = 0
               /\ toServer' = [toServer EXCEPT ![t] = Tail(toServer[t])]
               /\ UNCHANGED <<toClient, buffer>>
      <3>1. client[t] # "waiting"
        <4> SUFFICES ASSUME client[t] = "waiting" PROVE FALSE
          OBVIOUS
        <4>1. toServer[t] = <<LastMessage(t)>> /\ sent[t] # 0
          BY <2>1, <2>3 DEF OneMessage, Unread, InBuffer, Answered
        <4>2. Head(toServer[t]) = LastMessage(t)
          BY <4>1, OneElement
        <4> QED BY <2>1, <2>3, <4>1, <4>2
      <3>2. client[t] \notin {"off", "typing"}
        BY <2>1, <2>3 DEF OneMessage
      <3> QED BY <2>1, <3>1, <3>2 DEF OneMessage
    <2>4. CASE /\ thread[t] \notin Holding /\ thread'[t] \in Holding
               /\ toServer[t] # <<>> /\ Head(toServer[t]).num # 0
               /\ toServer' = [toServer EXCEPT ![t] = Tail(toServer[t])]
               /\ buffer' = [buffer EXCEPT ![t] = Head(toServer[t])]
               /\ UNCHANGED toClient
      <3>1. client[t] \notin {"off", "typing"}
        BY <2>1, <2>4 DEF OneMessage
      <3>2. ASSUME client[t] = "waiting" PROVE sent[t] # 0 /\ InBuffer(t)'
        <4>1. toServer[t] = <<LastMessage(t)>> /\ toClient[t] = <<>> /\ sent[t] # 0
          BY <2>1, <2>4, <3>2 DEF OneMessage, Unread, InBuffer, Answered
        <4>2. Head(toServer[t]) = LastMessage(t) /\ Tail(toServer[t]) = <<>>
          BY <4>1, OneElement
        <4>3. toServer'[t] = <<>> /\ buffer'[t] = LastMessage(t)
          BY <1>1, <2>4, <4>2
        <4> QED BY <2>1, <2>4, <4>1, <4>3 DEF InBuffer
      <3> QED BY <2>1, <3>1, <3>2 DEF OneMessage
    <2>5. CASE /\ thread[t] \in Holding /\ thread'[t] \notin Holding
               /\ toClient' = [toClient EXCEPT ![t] = IF client[t] = "gone" THEN toClient[t]
                                                     ELSE Append(toClient[t], AnswerOf(t))]
               /\ UNCHANGED <<toServer, buffer>>
      <3>1. client[t] \notin {"off", "typing"}
        BY <2>1, <2>5 DEF OneMessage
      <3>2. ASSUME client[t] = "waiting" PROVE sent[t] # 0 /\ Answered(t)'
        <4>1. /\ toServer[t] = <<>> /\ toClient[t] = <<>> /\ buffer[t] = LastMessage(t)
              /\ sent[t] # 0
          BY <2>1, <2>5, <3>2 DEF OneMessage, Unread, InBuffer, Answered
        <4>2. AnswerOf(t) \in Answer /\ AnswerOf(t).to = LastMessage(t)
          <5>1. buffer[t] \in Message
            BY <2>5 DEF Assigned
          <5> QED BY <4>1, <5>1 DEF AnswerOf, Answer
        <4>3. toClient'[t] = <<AnswerOf(t)>>
          <5>1. toClient'[t] = Append(toClient[t], AnswerOf(t))
            BY <1>1, <2>5, <3>2
          <5> QED BY <4>1, <4>2, <5>1, OneElement
        <4> QED BY <2>1, <2>5, <4>1, <4>2, <4>3 DEF Answered
      <3> QED BY <2>1, <3>1, <3>2 DEF OneMessage
    <2>6. CASE client[t] = "gone"
      BY <2>1, <2>6 DEF OneMessage
    <2> QED BY <2>2, <2>3, <2>4, <2>5, <2>6, ServeOwn DEF Holding
  <1> QED BY <1>4, <1>5

LEMMA TokenNext ==
    ASSUME Types, Assigned, ConnInv, TokenInv, [Next]_vars
    PROVE  TokenInv'
  <1>1. environment' = environment
    BY ServeMoves, ClientMoves, EndsMoves DEF Next, Ends, Accept, Create, ClientStep, vars, mainVars
  <1> SUFFICES ASSUME "crowd" \notin environment PROVE \A c \in Clients : OneMessage(c)'
    BY <1>1 DEF TokenInv
  <1>2. OneInFlight /\ OwnFiles /\ \A c \in Clients : OneMessage(c)
    BY DEF ConnInv, TokenInv
  <1>3. /\ thread \in [Clients -> Points] /\ client \in [Clients -> {"off", "typing", "waiting", "gone"}]
        /\ toServer \in [Clients -> Seq(Message)] /\ toClient \in [Clients -> Seq(Answer)]
        /\ sent \in [Clients -> 0 .. MaxMessages]
    BY DEF Types
  <1>4. CASE Accept \/ Ends \/ UNCHANGED vars
    <2>1. UNCHANGED <<client, sent, toServer, toClient, buffer, thread>>
      BY <1>4, EndsMoves DEF Accept, vars, threadVars, clientVars
    <2> QED BY <1>2, <2>1, OneMessageKept
  <1>5. CASE Create
    <2>1. /\ UNCHANGED <<client, sent, toServer, toClient, buffer>> /\ backlog # <<>>
          /\ thread' = [thread EXCEPT ![Head(backlog)] = "start"]
      BY <1>5 DEF Create, clientVars, Assigned
    <2>2. PICK h \in Clients : Head(backlog) = h /\ thread[h] = "none"
      BY <1>2, <2>1, InFlight
    <2>3. \A c \in Clients : thread'[c] \in Holding <=> thread[c] \in Holding
      BY <1>3, <2>1, <2>2 DEF Holding
    <2> QED BY <1>2, <2>1, <2>3, OneMessageKept
  <1>6. ASSUME NEW t \in Clients, Serve(t) PROVE \A c \in Clients : OneMessage(c)'
    BY <1>2, <1>6, TokenServe
  <1>7. ASSUME NEW c \in Clients, ClientStep(c) PROVE \A r \in Clients : OneMessage(r)'
    <2>1. UNCHANGED <<thread, buffer>>
      BY <1>7, ClientMoves
    <2>2. \A r \in Clients \ {c} : client'[r] = client[r] /\ sent'[r] = sent[r]
                                   /\ toServer'[r] = toServer[r] /\ toClient'[r] = toClient[r]
      BY <1>3, <1>7 DEF ClientStep, Connect, Send, Quit, Receive, Kill
    <2>3. \A r \in Clients \ {c} : OneMessage(r)'
      BY <1>2, <2>1, <2>2, OneMessageKept
    <2>4. OneMessage(c)'
      <3>1. OneMessage(c)
        BY <1>2
      <3>2. CASE client'[c] = "gone"
        BY <3>2 DEF OneMessage
      <3>3. CASE Connect(c)
        <4>1. client[c] = "off" /\ client'[c] = "typing" /\ UNCHANGED <<toServer, toClient>>
          BY <1>3, <3>3 DEF Connect
        <4> QED BY <2>1, <3>1, <4>1 DEF OneMessage
      <3>4. CASE Send(c) /\ client'[c] # "gone"
        <4> DEFINE m == [from |-> c, num |-> sent'[c]]
        <4>1. /\ client[c] = "typing" /\ client'[c] = "waiting" /\ toClient' = toClient
              /\ sent'[c] = sent[c] + 1 /\ sent[c] \in Nat
              /\ toServer'[c] = Append(toServer[c], m)
          BY <1>3, <3>4, SlotAssumption DEF Send
        <4>2. toServer[c] = <<>> /\ thread[c] \notin Holding /\ toClient[c] = <<>>
          BY <3>1, <4>1 DEF OneMessage
        <4>3. toServer'[c] = <<LastMessage(c)'>>
          BY <4>1, <4>2, OneElement DEF LastMessage
        <4>4. Unread(c)'
          BY <2>1, <4>1, <4>2, <4>3 DEF Unread
        <4> QED BY <4>1, <4>4 DEF OneMessage
      <3>5. CASE Receive(c) /\ client'[c] # "gone"
        <4>1. /\ client[c] = "waiting" /\ client'[c] = "typing" /\ toServer' = toServer
              /\ toClient[c] # <<>> /\ toClient'[c] = Tail(toClient[c])
          BY <1>3, <3>5 DEF Receive
        <4>2. Answered(c)
          BY <3>1, <4>1 DEF OneMessage, Unread, InBuffer
        <4>3. toClient'[c] = <<>>
          BY <4>1, <4>2, OneElement DEF Answered
        <4> QED BY <2>1, <4>1, <4>2, <4>3 DEF OneMessage, Answered
      <3>6. CASE Quit(c) \/ Kill(c)
        BY <1>3, <3>2, <3>6 DEF Quit, Kill
      <3> QED BY <1>7, <3>2, <3>3, <3>4, <3>5, <3>6 DEF ClientStep
    <2> QED BY <2>3, <2>4
  <1> QED BY <1>4, <1>5, <1>6, <1>7 DEF Next, Ends, ClientStep

-----------------------------------------------------------------------------
(* Slots, when nobody is killed either *)

LEMMA ExactInit == Init => SlotsExact
  <1> SUFFICES ASSUME Init PROVE SlotsExact
    OBVIOUS
  <1>1. Serving = {} /\ clientCnt = 0 /\ \A c \in Clients : client[c] = "off"
    BY DEF Init, Serving, SecondLoop
  <1> QED BY <1>1, FS_EmptySet DEF SlotsExact, GoneQuietly

\* The server has closed the connection of a client in a quiet system only when
\* its thread is done or the process has ended.
LEMMA ClosedMeansDone ==
    ASSUME Assigned, OneInFlight, OwnFiles, NEW c \in Clients, ServerClosed(c)
    PROVE  main = "exit" \/ thread[c] = "done"
  <1> SUFFICES ASSUME main # "exit", thread[c] # "done" PROVE FALSE
    OBVIOUS
  <1>1. thread[c] # "none" /\ \A f \in Fds : fdTable[f] # c
    BY DEF ServerClosed
  <1>2. CASE thread[c] = "start"
    BY <1>1, <1>2 DEF Assigned, OneInFlight
  <1>3. CASE thread[c] # "start"
    BY <1>1, <1>3 DEF Assigned, OwnFiles
  <1> QED BY <1>2, <1>3

LEMMA QuietServe ==
    ASSUME Types, Assigned, OneInFlight, OwnFiles, \A c \in Clients : OneMessage(c),
           \A c \in Clients : GoneQuietly(c), NEW t \in Clients, Serve(t)
    PROVE  (\A c \in Clients : GoneQuietly(c)') /\ ~(WriteFails(t) /\ thread[t] \in Holding)
  <1>1. /\ toServer \in [Clients -> Seq(Message)] /\ thread \in [Clients -> Points]
    BY DEF Types
  <1>2. /\ UNCHANGED <<client, main>> /\ main # "exit" /\ thread[t] # "done"
        /\ \A c \in Clients \ {t} : thread'[c] = thread[c]
    BY <1>1, ServeMoves
  <1>3. \A c \in Clients \ {t} : toServer'[c] = toServer[c]
    <2>1. toServer' = toServer \/ toServer' = [toServer EXCEPT ![t] = Tail(toServer[t])]
      BY ServeOwn
    <2> QED BY <1>1, <2>1
  <1>4. \A c \in Clients \ {t} : GoneQuietly(c)'
    BY <1>2, <1>3 DEF GoneQuietly
  <1> DEFINE q == [from |-> t, num |-> 0]
  <1>5. client[t] = "gone" => thread[t] \notin Holding /\ toServer[t] \in {<<>>, <<q>>}
    BY <1>2 DEF GoneQuietly
  <1>6. ~(WriteFails(t) /\ thread[t] \in Holding)
    <2>1. WriteFails(t) => thread[t] \in Holding /\ fdTable[sockfd[t]] = t
      BY DEF WriteFails, Holding, OwnFiles
    <2>2. WriteFails(t) => client[t] = "gone"
      BY <2>1, ClientAssumption DEF WriteFails
    <2> QED BY <1>5, <2>2
  <1>7. Head(<<q>>) = q /\ Tail(<<q>>) = <<>> /\ q.num = 0
    BY OneElement
  <1>8. GoneQuietly(t)'
    <2> SUFFICES ASSUME client[t] = "gone"
                 PROVE  thread'[t] \notin Holding /\ toServer'[t] \in {<<>>, <<q>>}
      BY <1>2 DEF GoneQuietly
    <2>1. thread[t] \notin Holding /\ toServer[t] \in {<<>>, <<q>>} /\ thread[t] # "enter"
      BY <1>5 DEF Holding
    <2>2. CASE /\ thread'[t] \notin Holding /\ toServer' = toServer
      BY <2>1, <2>2
    <2>3. CASE /\ toServer[t] # <<>> /\ toServer' = [toServer EXCEPT ![t] = Tail(toServer[t])]
      <3>1. toServer[t] = <<q>> /\ toServer'[t] = <<>> /\ Head(toServer[t]).num = 0
        BY <1>1, <1>7, <2>1, <2>3
      <3>2. thread'[t] \notin Holding
        BY <2>1, <3>1, ServeOwn, Zenon
      <3> QED BY <3>1, <3>2
    <2> QED BY <1>6, <2>1, <2>2, <2>3, ServeOwn
  <1> QED BY <1>4, <1>6, <1>8

LEMMA ExactNext ==
    ASSUME Types, Assigned, SlotInv, ConnInv, TokenInv, SlotsExact, [Next]_vars
    PROVE  SlotsExact'
  <1>1. environment' = environment
    BY ServeMoves, ClientMoves, EndsMoves DEF Next, Ends, Accept, Create, ClientStep, vars, mainVars
  <1> DEFINE Exact == (\A c \in Clients : GoneQuietly(c)) /\ clientCnt = Cardinality(Serving)
  <1> SUFFICES ASSUME environment = {} PROVE Exact'
    BY <1>1 DEF SlotsExact
  <1>2. /\ OneInFlight /\ OwnFiles /\ \A c \in Clients : OneMessage(c)
        /\ Exact /\ "deaths" \notin environment
    BY DEF ConnInv, TokenInv, SlotsExact
  <1>3. /\ thread \in [Clients -> Points] /\ client \in [Clients -> {"off", "typing", "waiting", "gone"}]
        /\ toServer \in [Clients -> Seq(Message)] /\ IsFiniteSet(Serving)
    BY DEF Types, SlotInv
  <1>4. CASE Accept \/ Ends \/ UNCHANGED vars
    <2>1. /\ UNCHANGED <<client, thread, toServer, clientCnt>>
          /\ main = "exit" => main' = "exit"
      BY <1>4, EndsMoves DEF Accept, vars, mainVars, threadVars, clientVars
    <2> QED BY <1>2, <2>1 DEF GoneQuietly, Serving
  <1>5. CASE Create
    <2>1. /\ UNCHANGED <<client, toServer, clientCnt>> /\ backlog # <<>> /\ main = "create"
          /\ thread' = [thread EXCEPT ![Head(backlog)] = "start"]
      BY <1>5 DEF Create, clientVars, Assigned
    <2>2. PICK h \in Clients : Head(backlog) = h /\ thread[h] = "none"
      BY <1>2, <2>1, InFlight
    <2>3. thread' = [thread EXCEPT ![h] = "start"]
      BY <2>1, <2>2
    <2>4. /\ "start" \in SecondLoop <=> thread[h] \in SecondLoop
          /\ "start" \notin Holding /\ thread[h] # "done"
      BY <2>2 DEF SecondLoop, Holding
    <2>5. Cardinality(Serving') = Cardinality(Serving)
      BY <1>3, <2>3, <2>4, ServingStep, Zenon
    <2>6. ASSUME NEW c \in Clients PROVE GoneQuietly(c)'
      <3>1. thread'[c] \in {thread[c], "start"} /\ (thread[c] = "done" => thread'[c] = "done")
        BY <1>3, <2>3, <2>4
      <3> QED BY <1>2, <2>1, <2>4, <3>1 DEF GoneQuietly
    <2> QED BY <1>2, <2>1, <2>5, <2>6
  <1>6. ASSUME NEW t \in Clients, Serve(t) PROVE Exact'
    <2>1. (\A c \in Clients : GoneQuietly(c)') /\ ~(WriteFails(t) /\ thread[t] \in Holding)
      BY <1>2, <1>6, QuietServe
    <2>2. thread' = [thread EXCEPT ![t] = thread'[t]]
      BY <1>6, ServeMoves
    <2>3. /\ Cardinality(Serving) \in Nat /\ Cardinality(Serving') \in Nat
          /\ thread'[t] \in SecondLoop /\ thread[t] \notin SecondLoop
                => Cardinality(Serving') = Cardinality(Serving) + 1
          /\ thread'[t] \notin SecondLoop /\ thread[t] \in SecondLoop
                => Cardinality(Serving') = Cardinality(Serving) - 1
          /\ (thread'[t] \in SecondLoop <=> thread[t] \in SecondLoop)
                => Cardinality(Serving') = Cardinality(Serving)
      BY <1>3, <2>2, ServingStep, Zenon
    <2>4. clientCnt' = Cardinality(Serving')
      <3>1. clientCnt = Cardinality(Serving)
        BY <1>2
      <3> QED BY <1>6, <2>1, <2>3, <3>1, SlotMoves DEF Holding
    <2> QED BY <2>1, <2>4
  <1>7. ASSUME NEW c \in Clients, ClientStep(c) PROVE Exact'
    <2>1. UNCHANGED <<main, thread, clientCnt, fdTable, file>>
      BY <1>7, ClientMoves
    <2>2. clientCnt' = Cardinality(Serving')
      BY <1>2, <2>1 DEF Serving
    <2>3. \A r \in Clients \ {c} : client'[r] = client[r] /\ toServer'[r] = toServer[r]
      BY <1>3, <1>7 DEF ClientStep, Connect, Send, Quit, Receive, Kill
    <2>4. \A r \in Clients \ {c} : GoneQuietly(r)'
      BY <1>2, <2>1, <2>3 DEF GoneQuietly
    <2>5. GoneQuietly(c)'
      <3> SUFFICES ASSUME client'[c] = "gone", main # "exit", thread[c] # "done"
                   PROVE  /\ thread[c] \notin Holding
                          /\ toServer'[c] \in {<<>>, <<[from |-> c, num |-> 0]>>}
        BY <2>1 DEF GoneQuietly
      <3>1. client[c] \in {"off", "typing"} =>
               toServer[c] = <<>> /\ thread[c] \notin Holding
        BY <1>2 DEF OneMessage
      <3>2. ~ServerClosed(c)
        BY <1>2, ClosedMeansDone
      <3>3. Quit(c)
        BY <1>3, <1>2, <1>7, <3>2 DEF ClientStep, Connect, Send, Receive, Kill
      <3>4. /\ client[c] = "typing"
            /\ toServer'[c] = Append(toServer[c], [from |-> c, num |-> 0])
        BY <1>3, <3>3 DEF Quit
      <3> QED BY <3>1, <3>4, OneElement
    <2> QED BY <2>2, <2>4, <2>5
  <1> QED BY <1>4, <1>5, <1>6, <1>7 DEF Next, Ends, ClientStep

\* The parts of the invariant hold together: the slots are exact because no
\* write fails on a thread with a message, for which every connection must be
\* the thread's own, and every message in one place.
LEMMA Invariant == Spec => []IInv
  <1>1. Init => IInv
    BY TypesInit, SlotInit, ConnInit, TokenInit, ExactInit DEF IInv
  <1>2. IInv /\ [Next]_vars => IInv'
    BY TypesNext, AssignedNext, SlotNext, ConnNext, TokenNext, ExactNext DEF IInv
  <1> QED BY <1>1, <1>2, PTL DEF Spec

\* When connections do not come faster than threads start, no thread ever reads,
\* answers or closes the connection of another, although main passes every
\* descriptor through one variable and accept returns closed descriptors again.
THEOREM OwnConnectionTheorem == Spec => []OwnConnection
  <1>1. IInv => OwnConnection
    BY DEF IInv, ConnInv, OwnFiles, OwnConnection
  <1> QED BY <1>1, Invariant, PTL

\* In the calm environment client_cnt is exactly the number of threads in the
\* second loop: no path out of serve forgets to give its slot back.
THEOREM NoSlotLostTheorem == Spec => []NoSlotLost
  <1>1. IInv => NoSlotLost
    BY DEF IInv, SlotsExact, NoSlotLost
  <1> QED BY <1>1, Invariant, PTL

\* When connections do not come faster than threads start, an answer that a
\* client has not read is the only one, and answers its last message, which it
\* waits on; killed clients change nothing to that.
THEOREM OwnAnswerTheorem == Spec => []OwnAnswer
  <1>1. IInv => OwnAnswer
    <2> SUFFICES ASSUME IInv, "crowd" \notin environment, NEW c \in Clients,
                        client[c] # "gone", NEW i \in DOMAIN toClient[c]
                 PROVE  client[c] = "waiting" /\ toClient[c][i].to = LastMessage(c)
      BY DEF OwnAnswer, LastMessage
    <2>1. OneMessage(c) /\ client[c] \in {"off", "typing", "waiting"}
      BY DEF IInv, TokenInv, Types
    <2>2. toClient[c] # <<>>
      OBVIOUS
    <2>3. client[c] = "waiting" /\ Answered(c)
      BY <2>1, <2>2 DEF OneMessage, Unread, InBuffer
    <2>4. PICK a \in Answer : toClient[c] = <<a>> /\ a.to = LastMessage(c)
      BY <2>3 DEF Answered
    <2>5. toClient[c][i] = a
      BY <2>4, OneElement
    <2> QED BY <2>3, <2>4, <2>5
  <1> QED BY <1>1, Invariant, PTL

-----------------------------------------------------------------------------
(* PsTree: the processes are a tree *)

TreeTypes ==
    /\ life \in [Pids -> {"free", "live", "zombie"}]
    /\ parent \in [Pids -> Pids]
    /\ children \in [Pids -> Seq(Pids)]

ChildrenOf(p) == {q \in Pids \ {0} : life[q] # "free" /\ parent[q] = p}

\* The lists of children agree with the parents.
Family ==
    /\ life[0] = "live" /\ life[1] = "live" /\ parent[0] = 0 /\ parent[1] = 0
    /\ \A p \in Pids : /\ IsInjective(children[p]) /\ Range(children[p]) = ChildrenOf(p)
                       /\ life[p] # "live" => children[p] = <<>>

\* Nobody is among its own descendants.
Ranked(d) ==
    /\ d \in [Pids -> Nat] /\ d[0] = 0 /\ d[1] = 1
    /\ \A q \in Pids \ {0, 1} : life[q] # "free" => d[q] > d[parent[q]] /\ d[q] >= 2

TreeInv == TreeTypes /\ Family /\ \E d : Ranked(d)

LEMMA PidsAre == 0 \in Pids /\ 1 \in Pids /\ IsFiniteSet(Pids) /\ Cardinality(Pids) \in Nat /\ Pids \subseteq Nat
  BY PidAssumption, FS_CardinalityType

LEMMA TreeInit == PsInit => TreeInv
  <1> SUFFICES ASSUME PsInit PROVE TreeInv
    OBVIOUS
  <1>1. <<1>> \in Seq(Pids) /\ IsInjective(<<1>>) /\ Range(<<1>>) = {1}
    BY OneList, PidsAre
  <1>2. <<>> \in Seq(Pids) /\ IsInjective(<<>>) /\ Range(<<>>) = {}
    BY NoList
  <1>3. TreeTypes
    BY <1>1, <1>2, PidsAre DEF PsInit, TreeTypes
  <1>4. Family
    BY <1>1, <1>2, PidsAre DEF PsInit, Family, ChildrenOf
  <1>5. Ranked([t \in Pids |-> IF t = 0 THEN 0 ELSE 1])
    BY PidsAre DEF PsInit, Ranked
  <1> QED BY <1>3, <1>4, <1>5 DEF TreeInv

LEMMA ForkStep == ASSUME TreeInv, NEW p \in Pids, NEW c \in Pids, Fork(p, c) PROVE TreeInv'
  <1>1. /\ life[p] = "live" /\ life[c] = "free"
        /\ life' = [life EXCEPT ![c] = "live"] /\ parent' = [parent EXCEPT ![c] = p]
        /\ children' = [children EXCEPT ![p] = Append(@, c)]
    BY DEF Fork
  <1>2. TreeTypes /\ Family
    BY DEF TreeInv
  <1>3. c # 0 /\ c # 1 /\ p # c
    BY <1>1, <1>2 DEF Family
  <1> DEFINE s == children[p]
  <1>4. s \in Seq(Pids) /\ IsInjective(s) /\ Range(s) = ChildrenOf(p) /\ c \notin Range(s)
    BY <1>1, <1>2 DEF TreeTypes, Family, ChildrenOf
  <1>5. Append(s, c) \in Seq(Pids) /\ Range(Append(s, c)) = Range(s) \cup {c} /\ IsInjective(Append(s, c))
    <2> HIDE DEF s
    <2> QED BY <1>4, AddTail
  <1>6. children[c] = <<>> /\ ChildrenOf(c) = {}
    BY <1>1, <1>2, NoList DEF Family
  <1>7. TreeTypes'
    BY <1>1, <1>2, <1>5 DEF TreeTypes
  <1>8. ASSUME NEW q \in Pids
        PROVE  /\ IsInjective(children'[q]) /\ Range(children'[q]) = ChildrenOf(q)'
               /\ life'[q] # "live" => children'[q] = <<>>
    <2>1. ChildrenOf(q)' = IF q = p THEN ChildrenOf(q) \cup {c} ELSE ChildrenOf(q)
      BY <1>1, <1>2, <1>3 DEF ChildrenOf, TreeTypes
    <2>2. children'[q] = IF q = p THEN Append(s, c) ELSE children[q]
      BY <1>1, <1>2 DEF TreeTypes
    <2>3. life'[q] = IF q = c THEN "live" ELSE life[q]
      BY <1>1, <1>2 DEF TreeTypes
    <2> QED BY <1>1, <1>2, <1>4, <1>5, <2>1, <2>2, <2>3 DEF Family
  <1>9. Family'
    BY <1>1, <1>2, <1>3, <1>8, PidsAre DEF Family, TreeTypes
  <1>10. \E d : Ranked(d)'
    <2>1. PICK d : Ranked(d)
      BY DEF TreeInv
    <2> DEFINE x == [d EXCEPT ![c] = d[p] + 2]
    <2>2. x \in [Pids -> Nat] /\ x[0] = 0 /\ x[1] = 1 /\ x[c] = d[p] + 2 /\ \A q \in Pids \ {c} : x[q] = d[q]
      BY <1>3, <2>1, PidsAre DEF Ranked
    <2> HIDE DEF x
    <2>3. ASSUME NEW q \in Pids \ {0, 1}, life'[q] # "free" PROVE x[q] > x[parent'[q]] /\ x[q] >= 2
      <3>1. CASE q = c
        <4>1. parent'[q] = p /\ x[p] = d[p] /\ d[p] \in Nat
          BY <1>1, <1>2, <1>3, <2>1, <2>2, <3>1 DEF TreeTypes, Ranked
        <4> QED BY <2>2, <3>1, <4>1
      <3>2. CASE q # c
        <4>1. parent'[q] = parent[q] /\ life[q] # "free" /\ parent[q] \in Pids
          BY <1>1, <1>2, <2>3, <3>2 DEF TreeTypes
        <4>2. parent[q] # c
          BY <1>6, <4>1 DEF ChildrenOf
        <4> QED BY <2>1, <2>2, <3>2, <4>1, <4>2 DEF Ranked
      <3> QED BY <3>1, <3>2
    <2>4. Ranked(x)'
      BY <2>2, <2>3 DEF Ranked
    <2> QED BY <2>4
  <1> QED BY <1>7, <1>9, <1>10 DEF TreeInv

LEMMA ExitStep == ASSUME TreeInv, NEW p \in Pids, Exit(p) PROVE TreeInv'
  <1>1. /\ life[p] = "live" /\ p # 0 /\ p # 1
        /\ life' = [life EXCEPT ![p] = "zombie"]
        /\ parent' = [t \in Pids |-> IF t \in Range(children[p]) THEN 1 ELSE parent[t]]
        /\ children' = [children EXCEPT ![p] = <<>>, ![1] = @ \o children[p]]
    BY DEF Exit
  <1>2. TreeTypes /\ Family
    BY DEF TreeInv
  <1> DEFINE s == children[1]
             t == children[p]
  <1>3. /\ s \in Seq(Pids) /\ IsInjective(s) /\ Range(s) = ChildrenOf(1)
        /\ t \in Seq(Pids) /\ IsInjective(t) /\ Range(t) = ChildrenOf(p)
    BY <1>2, PidsAre DEF TreeTypes, Family
  <1>4. Range(s) \cap Range(t) = {}
    BY <1>1, <1>3 DEF ChildrenOf
  <1>5. /\ s \o t \in Seq(Pids) /\ IsInjective(s \o t)
        /\ Range(s \o t) = Range(s) \cup Range(t)
    <2> HIDE DEF s, t
    <2> QED BY <1>3, <1>4, JoinLists
  <1>6. children' = [children EXCEPT ![p] = <<>>, ![1] = s \o t]
    BY <1>1
  <1> HIDE DEF s, t
  <1>7. /\ children'[1] = s \o t /\ children'[p] = <<>>
        /\ \A q \in Pids \ {1, p} : children'[q] = children[q]
    <2>1. children' = [[children EXCEPT ![p] = <<>>] EXCEPT ![1] = s \o t]
      BY <1>6
    <2> DEFINE x == [children EXCEPT ![p] = <<>>]
    <2>2. DOMAIN x = Pids /\ x[p] = <<>> /\ \A q \in Pids \ {p} : x[q] = children[q]
      BY <1>2 DEF TreeTypes
    <2> HIDE DEF x
    <2>3. children' = [x EXCEPT ![1] = s \o t]
      BY <2>1 DEF x
    <2> QED BY <1>1, <2>2, <2>3, PidsAre
  <1>8. TreeTypes'
    <2>1. DOMAIN children' = Pids
      BY <1>2, <1>6 DEF TreeTypes
    <2>2. children' = [q \in Pids |-> children'[q]]
      BY <1>2, <1>6 DEF TreeTypes
    <2>3. \A q \in Pids : children'[q] \in Seq(Pids)
      BY <1>2, <1>5, <1>7, NoList DEF TreeTypes
    <2> QED BY <1>1, <1>2, <2>2, <2>3, PidsAre DEF TreeTypes
  <1>9. \A q \in Pids : parent'[q] = IF q \in ChildrenOf(p) THEN 1 ELSE parent[q]
    BY <1>1, <1>3 DEF t
  <1>10. \A q \in Pids : life'[q] = IF q = p THEN "zombie" ELSE life[q]
    BY <1>1, <1>2 DEF TreeTypes
  <1>11. ASSUME NEW q \in Pids
         PROVE  /\ IsInjective(children'[q]) /\ Range(children'[q]) = ChildrenOf(q)'
                /\ life'[q] # "live" => children'[q] = <<>>
    <2>1. ChildrenOf(q)' = IF q = 1 THEN ChildrenOf(1) \cup ChildrenOf(p)
                           ELSE IF q = p THEN {} ELSE ChildrenOf(q)
      BY <1>1, <1>9, <1>10 DEF ChildrenOf
    <2> QED BY <1>1, <1>2, <1>3, <1>5, <1>7, <1>10, <2>1, NoList DEF Family
  <1>12. 0 \notin ChildrenOf(p) /\ 1 \notin ChildrenOf(p)
    BY <1>1, <1>2 DEF Family, ChildrenOf
  <1>13. Family'
    BY <1>1, <1>2, <1>9, <1>10, <1>11, <1>12, PidsAre DEF Family
  <1>14. \E d : Ranked(d)'
    <2>1. PICK d : Ranked(d)
      BY DEF TreeInv
    <2>2. ASSUME NEW q \in Pids \ {0, 1}, life'[q] # "free" PROVE d[q] > d[parent'[q]] /\ d[q] >= 2
      <3>1. life[q] # "free" /\ d[q] \in Nat /\ d[1] = 1 /\ d[q] > d[parent[q]] /\ d[q] >= 2
        BY <1>1, <1>10, <2>1, <2>2 DEF Ranked
      <3> QED BY <1>9, <3>1
    <2>3. Ranked(d)'
      BY <2>1, <2>2 DEF Ranked
    <2> QED BY <2>3
  <1> QED BY <1>8, <1>13, <1>14 DEF TreeInv

LEMMA ReapStep == ASSUME TreeInv, NEW p \in Pids, Reap(p) PROVE TreeInv'
  <1> DEFINE g == parent[p]
             s == children[g]
  <1>1. /\ life[p] = "zombie" /\ life' = [life EXCEPT ![p] = "free"]
        /\ children' = [children EXCEPT ![g] = RemoveFirst(s, p)] /\ parent' = parent
    BY DEF Reap
  <1>2. TreeTypes /\ Family
    BY DEF TreeInv
  <1>3. g \in Pids /\ p # 0 /\ p # 1 /\ p \in ChildrenOf(g)
    BY <1>1, <1>2 DEF TreeTypes, Family, ChildrenOf
  <1>4. s \in Seq(Pids) /\ IsInjective(s) /\ Range(s) = ChildrenOf(g)
    BY <1>2, <1>3 DEF TreeTypes, Family
  <1>5. RemoveFirst(s, p) \in Seq(Pids) /\ Range(RemoveFirst(s, p)) = Range(s) \ {p} /\ IsInjective(RemoveFirst(s, p))
    <2> HIDE DEF s, g
    <2> QED BY <1>3, <1>4, DelFromList
  <1> HIDE DEF s
  <1>6. TreeTypes'
    BY <1>1, <1>2, <1>5 DEF TreeTypes
  <1>7. ASSUME NEW q \in Pids
        PROVE  /\ IsInjective(children'[q]) /\ Range(children'[q]) = ChildrenOf(q)'
               /\ life'[q] # "live" => children'[q] = <<>>
    <2>1. \A r \in Pids : life'[r] = IF r = p THEN "free" ELSE life[r]
      BY <1>1, <1>2 DEF TreeTypes
    <2>2. ChildrenOf(q)' = ChildrenOf(q) \ {p}
      BY <1>1, <2>1 DEF ChildrenOf
    <2>3. CASE q = g
      <3>1. children'[q] = RemoveFirst(s, p)
        BY <1>1, <1>2, <1>3, <2>3 DEF TreeTypes
      <3>2. life[g] = "live" /\ g # p
        <4>1. children[g] # <<>>
          BY <1>3, <1>4, NoList DEF s
        <4>2. life[g] = "live"
          BY <1>2, <1>3, <4>1 DEF Family
        <4> QED BY <1>1, <4>2
      <3> QED BY <1>4, <1>5, <2>1, <2>2, <2>3, <3>1, <3>2
    <2>4. CASE q # g
      <3>1. children'[q] = children[q] /\ p \notin ChildrenOf(q)
        BY <1>1, <1>2, <2>4 DEF TreeTypes, ChildrenOf
      <3>2. life'[q] # "live" => life[q] # "live"
        BY <1>1, <2>1
      <3> QED BY <1>2, <2>2, <3>1, <3>2 DEF Family
    <2> QED BY <2>3, <2>4
  <1>8. Family'
    BY <1>1, <1>2, <1>3, <1>7, PidsAre DEF Family, TreeTypes
  <1>9. \E d : Ranked(d)'
    <2>1. PICK d : Ranked(d)
      BY DEF TreeInv
    <2>2. \A q \in Pids : life'[q] # "free" => life[q] # "free"
      BY <1>1, <1>2 DEF TreeTypes
    <2>3. Ranked(d)'
      BY <1>1, <2>1, <2>2 DEF Ranked
    <2> QED BY <2>3
  <1> QED BY <1>6, <1>8, <1>9 DEF TreeInv

LEMMA TreeNext == ASSUME TreeInv, [PsNext]_psVars PROVE TreeInv'
  <1>1. ASSUME UNCHANGED <<life, parent, children>> PROVE TreeInv'
    BY <1>1 DEF TreeInv, TreeTypes, Family, ChildrenOf, Ranked
  <1>2. ASSUME NEW p \in Pids, Exec(p) PROVE TreeInv'
    BY <1>1, <1>2 DEF Exec
  <1>3. CASE sys_pstreecall \/ PrintLine \/ Return \/ UNCHANGED psVars
    BY <1>1, <1>3 DEF sys_pstreecall, PrintLine, Return, psVars, treeVars
  <1> QED BY <1>2, <1>3, ForkStep, ExitStep, ReapStep DEF PsNext


-----------------------------------------------------------------------------
(* PsTree: the walk of the tree *)

N == Cardinality(Pids)

\* One level of dfs: a task, then the walks of its children.
Level(w, n, u) ==
    IF n = 0 THEN <<>>
    ELSE <<u>> \o FlattenSeq([i \in DOMAIN children[u] |-> w[n - 1][children[u][i]]])

LEMMA WalkIs ==
    ASSUME TreeTypes
    PROVE  \E w : /\ \A n \in 0 .. N, u \in Pids : w[n][u] = Level(w, n, u)
                  /\ \A t \in Pids : dfs(t) = w[N][t]
  <1> DEFINE P(w) == w = [n \in 0 .. N |-> [u \in Pids |-> Level(w, n, u)]]
             Q(k) == \E w : \A n \in 0 .. k, u \in Pids : w[n][u] = Level(w, n, u)
             S == {k \in 0 .. N : Q(k)}
  <1>0. N \in Nat
    BY PidsAre DEF N
  <1>a. ASSUME NEW u \in Pids, NEW i \in DOMAIN children[u] PROVE children[u][i] \in Pids
    BY ElementOfSeq, LenProperties DEF TreeTypes
  <1>1. 0 \in S
    <2> DEFINE w == [n \in 0 .. N |-> [u \in Pids |-> <<>>]]
    <2>1. \A n \in 0 .. 0, u \in Pids : w[n][u] = Level(w, n, u)
      BY <1>0 DEF Level
    <2> HIDE DEF w
    <2> QED BY <1>0, <2>1
  <1>2. ASSUME NEW k \in 1 .. N, k - 1 \in S PROVE k \in S
    <2>1. PICK w : \A n \in 0 .. k - 1, u \in Pids : w[n][u] = Level(w, n, u)
      BY <1>2
    <2> DEFINE x == [n \in 0 .. N |-> [u \in Pids |-> Level(w, n, u)]]
    <2>2. \A n \in 0 .. k - 1, u \in Pids : x[n][u] = w[n][u]
      <3>1. \A n \in 0 .. N, u \in Pids : x[n][u] = Level(w, n, u)
        OBVIOUS
      <3>2. \A n \in 0 .. k - 1 : n \in 0 .. N
        BY <1>0
      <3> HIDE DEF x
      <3> QED BY <2>1, <3>1, <3>2
    <2>3. ASSUME NEW n \in 0 .. k, NEW u \in Pids PROVE x[n][u] = Level(x, n, u)
      <3>1. n \in 0 .. N
        BY <1>0
      <3>2. x[n][u] = Level(w, n, u)
        BY <3>1
      <3> HIDE DEF x
      <3>3. CASE n = 0
        BY <3>2, <3>3 DEF Level
      <3>4. CASE n # 0
        <4>1. n - 1 \in 0 .. k - 1
          BY <1>0, <3>4
        <4>2. \A i \in DOMAIN children[u] : w[n - 1][children[u][i]] = x[n - 1][children[u][i]]
          BY <1>a, <2>2, <4>1
        <4>3. [i \in DOMAIN children[u] |-> w[n - 1][children[u][i]]]
                = [i \in DOMAIN children[u] |-> x[n - 1][children[u][i]]]
          BY <4>2
        <4> QED BY <3>2, <3>4, <4>3 DEF Level
      <3> QED BY <3>3, <3>4
    <2> HIDE DEF x
    <2>4. Q(k)
      BY <2>3
    <2> HIDE DEF Q
    <2> QED BY <2>4
  <1>3. N \in S
    <2> HIDE DEF S
    <2>1. \A n \in 0 .. N : n \in S
      BY <1>0, <1>1, <1>2, UpTo
    <2> QED BY <1>0, <2>1
  <1>4. PICK w : \A n \in 0 .. N, u \in Pids : w[n][u] = Level(w, n, u)
    BY <1>3
  <1> DEFINE x == [n \in 0 .. N |-> [u \in Pids |-> w[n][u]]]
  <1>5. ASSUME NEW n \in 0 .. N, NEW u \in Pids PROVE w[n][u] = Level(x, n, u)
    <2>1. \A m \in 0 .. N, q \in Pids : x[m][q] = w[m][q]
      OBVIOUS
    <2> HIDE DEF x
    <2>3. CASE n = 0
      BY <1>4, <2>3 DEF Level
    <2>4. CASE n # 0
      <3>1. n - 1 \in 0 .. N
        BY <1>0, <2>4
      <3>2. \A i \in DOMAIN children[u] : w[n - 1][children[u][i]] = x[n - 1][children[u][i]]
        BY <1>a, <2>1, <3>1
      <3>3. [i \in DOMAIN children[u] |-> w[n - 1][children[u][i]]]
              = [i \in DOMAIN children[u] |-> x[n - 1][children[u][i]]]
        BY <3>2
      <3>4. w[n][u] = Level(w, n, u)
        BY <1>4
      <3> HIDE DEF x
      <3> QED BY <2>4, <3>3, <3>4 DEF Level
    <2> QED BY <2>3, <2>4
  <1>6. P(x)
    BY <1>5
  <1> DEFINE y == CHOOSE w1 : P(w1)
  <1>7. P(y)
    <2> HIDE DEF P, x
    <2> QED BY <1>6
  <1>8. \A t \in Pids : dfs(t) = y[N][t]
    <2> SUFFICES ASSUME NEW t \in Pids PROVE dfs(t) = y[N][t]
      OBVIOUS
    <2> QED BY DEF dfs, Level, N
  <1>9. \A n \in 0 .. N, u \in Pids : y[n][u] = Level(y, n, u)
    <2> HIDE DEF y
    <2>1. y = [n \in 0 .. N |-> [u \in Pids |-> Level(y, n, u)]]
      BY <1>7
    <2>2. \A n \in 0 .. N : y[n] = [u \in Pids |-> Level(y, n, u)]
      BY <2>1, Zenon
    <2> QED BY <2>2, Zenon
  <1> HIDE DEF y
  <1> QED BY <1>8, <1>9

\* After place k of the list, up to i, every parent is at k or later.
Below(s, k, i) == \A m \in k + 1 .. i : \E j \in k .. m - 1 : s[j] = parent[s[m]]

DepthFirstList(s) ==
    \A i \in 2 .. Len(s) : \E k \in 1 .. i - 1 : s[k] = parent[s[i]] /\ Below(s, k, i)

\* A walk from u, in a tree where the rank d grows downwards.
Walk(s, u, d) ==
    /\ s \in Seq(Pids) /\ IsInjective(s) /\ Len(s) >= 1 /\ s[1] = u
    /\ \A q \in Range(s) \ {u} :
          q # 0 /\ life[q] # "free" /\ parent[q] \in Range(s) /\ d[q] > d[u]
    /\ DepthFirstList(s)

LEMMA RankGrows ==
    ASSUME TreeTypes, Family, NEW d, Ranked(d)
    PROVE  /\ d \in [Pids -> Nat]
           /\ \A q \in Pids \ {0} : life[q] # "free" => d[q] > d[parent[q]]
  BY PidsAre DEF Family, Ranked

\* A walk followed by the walk of a child that it has not reached.
LEMMA JoinWalk ==
    ASSUME TreeTypes, Family, NEW d, Ranked(d), NEW u \in Pids, NEW c \in ChildrenOf(u),
           NEW t, Walk(t, u, d), NEW w, Walk(w, c, d), c \notin Range(t)
    PROVE  /\ Walk(t \o w, u, d) /\ Range(t \o w) = Range(t) \cup Range(w)
           /\ \A q \in Range(w) : parent[q] = u => q = c
  <1>1. /\ t \in Seq(Pids) /\ IsInjective(t) /\ Len(t) >= 1 /\ t[1] = u
        /\ w \in Seq(Pids) /\ IsInjective(w) /\ Len(w) >= 1 /\ w[1] = c
        /\ \A q \in Range(t) \ {u} :
              q # 0 /\ life[q] # "free" /\ parent[q] \in Range(t) /\ d[q] > d[u]
        /\ \A q \in Range(w) \ {c} :
              q # 0 /\ life[q] # "free" /\ parent[q] \in Range(w) /\ d[q] > d[c]
    BY DEF Walk
  <1>2. /\ d \in [Pids -> Nat] /\ parent \in [Pids -> Pids]
        /\ \A q \in Pids \ {0} : life[q] # "free" => d[q] > d[parent[q]]
    BY RankGrows DEF TreeTypes
  <1>3. c \in Pids /\ c # 0 /\ life[c] # "free" /\ parent[c] = u /\ d[c] > d[u]
    BY <1>2 DEF ChildrenOf
  <1>4. /\ Len(t) \in Nat /\ Range(t) = {t[i] : i \in 1 .. Len(t)} /\ Range(t) \subseteq Pids
        /\ Len(w) \in Nat /\ Range(w) = {w[i] : i \in 1 .. Len(w)} /\ Range(w) \subseteq Pids
    BY <1>1, RangeProperties
  <1>5. u \in Range(t) /\ c \in Range(w)
    BY <1>1, <1>4
  <1>6. \A q \in Range(w) : d[q] > d[u] /\ d[q] >= d[c] /\ q # 0 /\ life[q] # "free"
    <2> SUFFICES ASSUME NEW q \in Range(w)
                 PROVE  d[q] > d[u] /\ d[q] >= d[c] /\ q # 0 /\ life[q] # "free"
      OBVIOUS
    <2>1. d[q] \in Nat /\ d[u] \in Nat /\ d[c] \in Nat
      BY <1>2, <1>3, <1>4
    <2> QED BY <1>1, <1>3, <2>1
  <1>7. Range(t) \cap Range(w) = {}
    <2> SUFFICES ASSUME Range(t) \cap Range(w) # {} PROVE FALSE
      OBVIOUS
    <2> DEFINE B == {d[q] : q \in Range(t) \cap Range(w)}
    <2>1. B \in SUBSET Nat /\ B # {}
      <3>1. \A q \in Range(t) \cap Range(w) : d[q] \in Nat
        BY <1>2, <1>4
      <3> QED BY <3>1
    <2>2. PICK n \in B : \A m \in B : n <= m
      BY <2>1, LeastElement
    <2>3. PICK q \in Range(t) \cap Range(w) : d[q] = n
      BY <2>2
    <2>4. q # u /\ q # c
      BY <1>2, <1>4, <1>6, <2>3
    <2>5. parent[q] \in Range(t) \cap Range(w) /\ d[q] > d[parent[q]]
      BY <1>1, <1>2, <1>4, <2>3, <2>4
    <2>6. d[q] <= d[parent[q]]
      BY <2>2, <2>3, <2>5
    <2> QED BY <1>2, <1>4, <2>5, <2>6
  <1> DEFINE s == t \o w
  <1>8. /\ s \in Seq(Pids) /\ IsInjective(s) /\ Range(s) = Range(t) \cup Range(w)
        /\ Len(s) = Len(t) + Len(w)
    BY <1>1, <1>7, JoinLists
  <1>9. \A i \in 1 .. Len(t) + Len(w) : s[i] = IF i <= Len(t) THEN t[i] ELSE w[i - Len(t)]
    BY <1>1, ConcatProperties
  <1> HIDE DEF s
  <1>10. \A i \in 1 .. Len(t) : s[i] = t[i]
    BY <1>4, <1>9
  <1>11. ASSUME NEW i \in 1 .. Len(w) PROVE s[i + Len(t)] = w[i]
    <2> DEFINE j == i + Len(t)
    <2>1. j \in 1 .. Len(t) + Len(w) /\ ~(j <= Len(t)) /\ j - Len(t) = i
      BY <1>4
    <2> HIDE DEF j
    <2>2. s[j] = w[j - Len(t)]
      BY <1>9, <2>1
    <2> QED BY <2>1, <2>2 DEF j
  <1>12. s[1] = u /\ Len(s) >= 1
    BY <1>1, <1>4, <1>8, <1>10
  <1>13. ASSUME NEW q \in Range(s) \ {u}
         PROVE  q # 0 /\ life[q] # "free" /\ parent[q] \in Range(s) /\ d[q] > d[u]
    BY <1>1, <1>3, <1>5, <1>6, <1>8
  <1>14. ASSUME NEW i \in 2 .. Len(t)
         PROVE  \E k \in 1 .. i - 1 : s[k] = parent[s[i]] /\ Below(s, k, i)
    <2>1. PICK k \in 1 .. i - 1 : t[k] = parent[t[i]] /\ Below(t, k, i)
      BY <1>1 DEF Walk, DepthFirstList
    <2>2. s[k] = parent[s[i]]
      BY <1>4, <1>10, <2>1
    <2>3. ASSUME NEW m \in k + 1 .. i PROVE \E j \in k .. m - 1 : s[j] = parent[s[m]]
      <3>1. PICK j \in k .. m - 1 : t[j] = parent[t[m]]
        BY <2>1 DEF Below
      <3>2. j \in 1 .. Len(t) /\ m \in 1 .. Len(t)
        BY <1>4
      <3> QED BY <1>10, <3>1, <3>2
    <2> QED BY <2>2, <2>3 DEF Below
  <1>15. ASSUME NEW i \in 2 .. Len(w)
         PROVE  \E k \in 1 .. i + Len(t) - 1 : s[k] = parent[s[i + Len(t)]] /\ Below(s, k, i + Len(t))
    <2>1. PICK k \in 1 .. i - 1 : w[k] = parent[w[i]] /\ Below(w, k, i)
      BY <1>1 DEF Walk, DepthFirstList
    <2>2. k \in 1 .. Len(w) /\ i \in 1 .. Len(w)
      BY <1>4
    <2>3. s[k + Len(t)] = parent[s[i + Len(t)]]
      BY <1>11, <2>1, <2>2
    <2>4. ASSUME NEW m \in k + Len(t) + 1 .. i + Len(t)
          PROVE  \E j \in k + Len(t) .. m - 1 : s[j] = parent[s[m]]
      <3> DEFINE n == m - Len(t)
      <3>1. n \in k + 1 .. i /\ n + Len(t) = m /\ n \in 1 .. Len(w)
        BY <1>4
      <3> HIDE DEF n
      <3>2. PICK j \in k .. n - 1 : w[j] = parent[w[n]]
        BY <2>1, <3>1 DEF Below
      <3>3. j \in 1 .. Len(w) /\ j + Len(t) \in k + Len(t) .. m - 1
        BY <1>4, <3>1
      <3>4. s[j + Len(t)] = parent[s[n + Len(t)]]
        BY <1>11, <3>1, <3>2, <3>3
      <3> QED BY <3>1, <3>3, <3>4
    <2>5. Below(s, k + Len(t), i + Len(t))
      BY <2>4 DEF Below
    <2>6. k + Len(t) \in 1 .. i + Len(t) - 1
      BY <1>4
    <2> QED BY <2>3, <2>5, <2>6
  <1>16. s[1] = parent[s[1 + Len(t)]] /\ Below(s, 1, 1 + Len(t))
    <2>1. s[1 + Len(t)] = c
      BY <1>1, <1>4, <1>11
    <2>2. ASSUME NEW m \in 1 + 1 .. 1 + Len(t) PROVE \E j \in 1 .. m - 1 : s[j] = parent[s[m]]
      <3>1. CASE m = 1 + Len(t)
        <4>1. 1 \in 1 .. m - 1
          BY <1>1, <1>4, <3>1
        <4> QED BY <1>3, <1>12, <2>1, <3>1, <4>1
      <3>2. CASE m # 1 + Len(t)
        <4>1. m \in 2 .. Len(t)
          BY <1>4, <3>2
        <4> QED BY <1>14, <4>1
      <3> QED BY <3>1, <3>2
    <2> QED BY <1>3, <1>12, <2>1, <2>2 DEF Below
  <1>17. DepthFirstList(s)
    <2> SUFFICES ASSUME NEW i \in 2 .. Len(s)
                 PROVE  \E k \in 1 .. i - 1 : s[k] = parent[s[i]] /\ Below(s, k, i)
      BY DEF DepthFirstList
    <2>1. CASE i \in 2 .. Len(t)
      BY <1>14, <2>1
    <2>2. CASE i = 1 + Len(t)
      <3>1. 1 \in 1 .. i - 1
        BY <1>1, <1>4, <2>2
      <3> QED BY <1>16, <2>2, <3>1
    <2>3. CASE i \notin 2 .. Len(t) /\ i # 1 + Len(t)
      <3> DEFINE n == i - Len(t)
      <3>1. n \in 2 .. Len(w) /\ i = n + Len(t)
        <4>1. Len(t) \in Nat /\ Len(w) \in Nat /\ Len(t) >= 1 /\ Len(s) = Len(t) + Len(w)
          BY <1>1, <1>4, <1>8
        <4>2. i \in 2 .. Len(t) + Len(w) /\ ~(i <= Len(t)) /\ i # 1 + Len(t)
          BY <2>3, <4>1
        <4> QED BY <4>1, <4>2
      <3> HIDE DEF n
      <3>2. \E k \in 1 .. n + Len(t) - 1 : s[k] = parent[s[n + Len(t)]] /\ Below(s, k, n + Len(t))
        BY <1>15, <3>1
      <3> QED BY ONLY <3>1, <3>2
    <2> QED BY <2>1, <2>2, <2>3
  <1>18. ASSUME NEW q \in Range(w), parent[q] = u PROVE q = c
    <2> SUFFICES ASSUME q # c PROVE FALSE
      OBVIOUS
    <2> QED BY <1>1, <1>2, <1>5, <1>7, <1>18
  <1>19. Walk(s, u, d)
    BY <1>8, <1>12, <1>13, <1>17 DEF Walk
  <1> QED BY <1>8, <1>18, <1>19 DEF s

\* A task, followed by one list for each of its children.
LEMMA OneLevel ==
    ASSUME TreeTypes, Family, NEW d, Ranked(d), NEW u \in Pids, NEW s,
           s \in Seq(Seq(Pids)), Len(s) = Len(children[u]),
           \A i \in 1 .. Len(s) : s[i] = <<>> \/ Walk(s[i], children[u][i], d)
    PROVE  /\ Walk(<<u>> \o FlattenSeq(s), u, d)
           /\ Range(<<u>> \o FlattenSeq(s)) = {u} \cup UNION {Range(s[i]) : i \in 1 .. Len(s)}
  <1> DEFINE h == children[u]
             L == Len(s)
  <1>1. /\ h \in Seq(Pids) /\ L \in Nat /\ Range(h) = ChildrenOf(u)
        /\ Range(h) = {h[i] : i \in 1 .. L}
        /\ \A i, j \in 1 .. L : h[i] = h[j] => i = j
    <2>1. h \in Seq(Pids) /\ IsInjective(h) /\ Range(h) = ChildrenOf(u) /\ Len(h) = L
      BY DEF TreeTypes, Family
    <2> HIDE DEF h, L
    <2> QED BY <2>1, RangeProperties
  <1>2. PICK f : /\ \A i \in 1 .. L : f[i] = IF i = 1 THEN s[i] ELSE f[i - 1] \o s[i]
                 /\ L > 0 => FlattenSeq(s) = f[L]
    BY <1>1, FlattenIs
  <1>3. L = 0 => FlattenSeq(s) = <<>>
    <2>1. L = 0 => FlattenSeq(s) = s
      BY <1>1, FlattenIs
    <2>2. L = 0 => s = <<>>
      BY EmptySeq
    <2> QED BY <2>1, <2>2
  <1>4. \A i \in 1 .. L : s[i] \in Seq(Pids)
    BY ElementOfSeq
  <1>5. \A i \in 1 .. L : s[i] = <<>> \/ Walk(s[i], h[i], d)
    OBVIOUS
  <1>6. <<u>> \in Seq(Pids) /\ Range(<<u>>) = {u} /\ IsInjective(<<u>>) /\ Len(<<u>>) = 1 /\ <<u>>[1] = u
    BY OneList
  <1> HIDE DEF h, L
  <1> DEFINE X(i) == IF i = 0 THEN <<u>> ELSE <<u>> \o f[i]
             C(i) == /\ i > 0 => f[i] \in Seq(Pids)
                     /\ Walk(X(i), u, d)
                     /\ Range(X(i)) = {u} \cup UNION {Range(s[j]) : j \in 1 .. i}
                     /\ \A q \in Range(X(i)) \ {u} : parent[q] = u => \E j \in 1 .. i : q = h[j]
             S == {i \in 0 .. L : C(i)}
  <1>7. 0 \in S
    <2>1. Walk(<<u>>, u, d)
      BY <1>6 DEF Walk, DepthFirstList
    <2>2. 1 .. 0 = {}
      OBVIOUS
    <2>3. X(0) = <<u>> /\ UNION {Range(s[j]) : j \in 1 .. 0} = {}
      BY <2>2
    <2> HIDE DEF X
    <2>4. C(0)
      BY <1>6, <2>1, <2>3
    <2> HIDE DEF C
    <2> QED BY <1>1, <2>4
  <1>8. ASSUME NEW i \in 1 .. L, i - 1 \in S PROVE i \in S
    <2>0. C(i - 1) /\ i # 0 /\ i - 1 \in 0 .. L
      <3> HIDE DEF C
      <3> QED BY <1>1, <1>8
    <2> DEFINE t == X(i - 1)
               c == h[i]
               v == s[i]
    <2>1. /\ i - 1 > 0 => f[i - 1] \in Seq(Pids)
          /\ Walk(t, u, d) /\ t \in Seq(Pids)
          /\ Range(t) = {u} \cup UNION {Range(s[j]) : j \in 1 .. i - 1}
          /\ \A q \in Range(t) \ {u} : parent[q] = u => \E j \in 1 .. i - 1 : q = h[j]
      BY <2>0 DEF Walk
    <2>2. c \in ChildrenOf(u) /\ c # u
      <3>1. c \in ChildrenOf(u)
        BY <1>1
      <3>2. d[c] > d[parent[c]] /\ d[u] \in Nat /\ parent[c] = u
        BY <3>1, RankGrows DEF ChildrenOf
      <3> QED BY <3>1, <3>2
    <2>3. c \notin Range(t)
      <3> SUFFICES ASSUME c \in Range(t) PROVE FALSE
        OBVIOUS
      <3>1. PICK j \in 1 .. i - 1 : c = h[j]
        BY <2>1, <2>2 DEF ChildrenOf
      <3>2. j \in 1 .. L /\ j # i
        BY <1>1
      <3> QED BY <1>1, <3>1, <3>2
    <2>4. f[i] \in Seq(Pids) /\ X(i) = t \o v
      <3>1. CASE i = 1
        BY <1>1, <1>2, <1>4, <3>1
      <3>2. CASE i # 1
        <4>1. f[i] = f[i - 1] \o s[i] /\ f[i - 1] \in Seq(Pids) /\ i - 1 # 0
          <5>1. i \in 1 .. L /\ i - 1 > 0
            BY <1>1, <3>2
          <5>2. f[i] = f[i - 1] \o s[i]
            BY <1>2, <3>2
          <5>3. f[i - 1] \in Seq(Pids)
            BY <2>1, <5>1
          <5> QED BY <5>1, <5>2, <5>3
        <4>2. f[i] \in Seq(Pids)
          BY <1>4, <4>1, ConcatProperties
        <4>3. v \in Seq(Pids)
          BY <1>4
        <4>4. (<<u>> \o f[i - 1]) \o v = <<u>> \o (f[i - 1] \o v)
          <5>1. \A a, b, e \in Seq(Pids) : (a \o b) \o e = a \o (b \o e)
            BY Associates
          <5> HIDE DEF v
          <5> QED BY <1>6, <4>1, <4>3, <5>1, Zenon
        <4> QED BY <2>0, <4>1, <4>2, <4>4
      <3> QED BY <3>1, <3>2
    <2>5. v \in Seq(Pids) /\ (v = <<>> \/ Walk(v, c, d))
      BY <1>4, <1>5
    <2>6. UNION {Range(s[j]) : j \in 1 .. i} = Range(v) \cup UNION {Range(s[j]) : j \in 1 .. i - 1}
      <3>1. \A j : j \in 1 .. i <=> j = i \/ j \in 1 .. i - 1
        BY <1>1
      <3> QED BY <3>1
    <2> HIDE DEF t, c, v, X
    <2>7. CASE v = <<>>
      <3>1. X(i) = t /\ Range(v) = {}
        BY <2>1, <2>4, <2>7, ConcatEmptySeq, NoList
      <3>2. \A j : j \in 1 .. i - 1 => j \in 1 .. i
        BY <1>1
      <3>3. C(i)
        BY <2>1, <2>4, <2>6, <3>1, <3>2
      <3> HIDE DEF C
      <3> QED BY <1>1, <3>3
    <2>8. CASE Walk(v, c, d)
      <3>1. /\ Walk(t \o v, u, d) /\ Range(t \o v) = Range(t) \cup Range(v)
            /\ \A q \in Range(v) : parent[q] = u => q = c
        BY <2>1, <2>2, <2>3, <2>8, JoinWalk
      <3>2. \A q \in Range(X(i)) \ {u} : parent[q] = u => \E j \in 1 .. i : q = h[j]
        <4> SUFFICES ASSUME NEW q \in Range(X(i)) \ {u}, parent[q] = u
                     PROVE  \E j \in 1 .. i : q = h[j]
          OBVIOUS
        <4>1. CASE q \in Range(v)
          <5>1. q = h[i] /\ i \in 1 .. i
            BY <3>1, <4>1 DEF c
          <5> QED BY <5>1
        <4>2. CASE q \in Range(t)
          <5>1. PICK j \in 1 .. i - 1 : q = h[j]
            BY <2>1, <4>2
          <5>2. j \in 1 .. i
            BY <1>1
          <5> QED BY <5>1, <5>2
        <4> QED BY <2>4, <3>1, <4>1, <4>2
      <3>3. Range(X(i)) = {u} \cup UNION {Range(s[j]) : j \in 1 .. i}
        BY <2>1, <2>4, <2>6, <3>1
      <3>4. Walk(X(i), u, d)
        BY <2>4, <3>1
      <3>5. C(i)
        BY <2>4, <3>2, <3>3, <3>4
      <3> HIDE DEF C
      <3> QED BY <1>1, <3>5
    <2> QED BY <2>5, <2>7, <2>8
  <1>9. C(L)
    <2> HIDE DEF S, C
    <2>1. \A n \in 0 .. L : n \in S
      BY <1>1, <1>7, <1>8, UpTo
    <2>2. L \in S
      BY <1>1, <2>1
    <2> QED BY <2>2 DEF S
  <1>10. X(L) = <<u>> \o FlattenSeq(s)
    <2>1. CASE L = 0
      BY <1>3, <1>6, <2>1, ConcatEmptySeq
    <2>2. CASE L # 0
      BY <1>1, <1>2, <2>2
    <2> QED BY <2>1, <2>2
  <1>11. Walk(X(L), u, d) /\ Range(X(L)) = {u} \cup UNION {Range(s[j]) : j \in 1 .. L}
    BY <1>9
  <1> HIDE DEF X
  <1> QED BY <1>10, <1>11 DEF L

\* The levels of the walk of a tree.
Levels(w) == \A n \in 0 .. N, u \in Pids : w[n][u] = Level(w, n, u)

LEMMA LevelsWalk ==
    ASSUME TreeTypes, Family, NEW d, Ranked(d), NEW w, Levels(w)
    PROVE  \A n \in 0 .. N, u \in Pids :
              /\ n = 0 => w[n][u] = <<>>
              /\ n > 0 => /\ Walk(w[n][u], u, d)
                          /\ Range(w[n][u]) = {u} \cup UNION {Range(w[n - 1][c]) : c \in ChildrenOf(u)}
  <1>0. N \in Nat
    BY PidsAre DEF N
  <1> DEFINE C(n, u) == /\ n = 0 => w[n][u] = <<>>
                        /\ n > 0 => /\ Walk(w[n][u], u, d)
                                    /\ Range(w[n][u])
                                         = {u} \cup UNION {Range(w[n - 1][c]) : c \in ChildrenOf(u)}
             S == {n \in 0 .. N : \A u \in Pids : C(n, u)}
  <1>1. 0 \in S
    <2>1. ASSUME NEW u \in Pids PROVE C(0, u)
      <3>1. 0 \in 0 .. N /\ ~(0 > 0)
        BY <1>0
      <3>2. w[0][u] = Level(w, 0, u)
        BY <3>1 DEF Levels
      <3>3. w[0][u] = <<>>
        BY <3>2 DEF Level
      <3> QED BY <3>1, <3>3
    <2> HIDE DEF C
    <2> QED BY <1>0, <2>1
  <1>2. ASSUME NEW n \in 1 .. N, n - 1 \in S PROVE n \in S
    <2>1. n \in 0 .. N /\ n - 1 \in 0 .. N /\ n # 0
      BY <1>0
    <2>2. ASSUME NEW q \in Pids PROVE w[n - 1][q] = <<>> \/ Walk(w[n - 1][q], q, d)
      <3>1. C(n - 1, q)
        <4> HIDE DEF C
        <4> QED BY <1>2
      <3>2. n - 1 = 0 \/ n - 1 > 0
        BY <2>1
      <3> QED BY <3>1, <3>2
    <2>3. \A q \in Pids : w[n - 1][q] \in Seq(Pids)
      <3> SUFFICES ASSUME NEW q \in Pids PROVE w[n - 1][q] \in Seq(Pids)
        OBVIOUS
      <3>1. CASE w[n - 1][q] = <<>>
        BY <3>1, NoList
      <3>2. CASE Walk(w[n - 1][q], q, d)
        BY <3>2 DEF Walk
      <3> QED BY <2>2, <3>1, <3>2
    <2>4. ASSUME NEW u \in Pids PROVE C(n, u)
      <3> DEFINE h == children[u]
                 s == [i \in DOMAIN children[u] |-> w[n - 1][children[u][i]]]
      <3>1. h \in Seq(Pids) /\ Range(h) = ChildrenOf(u)
        BY DEF TreeTypes, Family
      <3>2. Len(h) \in Nat /\ DOMAIN h = 1 .. Len(h) /\ (\A i \in 1 .. Len(h) : h[i] \in Pids)
            /\ Range(h) = {h[i] : i \in 1 .. Len(h)}
        <4> HIDE DEF h
        <4> QED BY <3>1, RangeProperties, ElementOfSeq, LenProperties
      <3>3. s = [i \in 1 .. Len(h) |-> w[n - 1][h[i]]]
        BY <3>2
      <3>4. /\ s \in Seq(Seq(Pids)) /\ Len(s) = Len(h)
            /\ \A i \in 1 .. Len(s) : s[i] = w[n - 1][h[i]]
        <4> HIDE DEF h, s
        <4>1. \A i \in 1 .. Len(h) : s[i] = w[n - 1][h[i]]
          BY <3>3
        <4>2. \A i \in 1 .. Len(h) : w[n - 1][h[i]] \in Seq(Pids)
          BY <2>3, <3>2
        <4>3. s \in [1 .. Len(h) -> Seq(Pids)]
          BY <3>3, <4>2
        <4> QED BY <3>2, <4>1, <4>3
      <3>5. \A i \in 1 .. Len(s) : s[i] = <<>> \/ Walk(s[i], children[u][i], d)
        <4> HIDE DEF s
        <4>1. \A i \in 1 .. Len(s) : h[i] \in Pids /\ s[i] = w[n - 1][h[i]]
          BY <3>2, <3>4
        <4> QED BY <2>2, <4>1
      <3>6. w[n][u] = <<u>> \o FlattenSeq(s)
        BY <2>1 DEF Levels, Level
      <3>7. /\ Walk(<<u>> \o FlattenSeq(s), u, d)
            /\ Range(<<u>> \o FlattenSeq(s)) = {u} \cup UNION {Range(s[i]) : i \in 1 .. Len(s)}
        <4>1. Len(s) = Len(children[u])
          BY <3>4
        <4>2. s \in Seq(Seq(Pids))
          BY <3>4
        <4> HIDE DEF s, h
        <4> QED BY <3>5, <4>1, <4>2, OneLevel
      <3>8. UNION {Range(s[i]) : i \in 1 .. Len(s)} = UNION {Range(w[n - 1][c]) : c \in ChildrenOf(u)}
        <4> HIDE DEF s, h
        <4>1. {Range(s[i]) : i \in 1 .. Len(s)} = {Range(w[n - 1][h[i]]) : i \in 1 .. Len(h)}
          BY <3>4
        <4>2. {Range(w[n - 1][h[i]]) : i \in 1 .. Len(h)} = {Range(w[n - 1][c]) : c \in ChildrenOf(u)}
          BY <3>1, <3>2
        <4> QED BY <4>1, <4>2
      <3> HIDE DEF s, h
      <3> QED BY <2>1, <3>6, <3>7, <3>8
    <2> HIDE DEF C
    <2> QED BY <2>1, <2>4
  <1>3. \A n \in 0 .. N : n \in S
    <2> HIDE DEF S
    <2> QED BY <1>0, <1>1, <1>2, UpTo
  <1> QED BY <1>3

-----------------------------------------------------------------------------
(* PsTree: the walk reaches every process *)

\* A process and its ancestors: the least set with it that has the parents of its members.
Line(q) ==
    {x \in Pids : \A S \in SUBSET Pids : (q \in S /\ \A y \in S : parent[y] \in S) => x \in S}

Used == {q \in Pids : life[q] # "free"}

LEMMA LineIs ==
    ASSUME TreeTypes, Family, NEW d, Ranked(d)
    PROVE  /\ \A q \in Pids : Cardinality(Line(q)) \in 1 .. N
           /\ Cardinality(Line(0)) = 1
           /\ \A q \in Used \ {0} : /\ parent[q] \in Used /\ q \in ChildrenOf(parent[q])
                                    /\ Cardinality(Line(q)) = Cardinality(Line(parent[q])) + 1
  <1>0. N \in Nat /\ IsFiniteSet(Pids) /\ 0 \in Pids
    BY PidsAre DEF N
  <1>1. /\ \A q \in Pids : parent[q] \in Pids
        /\ parent[0] = 0 /\ 0 \in Used /\ d \in [Pids -> Nat]
        /\ \A q \in Pids \ {0} : life[q] # "free" => d[q] > d[parent[q]]
    BY <1>0, RankGrows DEF TreeTypes, Family, Used
  <1>2. \A q \in Pids : q \in Line(q) /\ \A y \in Line(q) : parent[y] \in Line(q)
    BY <1>1 DEF Line
  <1>3. ASSUME NEW q \in Pids PROVE IsFiniteSet(Line(q)) /\ Cardinality(Line(q)) \in 1 .. N
    <2>1. Line(q) \in SUBSET Pids
      BY DEF Line
    <2>2. IsFiniteSet(Line(q)) /\ Cardinality(Line(q)) \in Nat /\ Cardinality(Line(q)) <= N
      BY <1>0, <2>1, FS_Subset, FS_CardinalityType DEF N
    <2>3. Cardinality(Line(q)) # 0
      BY <1>2, <2>2, FS_EmptySet
    <2> QED BY <1>0, <2>2, <2>3
  <1>4. Cardinality(Line(0)) = 1
    <2>1. {0} \in SUBSET Pids /\ 0 \in {0} /\ \A y \in {0} : parent[y] \in {0}
      BY <1>0, <1>1
    <2>2. Line(0) = {0}
      BY <1>0, <1>2, <2>1 DEF Line
    <2> QED BY <2>2, FS_Singleton
  <1>5. ASSUME NEW q \in Used \ {0} PROVE q \in ChildrenOf(parent[q]) /\ parent[q] \in Used
    <2>1. q \in ChildrenOf(parent[q])
      BY DEF Used, ChildrenOf
    <2>2. parent[q] \in Pids /\ children[parent[q]] # <<>>
      BY <1>1, <2>1, NoList DEF Family, Used
    <2>3. life[parent[q]] = "live"
      BY <2>2 DEF Family
    <2> QED BY <2>1, <2>2, <2>3 DEF Used
  <1>6. ASSUME NEW q \in Used \ {0} PROVE Cardinality(Line(q)) = Cardinality(Line(parent[q])) + 1
    <2> DEFINE p == parent[q]
               B == {x \in Used : d[x] < d[q]}
    <2>1. q \in Pids /\ p \in Used /\ p \in Pids /\ d[p] < d[q] /\ d[q] \in Nat
      BY <1>1, <1>5 DEF Used
    <2>2. B \in SUBSET Pids /\ p \in B /\ q \notin B
      BY <2>1 DEF Used
    <2>3. ASSUME NEW x \in B PROVE parent[x] \in B
      <3>1. CASE x = 0
        BY <1>1, <3>1
      <3>2. CASE x # 0
        <4>1. parent[x] \in Used
          BY <1>5, <3>2
        <4>2. d[x] > d[parent[x]] /\ d[x] < d[q] /\ d[x] \in Nat /\ d[parent[x]] \in Nat
          BY <1>1, <3>2, <4>1 DEF Used
        <4> QED BY <2>1, <4>1, <4>2
      <3> QED BY <3>1, <3>2
    <2>4. Line(p) \subseteq B
      <3> HIDE DEF B
      <3> QED BY <2>1, <2>2, <2>3 DEF Line
    <2>5. q \notin Line(p)
      BY <2>2, <2>4
    <2>6. p \in Line(q)
      BY <1>2, <2>1
    <2>7. Line(p) \subseteq Line(q)
      BY <1>2, <2>1, <2>6 DEF Line
    <2>8. Line(q) \subseteq Line(p) \cup {q}
      <3> DEFINE S == Line(p) \cup {q}
      <3>1. S \in SUBSET Pids /\ q \in S
        BY <2>1 DEF Line
      <3>2. \A y \in S : parent[y] \in S
        BY <1>2, <2>1
      <3> HIDE DEF S
      <3>3. Line(q) \subseteq S
        BY <3>1, <3>2 DEF Line
      <3> QED BY <3>3 DEF S
    <2>9. Line(q) = Line(p) \cup {q}
      BY <1>2, <2>1, <2>7, <2>8
    <2> HIDE DEF p
    <2> QED BY <1>3, <2>1, <2>5, <2>9, FS_AddElement DEF p
  <1> QED BY <1>3, <1>4, <1>5, <1>6

LEMMA WalkReaches ==
    ASSUME TreeTypes, Family, NEW d, Ranked(d), NEW w, Levels(w)
    PROVE  Walk(w[N][0], 0, d) /\ Range(w[N][0]) = Used
  <1>0. /\ N \in Nat /\ 0 \in Pids /\ 0 \in Used
        /\ \A q \in Pids : Cardinality(Line(q)) \in 1 .. N
        /\ Cardinality(Line(0)) = 1
        /\ \A q \in Used \ {0} : /\ parent[q] \in Used /\ q \in ChildrenOf(parent[q])
                                 /\ Cardinality(Line(q)) = Cardinality(Line(parent[q])) + 1
    BY PidsAre, LineIs DEF N, Family, Used
  <1>1. N >= 1
    BY <1>0
  <1>2. \A n \in 1 .. N, u \in Pids :
           /\ Walk(w[n][u], u, d)
           /\ Range(w[n][u]) = {u} \cup UNION {Range(w[n - 1][c]) : c \in ChildrenOf(u)}
    <2>1. \A n \in 1 .. N : n \in 0 .. N /\ n > 0
      BY <1>0
    <2> QED BY <2>1, LevelsWalk
  <1>3. Walk(w[N][0], 0, d)
    BY <1>0, <1>1, <1>2
  <1>4. Range(w[N][0]) \subseteq Used
    <2>1. Range(w[N][0]) \subseteq Pids
      BY <1>3, RangeProperties DEF Walk
    <2> QED BY <1>0, <1>3, <2>1 DEF Walk, Used
  <1> DEFINE C(k) == \A x \in Used : Cardinality(Line(x)) = k + 1 => Range(w[N - k][x]) \subseteq Range(w[N][0])
             S == {k \in 0 .. N - 1 : C(k)}
  <1>5. 0 \in S
    <2>1. ASSUME NEW x \in Used, Cardinality(Line(x)) = 0 + 1 PROVE x = 0
      <3> SUFFICES ASSUME x # 0 PROVE FALSE
        OBVIOUS
      <3>1. parent[x] \in Pids /\ Cardinality(Line(x)) = Cardinality(Line(parent[x])) + 1
        BY <1>0 DEF Used
      <3>2. Cardinality(Line(parent[x])) \in 1 .. N
        BY <1>0, <3>1
      <3> QED BY <2>1, <3>1, <3>2
    <2>2. N - 0 = N
      BY <1>0
    <2> QED BY <1>0, <1>1, <2>1, <2>2
  <1>6. ASSUME NEW k \in 1 .. N - 1, k - 1 \in S PROVE k \in S
    <2>1. ASSUME NEW x \in Used, Cardinality(Line(x)) = k + 1
          PROVE  Range(w[N - k][x]) \subseteq Range(w[N][0])
      <3>1. x # 0 /\ x \in Pids
        BY <1>0, <2>1 DEF Used
      <3> DEFINE y == parent[x]
      <3>2. y \in Used /\ x \in ChildrenOf(y) /\ Cardinality(Line(x)) = Cardinality(Line(y)) + 1
        BY <1>0, <3>1
      <3>3. Cardinality(Line(y)) = (k - 1) + 1
        <4>1. Cardinality(Line(y)) \in 1 .. N
          BY <1>0, <3>2 DEF Used
        <4> QED BY <2>1, <3>2, <4>1
      <3> HIDE DEF y
      <3>4. Range(w[N - (k - 1)][y]) \subseteq Range(w[N][0])
        BY <1>6, <3>2, <3>3
      <3>5. N - (k - 1) \in 1 .. N /\ (N - (k - 1)) - 1 = N - k
        BY <1>0
      <3>6. Range(w[N - (k - 1)][y]) = {y} \cup UNION {Range(w[(N - (k - 1)) - 1][c]) : c \in ChildrenOf(y)}
        BY <1>2, <3>2, <3>5 DEF Used
      <3>7. Range(w[N - k][x]) \subseteq Range(w[N - (k - 1)][y])
        BY <3>2, <3>5, <3>6
      <3> QED BY <3>4, <3>7
    <2>2. k \in 0 .. N - 1
      BY <1>0
    <2> QED BY <2>1, <2>2
  <1>7. \A k \in 0 .. N - 1 : k \in S
    <2> HIDE DEF S
    <2>1. N - 1 \in Nat
      BY <1>0, <1>1
    <2> QED BY <1>5, <1>6, <2>1, UpTo
  <1>8. ASSUME NEW x \in Used PROVE x \in Range(w[N][0])
    <2> DEFINE k == Cardinality(Line(x)) - 1
    <2>1. k \in 0 .. N - 1 /\ Cardinality(Line(x)) = k + 1 /\ N - k \in 1 .. N /\ x \in Pids
      BY <1>0 DEF Used
    <2> HIDE DEF k
    <2>2. Range(w[N - k][x]) \subseteq Range(w[N][0])
      BY <1>7, <2>1
    <2>3. x \in Range(w[N - k][x])
      BY <1>2, <2>1
    <2> QED BY <2>2, <2>3
  <1> QED BY <1>3, <1>4, <1>8

-----------------------------------------------------------------------------
(* PsTree: what the system call returns *)

\* Of k .. i in the answer, all after k have a parent from k on.
Under(b, k, i) == \A m \in k + 1 .. i : \E j \in k .. m - 1 : b[j].pid = b[m].parent_pid

\* A state of a tree in depth-first order, init_task first.
Listing(b) ==
    /\ Len(b) \in 0 .. N /\ DOMAIN b = 1 .. Len(b)
    /\ Len(b) > 0 => b[1].parent_pid = 0
    /\ \A i \in 1 .. Len(b) :
          b[i].pid \in Pids /\ b[i].parent_pid \in Pids /\ (b[i].pid = 0 <=> i = 1)
    /\ \A i, j \in 1 .. Len(b) : b[i].pid = b[j].pid => i = j
    /\ \A i \in 2 .. Len(b) : \E k \in 1 .. i - 1 : b[k].pid = b[i].parent_pid /\ Under(b, k, i)

LEMMA NothingListed == Listing(<<>>)
  <1>1. N \in Nat
    BY PidsAre DEF N
  <1> QED BY <1>1 DEF Listing

LEMMA CallLists ==
    ASSUME TreeInv, sys_pstreecall
    PROVE  Listing(buf') /\ {buf'[i].pid : i \in DOMAIN buf'} = Used /\ Len(buf') >= 1
  <1>1. TreeTypes /\ Family /\ \E d : Ranked(d)
    BY DEF TreeInv
  <1>2. PICK d : Ranked(d)
    BY <1>1
  <1>3. PICK w : /\ Levels(w) /\ \A t \in Pids : dfs(t) = w[N][t]
    BY <1>1, WalkIs DEF Levels
  <1>4. Walk(dfs(0), 0, d) /\ Range(dfs(0)) = Used
    BY <1>1, <1>2, <1>3, PidsAre, WalkReaches
  <1> DEFINE s == dfs(0)
  <1>5. buf' = [i \in DOMAIN s |-> convert(s[i])]
    BY DEF sys_pstreecall
  <1>6. /\ s \in Seq(Pids) /\ IsInjective(s) /\ Len(s) >= 1 /\ s[1] = 0 /\ Range(s) = Used
        /\ DepthFirstList(s)
    BY <1>4 DEF Walk
  <1> HIDE DEF s
  <1>7. /\ Len(s) \in Nat /\ DOMAIN s = 1 .. Len(s) /\ Range(s) = {s[i] : i \in 1 .. Len(s)}
        /\ \A i \in 1 .. Len(s) : s[i] \in Pids
        /\ \A i, j \in 1 .. Len(s) : s[i] = s[j] => i = j
    BY <1>6, RangeProperties, ElementOfSeq, LenProperties
  <1> DEFINE b == buf'
  <1>8. DOMAIN b = 1 .. Len(s) /\ Len(b) = Len(s)
    BY <1>5, <1>7
  <1>9. \A i \in 1 .. Len(s) : b[i].pid = s[i] /\ b[i].parent_pid = parent[s[i]]
    <2> SUFFICES ASSUME NEW i \in 1 .. Len(s) PROVE b[i].pid = s[i] /\ b[i].parent_pid = parent[s[i]]
      OBVIOUS
    <2>1. b[i] = convert(s[i])
      BY <1>5, <1>7
    <2> HIDE DEF b
    <2> QED BY <2>1 DEF convert
  <1> HIDE DEF b
  <1>10. {b[i].pid : i \in DOMAIN b} = Used
    BY <1>6, <1>7, <1>8, <1>9
  <1>11. \A i \in 1 .. Len(b) :
            b[i].pid \in Pids /\ b[i].parent_pid \in Pids /\ (b[i].pid = 0 <=> i = 1)
    <2> SUFFICES ASSUME NEW i \in 1 .. Len(b)
                 PROVE  b[i].pid \in Pids /\ b[i].parent_pid \in Pids /\ (b[i].pid = 0 <=> i = 1)
      OBVIOUS
    <2>1. i \in 1 .. Len(s) /\ b[i].pid = s[i] /\ b[i].parent_pid = parent[s[i]] /\ s[i] \in Pids
      BY <1>7, <1>8, <1>9
    <2>2. s[i] = 0 <=> i = 1
      <3>1. 1 \in 1 .. Len(s)
        BY <1>6, <1>7
      <3> QED BY <1>6, <1>7, <2>1, <3>1
    <2> QED BY <1>1, <2>1, <2>2 DEF TreeTypes
  <1>12. \A i, j \in 1 .. Len(b) : b[i].pid = b[j].pid => i = j
    BY <1>7, <1>8, <1>9
  <1>13. ASSUME NEW i \in 2 .. Len(b)
         PROVE  \E k \in 1 .. i - 1 : b[k].pid = b[i].parent_pid /\ Under(b, k, i)
    <2>1. PICK k \in 1 .. i - 1 : s[k] = parent[s[i]] /\ Below(s, k, i)
      BY <1>6, <1>8 DEF DepthFirstList
    <2>2. k \in 1 .. Len(s) /\ i \in 1 .. Len(s)
      BY <1>7, <1>8
    <2>3. ASSUME NEW m \in k + 1 .. i PROVE \E j \in k .. m - 1 : b[j].pid = b[m].parent_pid
      <3>1. PICK j \in k .. m - 1 : s[j] = parent[s[m]]
        BY <2>1 DEF Below
      <3>2. j \in 1 .. Len(s) /\ m \in 1 .. Len(s)
        BY <1>7, <1>8
      <3> QED BY <1>9, <3>1, <3>2
    <2> QED BY <1>9, <2>1, <2>2, <2>3 DEF Under
  <1>14. b[1].parent_pid = 0
    BY <1>1, <1>6, <1>7, <1>9 DEF Family
  <1>15. Len(s) <= N
    <2> SUFFICES ASSUME ~(Len(s) <= N) PROVE FALSE
      OBVIOUS
    <2>1. N \in Nat /\ IsFiniteSet(Pids) /\ N = Cardinality(Pids)
      BY PidsAre DEF N
    <2>2. IsFiniteSet(1 .. Len(s)) /\ Cardinality(1 .. Len(s)) = Len(s)
      BY <1>7, FS_Interval
    <2>3. s \in [1 .. Len(s) -> Pids] /\ Cardinality(Pids) < Cardinality(1 .. Len(s))
      BY <1>6, <1>7, <2>1, <2>2
    <2>4. \E x, y \in 1 .. Len(s) : x # y /\ s[x] = s[y]
      BY <2>1, <2>2, <2>3, FS_PigeonHole
    <2> QED BY <1>7, <2>4
  <1>16. Listing(b)
    BY <1>7, <1>8, <1>11, <1>12, <1>13, <1>14, <1>15 DEF Listing
  <1> QED BY <1>6, <1>8, <1>10, <1>16 DEF b

LEMMA ListingIs ==
    ASSUME Listing(buf)
    PROVE  DepthFirst /\ \A i \in 1 .. Len(buf) : Position(buf[i].pid) = i
  <1>1. \A i \in 1 .. Len(buf) : Position(buf[i].pid) = i
    BY DEF Listing, Position
  <1>2. ASSUME NEW i \in DOMAIN buf \ {1}
        PROVE  \E k \in 1 .. i - 1 : /\ buf[k].pid = buf[i].parent_pid
                                     /\ \A m \in k + 1 .. i : Position(buf[m].parent_pid) >= k
    <2>1. i \in 2 .. Len(buf) /\ Len(buf) \in Nat
      BY PidsAre DEF Listing, N
    <2>2. PICK k \in 1 .. i - 1 : buf[k].pid = buf[i].parent_pid /\ Under(buf, k, i)
      BY <2>1 DEF Listing
    <2>3. ASSUME NEW m \in k + 1 .. i PROVE Position(buf[m].parent_pid) >= k
      <3>1. PICK j \in k .. m - 1 : buf[j].pid = buf[m].parent_pid
        BY <2>2 DEF Under
      <3>2. j \in 1 .. Len(buf)
        BY <2>1
      <3>3. Position(buf[m].parent_pid) = j
        BY <1>1, <3>1, <3>2
      <3> QED BY <3>3
    <2> QED BY <2>2, <2>3
  <1>3. \A i, j \in DOMAIN buf : buf[i].pid = buf[j].pid => i = j
    BY DEF Listing
  <1> QED BY <1>1, <1>2, <1>3 DEF DepthFirst

LEMMA ListNext ==
    ASSUME TreeInv, Listing(buf), [PsNext]_psVars
    PROVE  Listing(buf)'
  <1>1. CASE sys_pstreecall
    BY <1>1, CallLists
  <1>2. CASE Return
    BY <1>2, NothingListed DEF Return
  <1>3. CASE PrintLine \/ UNCHANGED psVars
    BY <1>3 DEF PrintLine, psVars
  <1>4. ASSUME NEW p \in Pids, Exec(p) \/ Exit(p) \/ Reap(p) \/ \E c \in Pids : Fork(p, c) PROVE buf' = buf
    BY <1>4 DEF Exec, Exit, Reap, Fork
  <1> QED BY <1>1, <1>2, <1>3, <1>4 DEF PsNext

LEMMA AlwaysListing == PsSpec => [](TreeInv /\ Listing(buf))
  <1>1. PsInit => TreeInv /\ Listing(buf)
    BY TreeInit, NothingListed DEF PsInit
  <1>2. TreeInv /\ Listing(buf) /\ [PsNext]_psVars => (TreeInv /\ Listing(buf))'
    BY TreeNext, ListNext
  <1> QED BY <1>1, <1>2, PTL DEF PsSpec

\* The answer is a state of the tree in depth-first order, in which every process comes
\* after its parent and nothing but the parent's subtree is between them, whatever the
\* processes do before, between and after the calls (dfs under tasklist_lock).
THEOREM DepthFirstTheorem == PsSpec => []DepthFirst
  <1>1. TreeInv /\ Listing(buf) => DepthFirst
    BY ListingIs
  <1> QED BY <1>1, AlwaysListing, PTL

\* The answer has exactly the processes of that moment, zombies and init_task among them.
THEOREM ListsTheorem == PsSpec => ListsEveryProcess
  <1>1. TreeInv /\ Listing(buf) /\ [PsNext]_psVars
          => [sys_pstreecall => {buf'[i].pid : i \in DOMAIN buf'} = {p \in Pids : life[p] # "free"}]_psVars
    BY CallLists DEF Used
  <1> QED BY <1>1, AlwaysListing, PTL DEF PsSpec, ListsEveryProcess

-----------------------------------------------------------------------------
(* PsTree: the printer *)

\* A has the number of ancestors of every entry.
Deep(b, A) ==
    \A i \in 1 .. Len(b) :
       /\ A[i] \in Nat
       /\ b[i].parent_pid = 0 => A[i] = 0
       /\ b[i].parent_pid # 0 => \E k \in 1 .. i - 1 : b[k].pid = b[i].parent_pid /\ A[i] = A[k] + 1

\* The parent of an entry, as init_task has none.
LEMMA ParentEntry ==
    ASSUME NEW b, Listing(b), NEW i \in 1 .. Len(b), b[i].parent_pid # 0
    PROVE  \E k \in 1 .. i - 1 : b[k].pid = b[i].parent_pid
  <1>1. Len(b) \in Nat
    BY PidsAre DEF Listing, N
  <1>2. i \in 2 .. Len(b)
    BY <1>1 DEF Listing
  <1> QED BY <1>2 DEF Listing

LEMMA DeepExists ==
    ASSUME NEW b, Listing(b)
    PROVE  \E A : Deep(b, A)
  <1> DEFINE D(A, i) == /\ A[i] \in Nat
                        /\ b[i].parent_pid = 0 => A[i] = 0
                        /\ b[i].parent_pid # 0 =>
                              \E k \in 1 .. i - 1 : b[k].pid = b[i].parent_pid /\ A[i] = A[k] + 1
             Q(n) == \E A : \A i \in 1 .. n : D(A, i)
             L == Len(b)
             S == {n \in 0 .. L : Q(n)}
  <1>0. L \in Nat
    BY PidsAre DEF Listing, N
  <1> HIDE DEF L
  <1>1. 0 \in S
    <2>1. 1 .. 0 = {}
      OBVIOUS
    <2> HIDE DEF D
    <2> QED BY <1>0, <2>1
  <1>2. ASSUME NEW n \in 1 .. L, n - 1 \in S PROVE n \in S
    <2>1. PICK A : \A i \in 1 .. n - 1 : D(A, i)
      <3> HIDE DEF D
      <3> QED BY <1>2
    <2>2. \E v \in Nat : /\ b[n].parent_pid = 0 => v = 0
                         /\ b[n].parent_pid # 0 =>
                               \E k \in 1 .. n - 1 : b[k].pid = b[n].parent_pid /\ v = A[k] + 1
      <3>1. CASE b[n].parent_pid = 0
        BY <3>1
      <3>2. CASE b[n].parent_pid # 0
        <4>1. PICK k \in 1 .. n - 1 : b[k].pid = b[n].parent_pid
          BY <3>2, ParentEntry DEF L
        <4>2. A[k] \in Nat
          BY <2>1
        <4>3. A[k] + 1 \in Nat
          BY <4>2
        <4> QED BY <3>2, <4>1, <4>3
      <3> QED BY <3>1, <3>2
    <2>3. PICK v \in Nat : /\ b[n].parent_pid = 0 => v = 0
                           /\ b[n].parent_pid # 0 =>
                                 \E k \in 1 .. n - 1 : b[k].pid = b[n].parent_pid /\ v = A[k] + 1
      BY <2>2
    <2> DEFINE x == [i \in 1 .. n |-> IF i = n THEN v ELSE A[i]]
    <2>4. x[n] = v /\ \A i \in 1 .. n - 1 : x[i] = A[i]
      BY <1>0
    <2> HIDE DEF x
    <2>5. ASSUME NEW i \in 1 .. n PROVE D(x, i)
      <3>1. CASE i = n
        <4>1. x[i] \in Nat /\ (b[i].parent_pid = 0 => x[i] = 0)
          BY <2>3, <2>4, <3>1
        <4>2. ASSUME b[i].parent_pid # 0
              PROVE  \E k \in 1 .. i - 1 : b[k].pid = b[i].parent_pid /\ x[i] = x[k] + 1
          <5>1. PICK k \in 1 .. n - 1 : b[k].pid = b[n].parent_pid /\ v = A[k] + 1
            BY <2>3, <3>1, <4>2
          <5> QED BY <2>4, <3>1, <5>1
        <4> QED BY <4>1, <4>2
      <3>2. CASE i # n
        <4>1. i \in 1 .. n - 1 /\ D(A, i)
          BY <1>0, <2>1, <3>2
        <4>2. \A k \in 1 .. i - 1 : k \in 1 .. n - 1
          BY <1>0
        <4> QED BY <2>4, <4>1, <4>2
      <3> QED BY <3>1, <3>2
    <2> HIDE DEF D
    <2>6. Q(n)
      BY <2>5
    <2> HIDE DEF Q
    <2> QED BY <1>0, <2>6
  <1>3. L \in S
    <2> HIDE DEF S
    <2>1. \A n \in 0 .. L : n \in S
      BY <1>0, <1>1, <1>2, UpTo
    <2> QED BY <1>0, <2>1
  <1> QED BY <1>3 DEF L, Deep

LEMMA DeepUnique ==
    ASSUME NEW b, Listing(b), NEW A, Deep(b, A), NEW B, Deep(b, B), NEW i \in 1 .. Len(b)
    PROVE  A[i] = B[i]
  <1>0. Len(b) \in Nat
    BY PidsAre DEF Listing, N
  <1> SUFFICES ASSUME A[i] # B[i] PROVE FALSE
    OBVIOUS
  <1> DEFINE T == {k \in 1 .. Len(b) : A[k] # B[k]}
  <1>1. T \in SUBSET Nat /\ T # {}
    OBVIOUS
  <1>2. PICK k \in T : \A j \in T : k <= j
    <2> HIDE DEF T
    <2> QED BY <1>1, LeastElement
  <1>3. k \in 1 .. Len(b) /\ A[k] # B[k] /\ \A j \in 1 .. k - 1 : A[j] = B[j]
    <2>1. k \in 1 .. Len(b) /\ A[k] # B[k]
      BY <1>2
    <2>2. \A j \in 1 .. k - 1 : j \in 1 .. Len(b) /\ ~(k <= j)
      BY <1>0, <2>1
    <2> QED BY <1>2, <2>1, <2>2
  <1>4. b[k].parent_pid # 0
    BY <1>3 DEF Deep
  <1>5. PICK m \in 1 .. k - 1 : b[m].pid = b[k].parent_pid /\ A[k] = A[m] + 1
    BY <1>3, <1>4 DEF Deep
  <1>6. PICK n \in 1 .. k - 1 : b[n].pid = b[k].parent_pid /\ B[k] = B[n] + 1
    BY <1>3, <1>4 DEF Deep
  <1>7. m \in 1 .. Len(b) /\ n \in 1 .. Len(b)
    BY <1>0, <1>3
  <1>8. m = n
    BY <1>5, <1>6, <1>7 DEF Listing
  <1> QED BY <1>3, <1>5, <1>6, <1>8

LEMMA AncestorsAre ==
    ASSUME Listing(buf), NEW A, Deep(buf, A), NEW i \in 1 .. Len(buf)
    PROVE  Ancestors(i) = A[i]
  <1> DEFINE Body(u, k) == IF buf[k].parent_pid = 0 THEN 0 ELSE u[Position(buf[k].parent_pid)] + 1
             P(u) == u = [k \in DOMAIN buf |-> Body(u, k)]
             x == [k \in DOMAIN buf |-> A[k]]
             y == CHOOSE u : P(u)
  <1>0. DOMAIN buf = 1 .. Len(buf) /\ Len(buf) \in Nat
    BY PidsAre DEF Listing, N
  <1>1. ASSUME NEW k \in 1 .. Len(buf), buf[k].parent_pid # 0
        PROVE  Position(buf[k].parent_pid) \in 1 .. k - 1 /\ buf[Position(buf[k].parent_pid)].pid = buf[k].parent_pid
    <2>1. PICK j \in 1 .. k - 1 : buf[j].pid = buf[k].parent_pid
      BY <1>1, ParentEntry
    <2>2. j \in 1 .. Len(buf)
      BY <1>0
    <2>3. Position(buf[k].parent_pid) = j
      BY <2>1, <2>2, ListingIs
    <2> QED BY <2>1, <2>3
  <1>2. ASSUME NEW k \in 1 .. Len(buf) PROVE A[k] = Body(x, k)
    <2>1. CASE buf[k].parent_pid = 0
      BY <2>1 DEF Deep
    <2>2. CASE buf[k].parent_pid # 0
      <3> DEFINE j == Position(buf[k].parent_pid)
      <3>1. j \in 1 .. k - 1 /\ j \in 1 .. Len(buf) /\ buf[j].pid = buf[k].parent_pid
        BY <1>0, <1>1, <2>2
      <3>2. PICK m \in 1 .. k - 1 : buf[m].pid = buf[k].parent_pid /\ A[k] = A[m] + 1
        BY <2>2 DEF Deep
      <3>3. m \in 1 .. Len(buf)
        BY <1>0
      <3> HIDE DEF j
      <3>4. m = j
        BY <3>1, <3>2, <3>3 DEF Listing
      <3>5. x[j] = A[j]
        BY <1>0, <3>1
      <3> HIDE DEF x
      <3> QED BY <2>2, <3>2, <3>4, <3>5 DEF j
    <2> QED BY <2>1, <2>2
  <1>3. P(x)
    <2> HIDE DEF Body
    <2> QED BY <1>0, <1>2
  <1>4. P(y)
    <2> HIDE DEF P, x
    <2> QED BY <1>3
  <1>5. Ancestors(i) = y[i]
    BY DEF Ancestors
  <1> HIDE DEF y
  <1>6. \A k \in 1 .. Len(buf) : y[k] = Body(y, k)
    <2> HIDE DEF Body
    <2>1. y = [k \in 1 .. Len(buf) |-> Body(y, k)]
      BY <1>0, <1>4
    <2> QED BY <2>1
  <1> SUFFICES ASSUME y[i] # A[i] PROVE FALSE
    BY <1>5
  <1> DEFINE T == {k \in 1 .. Len(buf) : y[k] # A[k]}
  <1>7. PICK k \in T : \A j \in T : k <= j
    <2>1. T \in SUBSET Nat /\ T # {}
      OBVIOUS
    <2> HIDE DEF T
    <2> QED BY <2>1, LeastElement
  <1>8. k \in 1 .. Len(buf) /\ y[k] # A[k]
    BY <1>7
  <1>9. y[k] = Body(y, k) /\ A[k] = Body(x, k)
    <2> HIDE DEF Body
    <2> QED BY <1>2, <1>6, <1>8
  <1>10. buf[k].parent_pid # 0
    BY <1>8, <1>9
  <1> DEFINE j == Position(buf[k].parent_pid)
  <1>11. j \in 1 .. Len(buf) /\ ~(k <= j)
    BY <1>0, <1>1, <1>8, <1>10
  <1>12. y[k] = y[j] + 1 /\ A[k] = x[j] + 1
    BY <1>9, <1>10
  <1> HIDE DEF j
  <1>13. x[j] = A[j]
    BY <1>0, <1>11
  <1>14. y[j] = A[j]
    BY <1>7, <1>11
  <1> HIDE DEF x
  <1> QED BY <1>8, <1>12, <1>13, <1>14

-----------------------------------------------------------------------------
(* PsTree: types *)

LEMMA LeastOf ==
    ASSUME NEW S \in SUBSET Nat, S # {}
    PROVE  Min(S) \in S
  <1>1. \E x \in S : \A y \in S : x <= y
    BY LeastElement
  <1> QED BY <1>1 DEF Min

\* The printer is at a line of the answer, and not deeper than there are lines above it.
Bounded ==
    line # 0 => /\ line \in 1 .. Len(buf)
                /\ line = 1 => depth = -1
                /\ line > 1 => depth \in 0 .. line - 2

LEMMA Converts ==
    ASSUME TreeTypes, Family, bits \in [Pids -> Bits], NEW t \in Used
    PROVE  convert(t) \in prinfo
  <1>1. t \in Pids /\ parent[t] \in Pids /\ children[t] \in Seq(Pids) /\ 0 \in Pids
    BY PidsAre DEF Used, TreeTypes
  <1>2. children[t] # <<>> => Head(children[t]) \in Pids
    <2> DEFINE h == children[t]
    <2>1. h \in Seq(Pids)
      BY <1>1
    <2> HIDE DEF h
    <2>2. h # <<>> => Head(h) \in Pids
      BY <2>1
    <2> QED BY <2>2 DEF h
  <1>3. NextSiblingPid(t) \in Pids \cup Bits
    <2>1. CASE t = 0
      BY <1>1, <2>1 DEF NextSiblingPid
    <2>2. CASE t # 0
      <3> DEFINE s == children[parent[t]]
                 i == CHOOSE k \in DOMAIN s : s[k] = t
      <3>1. s \in Seq(Pids) /\ t \in Range(s)
        BY <1>1, <2>2 DEF TreeTypes, Family, ChildrenOf, Used
      <3>2. DOMAIN s = 1 .. Len(s) /\ Len(s) \in Nat /\ \A k \in 1 .. Len(s) : s[k] \in Pids
        <4> HIDE DEF s
        <4> QED BY <3>1, LenProperties, ElementOfSeq
      <3>3. i \in 1 .. Len(s)
        <4>1. \E k \in DOMAIN s : s[k] = t
          BY <3>1 DEF Range
        <4> HIDE DEF s
        <4> QED BY <3>2, <4>1
      <3>4. NextEntryPid(t) = IF i = Len(s) THEN bits[parent[t]] ELSE s[i + 1]
        BY DEF NextEntryPid
      <3> HIDE DEF s, i
      <3>5. i # Len(s) => i + 1 \in 1 .. Len(s)
        <4>1. Len(s) \in Nat
          BY <3>2
        <4> QED BY <3>3, <4>1
      <3>6. NextEntryPid(t) \in Pids \cup Bits
        BY <1>1, <3>2, <3>4, <3>5
      <3> QED BY <1>1, <3>6 DEF NextSiblingPid
    <2> QED BY <2>1, <2>2
  <1> QED BY <1>1, <1>2, <1>3 DEF convert, prinfo

LEMMA PrintTypesNext ==
    ASSUME TreeInv, Listing(buf), PsTypeOK, Bounded, [PsNext]_psVars
    PROVE  PsTypeOK' /\ Bounded'
  <1>0. N \in Nat /\ N = Cardinality(Pids) /\ Len(buf) \in 0 .. N /\ MaxForks \in Nat /\ MaxCalls \in Nat
    BY PidsAre, BoundAssumption DEF Listing, N
  <1>1. TreeTypes'
    BY TreeNext DEF TreeInv
  <1>2. CASE sys_pstreecall
    <2>1. /\ calls' = calls + 1 /\ calls < MaxCalls /\ line' = 1 /\ depth' = -1
          /\ stack' \in [Depths -> Garbage]
          /\ bits' = bits /\ forks' = forks
          /\ buf' = [i \in DOMAIN dfs(0) |-> convert(dfs(0)[i])]
      BY <1>2 DEF sys_pstreecall, treeVars
    <2>2. Listing(buf') /\ Len(buf') >= 1 /\ {buf'[i].pid : i \in DOMAIN buf'} = Used
      BY <1>2, CallLists
    <2>3. ASSUME NEW i \in DOMAIN buf' PROVE buf'[i] \in prinfo
      <3>1. i \in DOMAIN dfs(0)
        BY <2>1
      <3>2. buf'[i] = convert(dfs(0)[i])
        BY <2>1, <3>1
      <3>3. buf'[i].pid = dfs(0)[i]
        BY <3>2 DEF convert
      <3>4. dfs(0)[i] \in Used
        BY <2>2, <3>3
      <3> QED BY <3>2, <3>4, Converts DEF PsTypeOK, TreeInv
    <2>4. buf' \in Seq(prinfo)
      <3> DEFINE b == buf'
      <3>1. DOMAIN b = 1 .. Len(b) /\ Len(b) \in Nat
        BY <1>0, <2>2 DEF Listing
      <3>2. b = [i \in DOMAIN b |-> b[i]]
        BY <2>1
      <3>3. \A i \in 1 .. Len(b) : b[i] \in prinfo
        BY <2>3, <3>1
      <3> HIDE DEF b
      <3>4. b \in [1 .. Len(b) -> prinfo]
        BY <3>1, <3>2, <3>3
      <3>5. b \in Seq(prinfo)
        BY <3>1, <3>4
      <3> QED BY <3>5 DEF b
    <2>5. Len(buf') \in 1 .. N
      BY <1>0, <2>2 DEF Listing
    <2> QED BY <1>0, <1>1, <2>1, <2>4, <2>5 DEF PsTypeOK, TreeTypes, Bounded
  <1>3. CASE Return
    BY <1>0, <1>1, <1>3 DEF Return, treeVars, PsTypeOK, TreeTypes, Bounded, Depths
  <1>4. CASE PrintLine
    <2> DEFINE p == buf[line + 1].parent_pid
    <2>1. /\ line > 0 /\ line < Len(buf) /\ line' = line + 1
          /\ \/ p = 0 /\ depth' = 0 /\ stack' = stack
             \/ p # 0 /\ depth' = depth /\ stack' = stack
             \/ p # 0 /\ Former(p) # {} /\ depth' = Min(Former(p)) /\ stack' = stack
             \/ p # 0 /\ depth' = depth + 1 /\ stack' = [stack EXCEPT ![depth'] = p]
          /\ UNCHANGED <<life, parent, children, bits, forks, calls, buf>>
      BY <1>4 DEF PrintLine, treeVars
    <2>2. line + 1 \in 2 .. Len(buf) /\ line + 1 \in 1 .. Len(buf) /\ line \in 1 .. Len(buf)
      BY <1>0, <2>1 DEF Bounded, PsTypeOK
    <2>3. p \in Pids
      BY <2>2 DEF Listing
    <2>4. line = 1 => p = 0
      <3> SUFFICES ASSUME line = 1 PROVE p = 0
        OBVIOUS
      <3>1. 2 \in 2 .. Len(buf) /\ p = buf[2].parent_pid
        BY <2>2
      <3> HIDE DEF p
      <3>2. PICK k \in 1 .. 2 - 1 : buf[k].pid = buf[2].parent_pid
        BY <3>1 DEF Listing
      <3>3. k = 1 /\ 1 \in 1 .. Len(buf)
        BY <3>1
      <3>4. buf[1].pid = 0
        BY <3>3 DEF Listing
      <3> QED BY <3>1, <3>2, <3>3, <3>4
    <2>5. depth' \in 0 .. line' - 2
      <3>1. CASE p = 0
        BY <2>1, <2>2, <3>1
      <3>2. CASE p # 0
        <4>1. line > 1 /\ depth \in 0 .. line - 2
          BY <2>2, <2>4, <3>2 DEF Bounded
        <4>2. Former(p) # {} => Min(Former(p)) \in 1 .. depth - 1
          <5>1. Former(p) \in SUBSET Nat /\ Former(p) \subseteq 1 .. depth - 1
            BY <4>1 DEF Former
          <5> QED BY <5>1, LeastOf
        <4> HIDE DEF p
        <4>3. CASE depth' = depth \/ depth' = depth + 1
          BY <2>1, <2>2, <4>1, <4>3
        <4>4. CASE Former(p) # {} /\ depth' = Min(Former(p))
          <5>1. depth' \in 1 .. depth - 1
            BY <4>2, <4>4
          <5> QED BY <2>1, <2>2, <4>1, <5>1
        <4> QED BY <2>1, <3>2, <4>3, <4>4
      <3> QED BY <3>1, <3>2
    <2>6. depth' \in Depths
      BY <1>0, <2>1, <2>2, <2>5 DEF Depths
    <2>7. stack' \in [Depths -> Pids \cup Garbage]
      <3> HIDE DEF p
      <3> QED BY <2>1, <2>3 DEF PsTypeOK
    <2>8. line' \in 0 .. N /\ line' \in 1 .. Len(buf') /\ line' > 1
      BY <1>0, <2>1, <2>2
    <2> HIDE DEF p
    <2> QED BY <1>0, <1>1, <2>1, <2>5, <2>6, <2>7, <2>8 DEF PsTypeOK, TreeTypes, Bounded
  <1>5. ASSUME NEW p \in Pids, Exec(p) \/ Exit(p) \/ Reap(p) \/ \E c \in Pids : Fork(p, c)
        PROVE  PsTypeOK' /\ Bounded'
    <2>1. UNCHANGED <<calls, buf, line, depth, stack>>
      BY <1>5 DEF Exec, Exit, Reap, Fork
    <2>2. bits' \in [Pids -> Bits] /\ forks' \in 0 .. MaxForks
      <3>1. bits \in [Pids -> Bits] /\ forks \in 0 .. MaxForks
        BY DEF PsTypeOK
      <3>2. CASE Exec(p)
        BY <3>1, <3>2 DEF Exec
      <3>3. CASE Exit(p) \/ Reap(p)
        BY <3>1, <3>3 DEF Exit, Reap
      <3>4. ASSUME NEW c \in Pids, Fork(p, c) PROVE bits' \in [Pids -> Bits] /\ forks' \in 0 .. MaxForks
        BY <1>0, <3>1, <3>4, BitsAssumption DEF Fork
      <3> QED BY <1>5, <3>2, <3>3, <3>4
    <2> QED BY <1>1, <2>1, <2>2 DEF PsTypeOK, TreeTypes, Bounded, Depths
  <1>6. CASE UNCHANGED psVars
    BY <1>1, <1>6 DEF psVars, treeVars, PsTypeOK, TreeTypes, Bounded, Depths
  <1> QED BY <1>2, <1>3, <1>4, <1>5, <1>6 DEF PsNext

LEMMA PrintTypesInit == PsInit => PsTypeOK /\ Bounded
  <1> SUFFICES ASSUME PsInit PROVE PsTypeOK /\ Bounded
    OBVIOUS
  <1>1. TreeTypes
    BY TreeInit DEF TreeInv
  <1>2. <<>> \in Seq(prinfo) /\ Cardinality(Pids) \in Nat
    BY NoList, PidsAre
  <1> QED BY <1>1, <1>2, PidsAre, BitsAssumption, BoundAssumption
          DEF PsInit, PsTypeOK, TreeTypes, Bounded, Depths

\* Every process, list and record is one; the answer is not longer than there are
\* processes, and print_tree stays inside a parent_pids that is as large.
THEOREM TreeTypesTheorem == PsSpec => []PsTypeOK
  <1>1. PsInit => PsTypeOK /\ Bounded
    BY PrintTypesInit
  <1>2. TreeInv /\ Listing(buf) /\ PsTypeOK /\ Bounded /\ [PsNext]_psVars => (PsTypeOK /\ Bounded)'
    BY PrintTypesNext
  <1> QED BY <1>1, <1>2, AlwaysListing, PTL DEF PsSpec

\* parent_pids[0] is read and never written.
LEMMA BaseStays ==
    ASSUME Listing(buf), PsTypeOK, Bounded, PrintLine
    PROVE  stack'[0] = stack[0]
  <1> DEFINE p == buf[line + 1].parent_pid
  <1>0. Len(buf) \in Nat
    BY PidsAre DEF Listing, N
  <1>1. /\ line > 0 /\ line < Len(buf)
        /\ \/ stack' = stack
           \/ p # 0 /\ depth' = depth + 1 /\ stack' = [stack EXCEPT ![depth'] = p]
    BY DEF PrintLine
  <1>2. CASE stack' = stack
    BY <1>2
  <1>3. CASE p # 0 /\ depth' = depth + 1 /\ stack' = [stack EXCEPT ![depth'] = p]
    <2>1. line # 1
      <3> SUFFICES ASSUME line = 1 PROVE FALSE
        OBVIOUS
      <3>1. 2 \in 2 .. Len(buf) /\ p = buf[2].parent_pid
        BY <1>0, <1>1
      <3> HIDE DEF p
      <3>2. PICK k \in 1 .. 2 - 1 : buf[k].pid = buf[2].parent_pid
        BY <3>1 DEF Listing
      <3>3. k = 1 /\ 1 \in 1 .. Len(buf)
        BY <3>1
      <3>4. buf[1].pid = 0
        BY <3>3 DEF Listing
      <3> QED BY <1>3, <3>1, <3>2, <3>3, <3>4
    <2>2. depth' # 0
      BY <1>1, <1>3, <2>1 DEF Bounded, PsTypeOK
    <2> HIDE DEF p
    <2>3. 0 \in Depths /\ DOMAIN stack = Depths
      BY PidsAre DEF Depths, PsTypeOK
    <2> QED BY <1>3, <2>2, <2>3
  <1> QED BY <1>1, <1>2, <1>3

\* Before line l + 1: the stack of print_tree holds the ancestors of entry l, below its
\* depth, each with its own depth and parent; place 0, never written, has no pid of a process.
Stacked(b, l, dp, st, A) ==
    /\ dp = A[l] /\ dp \in 0 .. l - 2
    /\ \A k \in 1 .. dp :
          \E a \in 2 .. l - 1 : /\ b[a].pid = st[k] /\ A[a] = k - 1
                                /\ b[a].parent_pid = IF k = 1 THEN 0 ELSE st[k - 1]
    /\ b[l].parent_pid = IF dp = 0 THEN 0 ELSE st[dp]

Printing(b, l, dp, st) ==
    /\ l \in 1 .. Len(b)
    /\ DOMAIN st = Depths /\ st[0] \notin Pids \ {0}
    /\ l = 1 => dp = -1
    /\ l > 1 => \E A : Deep(b, A) /\ Stacked(b, l, dp, st, A)

\* Something is printed, and what parent_pids[0] had is not the pid of a process.
Base == line # 0 /\ stack[0] \notin Pids \ {0}

\* The parent of the next entry is the entry itself, on the stack, or init_task.
LEMMA NextParent ==
    ASSUME NEW b, Listing(b), NEW l \in 2 .. Len(b), l < Len(b), NEW dp, NEW st, NEW A,
           Stacked(b, l, dp, st, A)
    PROVE  \/ b[l + 1].parent_pid = 0 \/ b[l + 1].parent_pid = b[l].pid
           \/ \E k \in 1 .. dp : b[l + 1].parent_pid = st[k]
  <1>0. Len(b) \in Nat
    BY PidsAre DEF Listing, N
  <1>1. l + 1 \in 2 .. Len(b) /\ l + 1 - 1 = l
    BY <1>0
  <1>2. PICK k0 \in 1 .. l : b[k0].pid = b[l + 1].parent_pid /\ Under(b, k0, l + 1)
    BY <1>1 DEF Listing
  <1>3. ASSUME NEW a \in k0 + 1 .. l
        PROVE  \E j \in k0 .. a - 1 : b[j].pid = b[a].parent_pid
    BY <1>2 DEF Under
  <1>4. ASSUME NEW j \in 1 .. Len(b), b[j].pid = 0, k0 <= j PROVE b[l + 1].parent_pid = 0
    <2>1. j = 1
      BY <1>4 DEF Listing
    <2> QED BY <1>2, <1>4, <2>1
  <1>5. dp \in 0 .. l - 2
    BY DEF Stacked
  <1> DEFINE B == {k \in 1 .. dp : \E a \in k0 + 1 .. l - 1 : b[a].pid = st[k]}
  <1>6. CASE k0 = l
    BY <1>2, <1>6
  <1>7. CASE k0 # l /\ B = {}
    <2>1. l \in k0 + 1 .. l
      BY <1>7
    <2>2. PICK j \in k0 .. l - 1 : b[j].pid = b[l].parent_pid
      BY <1>3, <2>1
    <2>3. CASE dp = 0
      BY <1>0, <1>4, <2>2, <2>3 DEF Stacked
    <2>4. CASE dp # 0
      <3>1. dp \in 1 .. dp /\ b[j].pid = st[dp]
        BY <1>5, <2>2, <2>4 DEF Stacked
      <3>2. j = k0
        BY <1>7, <3>1
      <3> QED BY <1>2, <3>1, <3>2
    <2> QED BY <2>3, <2>4
  <1>8. CASE k0 # l /\ B # {}
    <2>1. PICK k \in B : \A m \in B : k <= m
      <3>1. B \in SUBSET Nat
        BY <1>5
      <3> HIDE DEF B
      <3> QED BY <1>8, <3>1, LeastElement
    <2>2. k \in 1 .. dp
      BY <2>1
    <2>3. PICK a \in 2 .. l - 1 : /\ b[a].pid = st[k]
                                  /\ b[a].parent_pid = IF k = 1 THEN 0 ELSE st[k - 1]
      BY <2>2 DEF Stacked
    <2>4. a \in k0 + 1 .. l
      <3>1. PICK e \in k0 + 1 .. l - 1 : b[e].pid = st[k]
        BY <2>1
      <3>2. e \in 1 .. Len(b) /\ a \in 1 .. Len(b)
        BY <1>0
      <3>3. e = a
        BY <2>3, <3>1, <3>2 DEF Listing
      <3> QED BY <3>1, <3>3
    <2>5. PICK j \in k0 .. a - 1 : b[j].pid = b[a].parent_pid
      BY <1>3, <2>4
    <2>6. CASE k = 1
      BY <1>0, <1>4, <2>3, <2>5, <2>6
    <2>7. CASE k # 1
      <3>1. b[j].pid = st[k - 1] /\ k - 1 \in 1 .. dp /\ ~(k <= k - 1)
        <4>1. b[j].pid = b[a].parent_pid /\ b[a].parent_pid = st[k - 1]
          BY <2>3, <2>5, <2>7
        <4>2. dp \in Nat /\ k \in 1 .. dp
          BY <1>5, <2>2
        <4>3. k - 1 \in 1 .. dp /\ ~(k <= k - 1)
          BY <2>7, <4>2
        <4> QED BY <4>1, <4>3
      <3>2. k - 1 \notin B
        BY <2>1, <3>1
      <3>3. j = k0
        BY <2>3, <3>1, <3>2
      <3> QED BY <1>2, <3>1, <3>3
    <2> QED BY <2>6, <2>7
  <1> QED BY <1>6, <1>7, <1>8

LEMMA LinePrinted ==
    ASSUME Listing(buf), Printing(buf, line, depth, stack), PrintLine
    PROVE  Printing(buf, line, depth, stack)'
  <1> DEFINE p == buf[line + 1].parent_pid
  <1>1. /\ line < Len(buf) /\ line' = line + 1 /\ buf' = buf
        /\ \/ p = 0 /\ depth' = 0 /\ stack' = stack
           \/ p # 0 /\ p = stack[depth] /\ depth' = depth /\ stack' = stack
           \/ p # 0 /\ p # stack[depth] /\ Former(p) # {} /\ depth' = Min(Former(p)) /\ stack' = stack
           \/ /\ p # 0 /\ p # stack[depth] /\ Former(p) = {} /\ depth' = depth + 1
              /\ stack' = [stack EXCEPT ![depth'] = p]
    BY DEF PrintLine
  <1>2. /\ line \in 1 .. Len(buf) /\ Len(buf) \in 0 .. N /\ N \in Nat
        /\ DOMAIN stack = Depths /\ stack[0] \notin Pids \ {0}
        /\ line = 1 => depth = -1
    BY PidsAre DEF Printing, Listing, N
  <1>3. line + 1 \in 2 .. Len(buf) /\ line + 1 \in 1 .. Len(buf) /\ p \in Pids
    <2>1. line + 1 \in 2 .. Len(buf) /\ line + 1 \in 1 .. Len(buf)
      BY <1>1, <1>2
    <2> QED BY <2>1 DEF Listing
  <1>4. PICK A : Deep(buf, A) /\ (line > 1 => Stacked(buf, line, depth, stack, A))
    BY <1>2, DeepExists DEF Printing
  <1> DEFINE M == line + 1
  <1> HIDE DEF p
  <1>5. SUFFICES /\ DOMAIN stack' = Depths /\ stack'[0] \notin Pids \ {0}
                 /\ Stacked(buf, M, depth', stack', A)
    <2>1. M \in 1 .. Len(buf) /\ M > 1
      BY <1>2, <1>3
    <2>2. Deep(buf, A)' /\ (Stacked(buf, M, depth', stack', A) <=> Stacked(buf, line, depth, stack, A)')
      BY <1>1, <1>4 DEF Deep, Stacked
    <2> QED BY <1>1, <1>4, <2>1, <2>2 DEF Printing, Deep
  <1>6. CASE p = 0
    <2>1. depth' = 0 /\ stack' = stack
      BY <1>1, <1>6
    <2>2. A[M] = 0 /\ buf[M].parent_pid = 0
      BY <1>3, <1>4, <1>6 DEF Deep, p
    <2>3. 0 \in 0 .. M - 2
      BY <1>2
    <2> HIDE DEF M
    <2> QED BY <1>2, <2>1, <2>2, <2>3 DEF Stacked
  <1>7. CASE p # 0
    <2>1. line > 1
      <3> SUFFICES ASSUME line = 1 PROVE FALSE
        BY <1>2
      <3>1. 2 \in 2 .. Len(buf) /\ p = buf[2].parent_pid
        BY <1>3 DEF p
      <3>2. PICK k \in 1 .. 2 - 1 : buf[k].pid = buf[2].parent_pid
        BY <3>1 DEF Listing
      <3>3. k = 1 /\ 1 \in 1 .. Len(buf)
        BY <3>1
      <3>4. buf[1].pid = 0
        BY <3>3 DEF Listing
      <3> QED BY <1>7, <3>1, <3>2, <3>3, <3>4
    <2>2. /\ line \in 2 .. Len(buf)
          /\ depth = A[line] /\ depth \in 0 .. line - 2
          /\ \A k \in 1 .. depth :
                \E a \in 2 .. line - 1 : /\ buf[a].pid = stack[k] /\ A[a] = k - 1
                                         /\ buf[a].parent_pid = IF k = 1 THEN 0 ELSE stack[k - 1]
          /\ buf[line].parent_pid = IF depth = 0 THEN 0 ELSE stack[depth]
      BY <1>2, <1>4, <2>1 DEF Stacked
    <2>3. p = buf[line].pid \/ \E k \in 1 .. depth : p = stack[k]
      BY <1>1, <1>4, <1>7, <2>1, <2>2, NextParent DEF p
    <2>4. PICK m \in 1 .. line : buf[m].pid = p /\ A[M] = A[m] + 1
      <3>1. M \in 1 .. Len(buf) /\ M - 1 = line /\ buf[M].parent_pid = p
        BY <1>2, <1>3 DEF p
      <3>2. \E k \in 1 .. M - 1 : buf[k].pid = buf[M].parent_pid /\ A[M] = A[k] + 1
        BY <1>4, <1>7, <3>1 DEF Deep
      <3> QED BY <3>1, <3>2
    <2>5. ASSUME NEW j \in 1 .. depth, stack[j] = p PROVE A[M] = j
      <3>1. PICK a \in 2 .. line - 1 : buf[a].pid = stack[j] /\ A[a] = j - 1
        BY <2>2
      <3>2. a \in 1 .. Len(buf) /\ m \in 1 .. Len(buf)
        BY <1>2, <2>2
      <3>3. a = m
        BY <2>4, <2>5, <3>1, <3>2 DEF Listing
      <3> QED BY <2>2, <2>4, <3>1, <3>3
    <2>6. ASSUME NEW j \in 1 .. depth, stack[j] = p, depth' = j, stack' = stack
          PROVE  Stacked(buf, M, depth', stack', A)
      <3>1. A[M] = depth' /\ depth' \in 0 .. M - 2 /\ buf[M].parent_pid = stack'[depth'] /\ depth' # 0
        BY <2>2, <2>5, <2>6 DEF p
      <3>2. ASSUME NEW k \in 1 .. depth'
            PROVE  \E a \in 2 .. M - 1 : /\ buf[a].pid = stack'[k] /\ A[a] = k - 1
                                         /\ buf[a].parent_pid = IF k = 1 THEN 0 ELSE stack'[k - 1]
        <4>1. k \in 1 .. depth
          BY <2>2, <2>6
        <4>2. PICK a \in 2 .. line - 1 : /\ buf[a].pid = stack[k] /\ A[a] = k - 1
                                         /\ buf[a].parent_pid = IF k = 1 THEN 0 ELSE stack[k - 1]
          BY <2>2, <4>1
        <4>3. a \in 2 .. M - 1
          BY <2>2
        <4> QED BY <2>6, <4>2, <4>3
      <3> HIDE DEF M
      <3> QED BY <3>1, <3>2 DEF Stacked
    <2>7. CASE p = stack[depth]
      <3>1. depth # 0
        <4> SUFFICES ASSUME depth = 0 PROVE FALSE
          OBVIOUS
        <4>1. p = stack[0] /\ p \in Pids
          BY <1>2, <1>3, <2>7
        <4> QED BY <1>2, <1>7, <4>1
      <3>2. depth \in 1 .. depth /\ depth' = depth /\ stack' = stack
        BY <1>1, <1>7, <2>2, <2>7, <3>1
      <3> HIDE DEF M
      <3> QED BY <1>2, <2>6, <2>7, <3>2
    <2>8. CASE p # stack[depth] /\ Former(p) # {}
      <3>1. depth' = Min(Former(p)) /\ stack' = stack
        BY <1>1, <1>7, <2>8
      <3>2. Former(p) \in SUBSET Nat
        BY <2>2 DEF Former
      <3>3. Min(Former(p)) \in Former(p)
        BY <2>8, <3>2, LeastOf
      <3>4. depth' \in 1 .. depth /\ stack[depth'] = p
        BY <2>2, <3>1, <3>3 DEF Former
      <3> HIDE DEF M
      <3> QED BY <1>2, <2>6, <3>1, <3>4
    <2>9. CASE p # stack[depth] /\ Former(p) = {}
      <3>1. depth' = depth + 1 /\ stack' = [stack EXCEPT ![depth + 1] = p]
        BY <1>1, <1>7, <2>9
      <3>2. p = buf[line].pid
        <4> SUFFICES ASSUME NEW k \in 1 .. depth, p = stack[k] PROVE FALSE
          BY <2>3
        <4>1. k # depth
          BY <2>9
        <4>2. k \in 1 .. depth - 1
          BY <2>2, <4>1
        <4> QED BY <2>9, <4>2 DEF Former
      <3>3. m = line
        <4>1. m \in 1 .. Len(buf)
          BY <1>2, <2>4
        <4> QED BY <1>2, <2>4, <3>2, <4>1 DEF Listing
      <3>4. depth + 1 \in Depths /\ 0 # depth + 1 /\ \A k \in 1 .. depth : k # depth + 1
        BY <1>1, <1>2, <2>2 DEF Depths, N
      <3>5. /\ stack'[depth + 1] = p /\ \A k \in Depths : k # depth + 1 => stack'[k] = stack[k]
            /\ DOMAIN stack' = Depths
        BY <1>2, <3>1, <3>4
      <3>6. \A k \in 0 .. depth : k \in Depths
        BY <1>1, <1>2, <2>2 DEF Depths, N
      <3>7. \A k \in 0 .. depth : stack'[k] = stack[k]
        BY <2>2, <3>5, <3>6
      <3>8. A[M] = depth' /\ depth' \in 0 .. M - 2 /\ depth' # 0 /\ buf[M].parent_pid = stack'[depth']
        BY <2>2, <2>4, <3>1, <3>3, <3>5 DEF p
      <3>9. ASSUME NEW k \in 1 .. depth'
            PROVE  \E a \in 2 .. M - 1 : /\ buf[a].pid = stack'[k] /\ A[a] = k - 1
                                         /\ buf[a].parent_pid = IF k = 1 THEN 0 ELSE stack'[k - 1]
        <4>1. CASE k = depth + 1
          <5>1. line \in 2 .. M - 1
            BY <2>2
          <5>2. buf[line].pid = stack'[k] /\ A[line] = k - 1
            BY <2>2, <3>2, <3>5, <4>1
          <5>3. buf[line].parent_pid = IF k = 1 THEN 0 ELSE stack'[k - 1]
            <6>1. CASE depth = 0
              BY <2>2, <4>1, <6>1
            <6>2. CASE depth # 0
              <7>1. k # 1 /\ k - 1 = depth /\ depth \in 0 .. depth
                BY <2>2, <4>1, <6>2
              <7> QED BY <2>2, <3>7, <6>2, <7>1
            <6> QED BY <6>1, <6>2
          <5> QED BY <5>1, <5>2, <5>3
        <4>2. CASE k # depth + 1
          <5>1. k \in 1 .. depth /\ k \in 0 .. depth /\ k - 1 \in 0 .. depth
            BY <2>2, <3>1, <4>2
          <5>2. PICK a \in 2 .. line - 1 : /\ buf[a].pid = stack[k] /\ A[a] = k - 1
                                           /\ buf[a].parent_pid = IF k = 1 THEN 0 ELSE stack[k - 1]
            BY <2>2, <5>1
          <5>3. a \in 2 .. M - 1
            BY <2>2
          <5> QED BY <3>7, <5>1, <5>2, <5>3
        <4> QED BY <4>1, <4>2
      <3>10. stack'[0] \notin Pids \ {0}
        BY <1>2, <2>2, <3>7
      <3> HIDE DEF M
      <3> QED BY <3>5, <3>8, <3>9, <3>10 DEF Stacked
    <2> QED BY <2>7, <2>8, <2>9
  <1> QED BY <1>6, <1>7

LEMMA PrintNext ==
    ASSUME TreeInv, Listing(buf), PsTypeOK, Bounded,
           Base => Printing(buf, line, depth, stack), [PsNext]_psVars
    PROVE  (Base => Printing(buf, line, depth, stack))'
  <1>1. CASE sys_pstreecall
    <2> SUFFICES ASSUME Base' PROVE Printing(buf, line, depth, stack)'
      OBVIOUS
    <2>1. line' = 1 /\ depth' = -1 /\ stack' \in [Depths -> Garbage] /\ Len(buf') >= 1 /\ Len(buf') \in 0 .. N
      BY <1>1, CallLists DEF sys_pstreecall, Listing
    <2>2. DOMAIN stack' = Depths /\ stack'[0] \notin Pids \ {0}
      BY <2>1 DEF Base
    <2>3. 1 \in 1 .. Len(buf')
      BY <2>1, PidsAre DEF N
    <2> QED BY <2>1, <2>2, <2>3 DEF Printing, Depths
  <1>2. CASE Return
    BY <1>2 DEF Return, Base
  <1>3. CASE PrintLine
    <2>1. line # 0 /\ stack'[0] = stack[0]
      BY <1>3, BaseStays DEF PrintLine
    <2> QED BY <1>3, <2>1, LinePrinted DEF Base
  <1>4. ASSUME buf' = buf, line' = line, depth' = depth, stack' = stack
        PROVE  (Base => Printing(buf, line, depth, stack))'
    <2> SUFFICES ASSUME Base' PROVE Printing(buf, line, depth, stack)'
      OBVIOUS
    <2>1. Printing(buf, line, depth, stack)
      BY <1>4 DEF Base
    <2>2. ASSUME line > 1 PROVE \E A : Deep(buf, A)' /\ Stacked(buf, line, depth, stack, A)'
      <3>1. PICK A : Deep(buf, A) /\ Stacked(buf, line, depth, stack, A)
        BY <2>1, <2>2 DEF Printing
      <3>2. Deep(buf, A)'
        BY <1>4, <3>1 DEF Deep
      <3>3. Stacked(buf, line, depth, stack, A)'
        BY <1>4, <3>1 DEF Stacked
      <3> QED BY <3>2, <3>3
    <2> QED BY <1>4, <2>1, <2>2 DEF Printing, Depths
  <1>5. ASSUME NEW p \in Pids, Exec(p) \/ Exit(p) \/ Reap(p) \/ \E c \in Pids : Fork(p, c)
        PROVE  buf' = buf /\ line' = line /\ depth' = depth /\ stack' = stack
    BY <1>5 DEF Exec, Exit, Reap, Fork
  <1>6. CASE UNCHANGED psVars
    BY <1>4, <1>6 DEF psVars
  <1> QED BY <1>1, <1>2, <1>3, <1>4, <1>5, <1>6 DEF PsNext

\* print_tree gives every process the number of its ancestors as its depth, from the
\* order of the entries and the pids of the parents alone, in every tree of processes,
\* unless what it reads in the unwritten parent_pids[0] happens to be the pid of one.
THEOREM DepthTheorem == PsSpec => []DepthIsRight
  <1> DEFINE I == /\ TreeInv /\ Listing(buf) /\ PsTypeOK /\ Bounded
                  /\ Base => Printing(buf, line, depth, stack)
  <1>1. PsInit => I
    BY TreeInit, PrintTypesInit, NothingListed DEF PsInit, Base
  <1>2. I /\ [PsNext]_psVars => I'
    BY TreeNext, ListNext, PrintTypesNext, PrintNext
  <1>3. I => DepthIsRight
    <2> SUFFICES ASSUME I, line > 1, stack[0] \notin Pids \ {0} PROVE depth = Ancestors(line)
      BY DEF DepthIsRight
    <2>1. Printing(buf, line, depth, stack)
      BY DEF Base
    <2>2. PICK A : Deep(buf, A) /\ Stacked(buf, line, depth, stack, A)
      BY <2>1 DEF Printing
    <2>3. line \in 1 .. Len(buf)
      BY <2>1 DEF Printing
    <2>4. Ancestors(line) = A[line]
      BY <2>2, <2>3, AncestorsAre
    <2> QED BY <2>2, <2>4 DEF Stacked
  <1> QED BY <1>1, <1>2, <1>3, PTL DEF PsSpec

=============================================================================
