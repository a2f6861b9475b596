----------------------------- MODULE EncServer -----------------------------
(***************************************************************************)
(* The encryption server of project1/problem4 (server.c) with its clients  *)
(* (client.c): one thread per connection, at most Slots of them serving,   *)
(* the others answering "Please wait ...".                                 *)
(*                                                                         *)
(* main hands a connection to its thread through the address of its own    *)
(* variable newsockfd, which the next accept overwrites; a descriptor that *)
(* is closed is the next one accept returns.                               *)
(***************************************************************************)
EXTENDS Naturals, Sequences, FiniteSets, SequencesExt, FiniteSetsExt

CONSTANTS
    Clients,     \* the runs of the client; the thread made for one has its name
    NoClient,    \* not a client: no connection
    Fds,         \* the descriptors accept may return
    Slots,       \* the 2 of "client_cnt < 2"
    MaxMessages, \* bound on the messages of a client
    Environments \* what the clients may do: the values of environment

ASSUME ClientAssumption == NoClient \notin Clients
ASSUME FdAssumption == Fds \subseteq Nat \ {0} /\ Fds # {}
ASSUME SlotAssumption == Slots \in Nat /\ MaxMessages \in Nat
ASSUME EnvAssumption == Environments \subseteq SUBSET {"crowd", "deaths"}

VARIABLES
    environment, \* "crowd" if clients connect whenever they like, and not only when
                 \* every thread has read its argument; "deaths" if one may be killed
    backlog,   \* the connections that wait for accept
    main,      \* where main is; "exit" is the end of the process
    newsockfd, \* main's variable
    fdTable,   \* the connection behind a descriptor
    clientCnt, \* client_cnt
    thread,    \* where the thread is
    sockfd,    \* the thread's newsockfd
    file,      \* the connection its read looked up and blocks on
    buffer,    \* the message it read
    client,    \* where the client is
    sent,      \* how many messages it sent
    toServer,  \* the bytes of the connection to the server ...
    toClient   \* ... and from the server

mainVars   == <<environment, backlog, main, newsockfd>>
threadVars == <<thread, sockfd, file, buffer>>
clientVars == <<client, sent, toServer>>
vars == <<mainVars, fdTable, clientCnt, threadVars, clientVars, toClient>>

\* A message has its sender and its number, 0 for ":q".
Message == [from : Clients, num : 0 .. MaxMessages]
Answer  == [kind : {"encrypted", "wait"}, to : Message]
NoMessage == [from |-> NoClient, num |-> 0]

FirstLoop  == {"read", "recv", "enter", "refuse"}
SecondLoop == {"first", "read_more", "recv_more", "answer", "leave"}

TypeOK ==
    /\ environment \in Environments
    /\ backlog \in Seq(Clients)
    /\ main \in {"accept", "create", "exit"}
    /\ newsockfd \in Fds \cup {0}
    /\ fdTable \in [Fds -> Clients \cup {NoClient}]
    /\ clientCnt \in 0 .. Slots
    /\ thread \in [Clients -> {"none", "start", "close", "done"} \cup FirstLoop \cup SecondLoop]
    /\ sockfd \in [Clients -> Fds \cup {0}]
    /\ file \in [Clients -> Clients \cup {NoClient}]
    /\ buffer \in [Clients -> Message \cup {NoMessage}]
    /\ client \in [Clients -> {"off", "typing", "waiting", "gone"}]
    /\ sent \in [Clients -> 0 .. MaxMessages]
    /\ toServer \in [Clients -> Seq(Message)]
    /\ toClient \in [Clients -> Seq(Answer)]

Init ==
    /\ environment \in Environments
    /\ backlog = <<>> /\ main = "accept" /\ newsockfd = 0
    /\ fdTable = [f \in Fds |-> NoClient]
    /\ clientCnt = 0
    /\ thread = [t \in Clients |-> "none"]
    /\ sockfd = [t \in Clients |-> 0]
    /\ file = [t \in Clients |-> NoClient]
    /\ buffer = [t \in Clients |-> NoMessage]
    /\ client = [c \in Clients |-> "off"]
    /\ sent = [c \in Clients |-> 0]
    /\ toServer = [c \in Clients |-> <<>>]
    /\ toClient = [c \in Clients |-> <<>>]

-----------------------------------------------------------------------------
(* The client *)

\* The server's end of a connection is closed with the last descriptor and the
\* last read that blocks on it.
ServerClosed(c) ==
    \/ main = "exit"
    \/ /\ thread[c] # "none"
       /\ \A f \in Fds : fdTable[f] # c
       /\ \A t \in Clients : file[t] # c

Connect(c) ==
    /\ client[c] = "off" /\ main # "exit"
    /\ \/ "crowd" \in environment
       \/ main = "accept" /\ backlog = <<>> /\ \A t \in Clients : thread[t] # "start"
    /\ client' = [client EXCEPT ![c] = "typing"]
    /\ backlog' = Append(backlog, c)
    /\ UNCHANGED <<environment, main, newsockfd, fdTable, clientCnt, threadVars, sent, toServer,
                   toClient>>

\* A write to a server that is gone ends the client.
Send(c) ==
    /\ client[c] = "typing" /\ sent[c] < MaxMessages
    /\ sent' = [sent EXCEPT ![c] = @ + 1]
    /\ IF ServerClosed(c)
       THEN client' = [client EXCEPT ![c] = "gone"] /\ UNCHANGED toServer
       ELSE /\ client' = [client EXCEPT ![c] = "waiting"]
            /\ toServer' = [toServer EXCEPT ![c] = Append(@, [from |-> c, num |-> sent'[c]])]
    /\ UNCHANGED <<mainVars, fdTable, clientCnt, threadVars, toClient>>

Quit(c) ==
    /\ client[c] = "typing"
    /\ client' = [client EXCEPT ![c] = "gone"]
    /\ toServer' = [toServer EXCEPT ![c] = Append(@, [from |-> c, num |-> 0])]
    /\ UNCHANGED <<mainVars, fdTable, clientCnt, threadVars, sent, toClient>>

Receive(c) ==
    /\ client[c] = "waiting"
    /\ \/ /\ toClient[c] # <<>>
          /\ client' = [client EXCEPT ![c] = "typing"]
          /\ toClient' = [toClient EXCEPT ![c] = Tail(@)]
       \/ /\ toClient[c] = <<>> /\ ServerClosed(c)
          /\ client' = [client EXCEPT ![c] = "gone"]
          /\ UNCHANGED toClient
    /\ UNCHANGED <<mainVars, fdTable, clientCnt, threadVars, sent, toServer>>

Kill(c) ==
    /\ "deaths" \in environment /\ client[c] \in {"typing", "waiting"}
    /\ client' = [client EXCEPT ![c] = "gone"]
    /\ UNCHANGED <<mainVars, fdTable, clientCnt, threadVars, sent, toServer, toClient>>

-----------------------------------------------------------------------------
(* main *)

FreeFds == {f \in Fds : fdTable[f] = NoClient}

\* accept returns the lowest free descriptor, into the variable that the thread
\* made before may not have read yet.
Accept ==
    /\ main = "accept" /\ backlog # <<>>
    /\ IF FreeFds = {}
       THEN main' = "exit" /\ UNCHANGED <<backlog, newsockfd, fdTable>>
       ELSE /\ newsockfd' = Min(FreeFds)
            /\ fdTable' = [fdTable EXCEPT ![newsockfd'] = Head(backlog)]
            /\ main' = "create"
            /\ UNCHANGED backlog
    /\ UNCHANGED <<environment, clientCnt, threadVars, clientVars, toClient>>

\* pthread_create(&thread, NULL, serve, &newsockfd).
Create ==
    /\ main = "create"
    /\ thread' = [thread EXCEPT ![Head(backlog)] = "start"]
    /\ backlog' = Tail(backlog)
    /\ main' = "accept"
    /\ UNCHANGED <<environment, newsockfd, fdTable, clientCnt, sockfd, file, buffer, clientVars,
                   toClient>>

CreateFails ==
    /\ main = "create"
    /\ main' = "exit"
    /\ UNCHANGED <<environment, backlog, newsockfd, fdTable, clientCnt, threadVars, clientVars,
                   toClient>>

-----------------------------------------------------------------------------
(* serve, of thread t *)

\* Where a thread goes when its connection is at an end, from either loop.
Leaving(t) == IF thread[t] \in SecondLoop THEN "leave" ELSE "close"

Goto(t, from, to) == thread[t] = from /\ thread' = [thread EXCEPT ![t] = to]

ReadArgument(t) ==
    /\ Goto(t, "start", "read")
    /\ sockfd' = [sockfd EXCEPT ![t] = newsockfd]
    /\ UNCHANGED <<mainVars, fdTable, clientCnt, file, buffer, clientVars, toClient>>

\* read looks the descriptor up and then waits for the connection it found,
\* whatever happens to the descriptor meanwhile.
Read(t) ==
    /\ thread[t] \in {"read", "read_more"}
    /\ file' = [file EXCEPT ![t] = fdTable[sockfd[t]]]
    /\ thread' = [thread EXCEPT ![t] =
         IF file'[t] = NoClient THEN Leaving(t) ELSE IF @ = "read" THEN "recv" ELSE "recv_more"]
    /\ UNCHANGED <<mainVars, fdTable, clientCnt, sockfd, buffer, clientVars, toClient>>

\* Mutant: the second loop reads on without an answer.
AfterMessage_ReadOn(t) == IF thread[t] = "recv" THEN "enter" ELSE "read_more"

AfterMessage(t) == IF thread[t] = "recv" THEN "enter" ELSE "answer"

\* Mutant: the first message stays in the buffer.
Fill_KeepOld(t, m) == buffer' = [buffer EXCEPT ![t] = IF @ = NoMessage THEN m ELSE @]

Fill(t, m) == buffer' = [buffer EXCEPT ![t] = m]

Recv(t) ==
    LET c == file[t]
    IN /\ thread[t] \in {"recv", "recv_more"}
       /\ \/ /\ toServer[c] # <<>>
             /\ toServer' = [toServer EXCEPT ![c] = Tail(@)]
             /\ IF Head(toServer[c]).num = 0
                THEN Goto(t, thread[t], Leaving(t)) /\ UNCHANGED buffer
                ELSE Goto(t, thread[t], AfterMessage(t)) /\ Fill(t, Head(toServer[c]))
          \/ /\ toServer[c] = <<>> /\ client[c] = "gone"
             /\ Goto(t, thread[t], Leaving(t))
             /\ UNCHANGED <<toServer, buffer>>
       /\ file' = [file EXCEPT ![t] = NoClient]
       /\ UNCHANGED <<mainVars, fdTable, clientCnt, sockfd, client, sent, toClient>>

\* Mutant: one slot too many.
HasSlot_OffByOne == clientCnt <= Slots

HasSlot == clientCnt < Slots

\* The critical section on mu in the first loop.
Enter(t) ==
    /\ IF HasSlot
       THEN Goto(t, "enter", "first") /\ clientCnt' = clientCnt + 1
       ELSE Goto(t, "enter", "refuse") /\ UNCHANGED clientCnt
    /\ UNCHANGED <<mainVars, fdTable, sockfd, file, buffer, clientVars, toClient>>

AnswerOf(t) == [kind |-> IF thread[t] = "refuse" THEN "wait" ELSE "encrypted",
                to |-> buffer[t]]

\* Mutant: a client that is refused may not try again.
Write_RefusedOnce(t) ==
    LET c == fdTable[sockfd[t]]
    IN /\ thread[t] \in {"first", "refuse", "answer"}
       /\ c # NoClient
       /\ thread' = [thread EXCEPT ![t] = IF @ = "refuse" THEN "close" ELSE "read_more"]
       /\ toClient' = [toClient EXCEPT ![c] =
            IF client[c] = "gone" THEN @ ELSE Append(@, AnswerOf(t))]
       /\ UNCHANGED <<mainVars, fdTable, clientCnt, sockfd, file, buffer, clientVars>>

\* The answer goes to the connection that the descriptor has by now.
Write(t) ==
    LET c == fdTable[sockfd[t]]
    IN /\ thread[t] \in {"first", "refuse", "answer"}
       /\ c # NoClient
       /\ thread' = [thread EXCEPT ![t] = IF @ = "refuse" THEN "read" ELSE "read_more"]
       /\ toClient' = [toClient EXCEPT ![c] =
            IF client[c] = "gone" THEN @ ELSE Append(@, AnswerOf(t))]
       /\ UNCHANGED <<mainVars, fdTable, clientCnt, sockfd, file, buffer, clientVars>>

\* A write to a closed descriptor fails, and one to a client that is gone may
\* (ECONNRESET).  The first one of a thread that has a slot returns without giving
\* it back.
WriteFails(t) ==
    LET c == fdTable[sockfd[t]]
    IN /\ thread[t] \in {"first", "refuse", "answer"}
       /\ c # NoClient => client[c] = "gone"
       /\ thread' = [thread EXCEPT ![t] = IF @ = "answer" THEN "leave" ELSE "close"]
       /\ UNCHANGED <<mainVars, fdTable, clientCnt, sockfd, file, buffer, clientVars, toClient>>

\* Nothing catches the SIGPIPE of a write to a client that is gone.
BrokenPipe(t) ==
    LET c == fdTable[sockfd[t]]
    IN /\ thread[t] \in {"first", "refuse", "answer"}
       /\ c # NoClient /\ client[c] = "gone"
       /\ main # "exit" /\ main' = "exit"
       /\ UNCHANGED <<environment, backlog, newsockfd, fdTable, clientCnt, threadVars, clientVars,
                      toClient>>

\* Mutant: a thread that leaves keeps its slot.
Leave_KeepSlot(t) ==
    /\ Goto(t, "leave", "close")
    /\ UNCHANGED <<mainVars, fdTable, clientCnt, sockfd, file, buffer, clientVars, toClient>>

\* The critical section on mu at the end.
Leave(t) ==
    /\ Goto(t, "leave", "close")
    /\ clientCnt' = clientCnt - 1
    /\ UNCHANGED <<mainVars, fdTable, sockfd, file, buffer, clientVars, toClient>>

\* Mutant: the descriptor is closed and the thread comes back to close it again.
Close_Twice(t) ==
    /\ Goto(t, "close", "close") /\ fdTable[sockfd[t]] # NoClient
    /\ fdTable' = [fdTable EXCEPT ![sockfd[t]] = NoClient]
    /\ UNCHANGED <<mainVars, clientCnt, sockfd, file, buffer, clientVars, toClient>>

Close(t) ==
    /\ Goto(t, "close", "done")
    /\ fdTable' = [fdTable EXCEPT ![sockfd[t]] = NoClient]
    /\ UNCHANGED <<mainVars, clientCnt, sockfd, file, buffer, clientVars, toClient>>

Serve(t) ==
    /\ main # "exit"
    /\ \/ ReadArgument(t) \/ Read(t) \/ Recv(t) \/ Enter(t)
       \/ Write(t) \/ WriteFails(t) \/ Leave(t) \/ Close(t)

Next ==
    \/ Accept \/ Create \/ CreateFails
    \/ \E t \in Clients : Serve(t) \/ BrokenPipe(t)
    \/ \E c \in Clients : Connect(c) \/ Send(c) \/ Quit(c) \/ Receive(c) \/ Kill(c)

Spec == Init /\ [][Next]_vars

\* The scheduler runs every thread that can run, and the client that waits.
FairSpec ==
    /\ Spec
    /\ WF_vars(Accept \/ Create)
    /\ \A t \in Clients : WF_vars(Serve(t)) /\ WF_vars(Receive(t))

-----------------------------------------------------------------------------
(* Properties *)

Serving == {t \in Clients : thread[t] \in SecondLoop}

\* However the connections and descriptors get mixed up, and whatever writes
\* fail, no more threads serve than there are slots, and each has one.
SlotsCoverServing == Cardinality(Serving) <= clientCnt /\ clientCnt <= Slots

\* When connections do not come faster than threads start, every thread has a
\* descriptor of its own, and the connection behind it is the one it was made
\* for, so that it never closes or answers another's.
OwnConnection ==
    "crowd" \notin environment =>
        \A t \in Clients :
            thread[t] \notin {"none", "start", "done"} => fdTable[sockfd[t]] = t

\* When no client is killed either, no slot is lost: the ones taken are in use.
NoSlotLost == environment = {} => clientCnt = Cardinality(Serving)

\* A client never reads the answer to another client's message, or to an older
\* one of its own, when connections do not come faster than threads start.  (When
\* they do, two threads may share a descriptor, which one of them closes again
\* after it was given to a third connection; it takes four clients to see it.)
OwnAnswer ==
    "crowd" \notin environment =>
        \A c \in Clients : client[c] # "gone" =>
            \A i \in DOMAIN toClient[c] :
                client[c] = "waiting" /\ toClient[c][i].to = [from |-> c, num |-> sent[c]]

\* In the calm environment {}, while the server runs, every message of a client is
\* answered, with the encryption or with "Please wait": its first one, those after
\* a refusal, and those the second loop reads.
MessagesAnswered ==
    \A c \in Clients :
        environment = {} /\ client[c] = "waiting" ~> client[c] = "typing" \/ main = "exit"

=============================================================================
