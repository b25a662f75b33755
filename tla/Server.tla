------------------------------- MODULE Server -------------------------------
(***************************************************************************)
(* The server process and its clients: start_server and client_handler of  *)
(* rmdb.cpp with sockfd_mutex, buffer_mutex and the globals of the parser, *)
(* and the command loop of rmdb_client/main.cpp.                           *)
(*                                                                         *)
(* The connections are byte streams: a command or an answer is one or two  *)
(* segments, and a read takes any number of those that have arrived.  What *)
(* a request does to tables and locks belongs to TransactionManager; here  *)
(* it is how far client_handler gets with it, and how its transaction ends.*)
(***************************************************************************)
EXTENDS Naturals, Sequences

CONSTANTS
    Client,       \* clients, each with its connection and the thread made for it
    None,
    MaxCommands,  \* bound: commands of each client
    MaxFaults     \* bound: failed accepts and pthread_creates, SIGINTs, and
                  \* commands and answers in two segments

ASSUME NoneAssumption == None \notin Client
ASSUME BoundsAssumption ==
    /\ MaxCommands \in [Client -> Nat]
    /\ MaxFaults \in Nat

VARIABLES
    main,          \* where the main thread is in start_server
    should_exit,
    listening,     \* server_listen_fd is open
    sockfd,        \* the local variable whose address the new thread gets
    sockfd_mutex,  \* locked or not
    buffer_mutex,  \* the thread that holds it
    parse_tree,    \* the thread whose request it was parsed from
    pc,            \* where each thread is in client_handler
    fd,            \* the connection it serves
    req,           \* the request it serves: the ordinal of the command
    txn,           \* its transaction: "none", "single", "explicit", or "over",
                   \* a single statement that was aborted or committed already
    client,        \* where each client is in its loop
    sent,          \* commands each client has sent
    c2s, s2c,      \* the segments under way on each connection
    faults,        \* faults so far (bounds the model)
    split,         \* history: a read of this connection took a part of a command
                   \* or of an answer, or more than one
    mismatch,      \* history: a client showed an answer to another command
    acceptFailed,  \* history: accept failed
    left           \* history: the thread ended because it could not write

mainVars == <<main, sockfd, sockfd_mutex, faults, acceptFailed>>
exitVars == <<should_exit, listening>>
parserVars == <<buffer_mutex, parse_tree>>
threadVars == <<pc, fd, req, txn, left>>
clientVars == <<client, sent, split, mismatch>>
netVars == <<c2s, s2c>>
vars == <<mainVars, exitVars, parserVars, threadVars, clientVars, netVars>>

Running == main # "ended"
At(k, label) == Running /\ pc[k] = label
Goto(k, label) == pc' = [pc EXCEPT ![k] = label]

-----------------------------------------------------------------------------
(* start_server.                                                           *)

\* The condition of the loop.
LoopTop == IF should_exit THEN "closing" ELSE "lock"

\* Faulty variant: the mutex that protects sockfd is not taken.
LockSockfdNot ==
    /\ main = "lock"
    /\ main' = "accept"
    /\ UNCHANGED <<sockfd, sockfd_mutex, faults, acceptFailed, exitVars, parserVars, threadVars,
                   clientVars, netVars>>

LockSockfd ==
    /\ main = "lock"
    /\ ~sockfd_mutex
    /\ sockfd_mutex' = TRUE
    /\ main' = "accept"
    /\ UNCHANGED <<sockfd, faults, acceptFailed, exitVars, parserVars, threadVars, clientVars,
                   netVars>>

\* A connection is accepted and its thread created.
Accept(c) ==
    /\ main = "accept" /\ listening
    /\ client[c] # "off" /\ pc[c] = "none"
    /\ sockfd' = c
    /\ Goto(c, "copy")
    /\ main' = LoopTop
    /\ UNCHANGED <<sockfd_mutex, faults, acceptFailed, exitVars, parserVars, fd, req, txn, left, clientVars, netVars>>

\* pthread_create fails: break.
CreateThreadFails(c) ==
    /\ main = "accept" /\ listening
    /\ client[c] # "off" /\ pc[c] = "none"
    /\ faults < MaxFaults /\ faults' = faults + 1
    /\ sockfd' = c
    /\ main' = "closing"
    /\ UNCHANGED <<sockfd_mutex, acceptFailed, exitVars, parserVars, threadVars, clientVars,
                   netVars>>

\* accept returns -1, because of an error or because safe_exit has closed the
\* socket: continue, with the mutex locked.
AcceptFails ==
    /\ main = "accept" /\ listening
    /\ faults < MaxFaults /\ faults' = faults + 1
    /\ acceptFailed' = TRUE
    /\ main' = LoopTop
    /\ UNCHANGED <<sockfd, sockfd_mutex, exitVars, parserVars, threadVars, clientVars, netVars>>

AcceptClosed ==
    /\ main = "accept" /\ ~listening
    /\ main' = LoopTop
    /\ UNCHANGED <<sockfd, sockfd_mutex, faults, acceptFailed, exitVars, parserVars, threadVars,
                   clientVars, netVars>>

\* sigint_handler, on the main thread: longjmp out of the loop, whether or not
\* it waits for the mutex.
Sigint ==
    /\ main \in {"lock", "accept"}
    /\ faults < MaxFaults /\ faults' = faults + 1
    /\ should_exit' = TRUE
    /\ main' = "closing"
    /\ UNCHANGED <<sockfd, sockfd_mutex, acceptFailed, listening, parserVars, threadVars,
                   clientVars, netVars>>

\* The process ends, and its threads and their memory are gone.
EndProcess ==
    /\ main' = "ended"
    /\ pc' = [k \in Client |-> "none"]
    /\ fd' = [k \in Client |-> None]
    /\ req' = [k \in Client |-> 0]
    /\ txn' = [k \in Client |-> "none"]
    /\ left' = [k \in Client |-> FALSE]
    /\ buffer_mutex' = None /\ parse_tree' = None
    /\ sockfd' = None /\ sockfd_mutex' = FALSE
    /\ listening' = FALSE
    /\ c2s' = [c \in Client |-> <<>>]
    /\ UNCHANGED <<faults, acceptFailed, should_exit>>

\* close_db, and main returns.
CloseDb ==
    /\ main = "closing"
    /\ EndProcess
    /\ UNCHANGED <<clientVars, s2c>>

-----------------------------------------------------------------------------
(* client_handler.                                                         *)

\* The thread copies sockfd and lets the main thread go on.
CopyFd(k) ==
    /\ At(k, "copy")
    /\ fd' = [fd EXCEPT ![k] = sockfd]
    /\ sockfd_mutex' = FALSE
    /\ Goto(k, "read")
    /\ UNCHANGED <<main, sockfd, faults, acceptFailed, exitVars, parserVars, req, txn, left, clientVars, netVars>>

Leave(k) == Goto(k, "gone") /\ req' = [req EXCEPT ![k] = 0]

\* read returns 0 or -1: the client has gone.
ReadEnd(k) ==
    /\ At(k, "read")
    /\ client[fd[k]] = "gone" /\ c2s[fd[k]] = <<>>
    /\ Leave(k)
    /\ UNCHANGED <<mainVars, exitVars, parserVars, fd, left, txn, clientVars, netVars>>

\* The first read segments are one command and no other.
Whole(segs) == segs[1].part = 1 /\ Len(segs) = segs[1].of

SetTransaction(k) ==
    txn' = [txn EXCEPT ![k] = IF @ = "none" THEN "single" ELSE @]

ToStatement(k, n) ==
    /\ req' = [req EXCEPT ![k] = n]
    /\ SetTransaction(k)
    /\ Goto(k, "lock")
    /\ UNCHANGED <<main, exitVars, left>>

\* exit, safe_exit, or a statement.
Dispatch(k, n) ==
    \/ /\ Leave(k)
       /\ UNCHANGED <<main, exitVars, left, txn>>
    \/ /\ should_exit' = TRUE
       /\ listening' = FALSE
       /\ Leave(k)
       /\ UNCHANGED <<main, left, txn>>
    \/ ToStatement(k, n)

\* A read takes what has arrived for a request.
Receive(k) ==
    /\ At(k, "read")
    /\ \E len \in 1 .. Len(c2s[fd[k]]) :
          /\ c2s' = [c2s EXCEPT ![fd[k]] = SubSeq(@, len + 1, Len(@))]
          /\ IF Whole(SubSeq(c2s[fd[k]], 1, len))
             THEN Dispatch(k, c2s[fd[k]][len].n) /\ UNCHANGED split
             ELSE ToStatement(k, c2s[fd[k]][len].n) /\ split' = [split EXCEPT ![fd[k]] = TRUE]
    /\ UNCHANGED <<sockfd, sockfd_mutex, faults, acceptFailed, parserVars, fd, client, sent,
                   mismatch, s2c>>

\* The request is crash.
Crash(k) ==
    /\ At(k, "read")
    /\ c2s[fd[k]] # <<>> /\ Whole(c2s[fd[k]])
    /\ EndProcess
    /\ UNCHANGED <<clientVars, s2c>>

LockBuffer(k) ==
    /\ At(k, "lock")
    /\ buffer_mutex = None
    /\ buffer_mutex' = k
    /\ parse_tree' = None
    /\ Goto(k, "parse")
    /\ UNCHANGED <<mainVars, exitVars, fd, req, txn, left, clientVars, netVars>>

\* Faulty variant: the mutex is given back when yyparse returns.
ParseThenUnlock(k) ==
    /\ At(k, "parse")
    /\ buffer_mutex' = None
    /\ \/ parse_tree' = k /\ Goto(k, "parsed")
       \/ parse_tree' = parse_tree /\ Goto(k, "reply")
    /\ UNCHANGED <<mainVars, exitVars, fd, req, txn, left, clientVars, netVars>>

\* yyparse leaves a tree, or none: a syntax error, a literal out of range, or
\* nothing but blanks and comments.
Parse(k) ==
    /\ At(k, "parse")
    /\ \/ parse_tree' = k /\ Goto(k, "parsed")
       \/ parse_tree' = parse_tree /\ Goto(k, "unlock")
    /\ UNCHANGED <<mainVars, exitVars, buffer_mutex, fd, req, txn, left, clientVars,
                   netVars>>

\* Faulty variant: an exception of do_analyze leaves the mutex locked.
AnalyseKeepsLock(k) ==
    /\ At(k, "parsed")
    /\ \/ buffer_mutex' = None /\ Goto(k, "execute")
       \/ buffer_mutex' = buffer_mutex /\ Goto(k, "reply")
    /\ UNCHANGED <<mainVars, exitVars, parse_tree, fd, req, txn, left, clientVars,
                   netVars>>

\* do_analyze returns and the mutex is released, or it throws and the mutex
\* is released after the handler.  Nobody reads parse_tree any more before the
\* next thread resets it.
Analyse(k) ==
    /\ At(k, "parsed")
    /\ parse_tree' = None
    /\ \/ buffer_mutex' = None /\ Goto(k, "execute")
       \/ buffer_mutex' = buffer_mutex /\ Goto(k, "unlock")
    /\ UNCHANGED <<mainVars, exitVars, fd, req, txn, left, clientVars,
                   netVars>>

\* finish_analyze is false.
UnlockBuffer(k) ==
    /\ At(k, "unlock")
    /\ buffer_mutex' = None
    /\ Goto(k, "reply")
    /\ UNCHANGED <<mainVars, exitVars, parse_tree, fd, req, txn, left, clientVars,
                   netVars>>

\* plan_query, start, run: BEGIN; COMMIT, ABORT, or an exception of the lock
\* manager, which aborts; any other statement, and any other exception.
Execute(k) ==
    /\ At(k, "execute")
    /\ \E result \in {"explicit", IF txn[k] = "explicit" THEN "none" ELSE "over", txn[k]} :
          txn' = [txn EXCEPT ![k] = result]
    /\ Goto(k, "reply")
    /\ UNCHANGED <<mainVars, exitVars, parserVars, fd, req, left, clientVars, netVars>>

\* A message is put on the stream, in one segment or in two.
Put(stream, c, n) ==
    \E len \in 1 .. 2 :
        /\ stream' = [stream EXCEPT ![c] = @ \o [i \in 1 .. len |-> [n |-> n, part |-> i, of |-> len]]]
        /\ faults' = faults + len - 1
        /\ faults' <= MaxFaults

\* Faulty variant: an aborted transaction is answered a second time.
ReplyAbortTwice(k) ==
    /\ At(k, "reply")
    /\ client[fd[k]] # "gone"
    /\ s2c' = [s2c EXCEPT ![fd[k]] =
                  @ \o [i \in 1 .. IF txn[k] = "over" THEN 2 ELSE 1 |->
                           [n |-> req[k], part |-> 1, of |-> 1]]]
    /\ faults' = faults
    /\ req' = [req EXCEPT ![k] = 0]
    /\ Goto(k, IF txn[k] \in {"single", "over"} THEN "commit" ELSE "read")
    /\ UNCHANGED <<main, sockfd, sockfd_mutex, acceptFailed, exitVars, parserVars, fd, txn, left, clientVars, c2s>>

\* Faulty variant: only a statement that ended its transaction is committed.
ReplyFailedOpen(k) ==
    /\ At(k, "reply")
    /\ client[fd[k]] # "gone"
    /\ Put(s2c, fd[k], req[k])
    /\ req' = [req EXCEPT ![k] = 0]
    /\ Goto(k, IF txn[k] = "over" THEN "commit" ELSE "read")
    /\ UNCHANGED <<main, sockfd, sockfd_mutex, acceptFailed, exitVars, parserVars, fd, txn, left, clientVars, c2s>>

\* The answer is written, then a single statement is committed.
Reply(k) ==
    /\ At(k, "reply")
    /\ client[fd[k]] # "gone"
    /\ Put(s2c, fd[k], req[k])
    /\ req' = [req EXCEPT ![k] = 0]
    /\ Goto(k, IF txn[k] \in {"single", "over"} THEN "commit" ELSE "read")
    /\ UNCHANGED <<main, sockfd, sockfd_mutex, acceptFailed, exitVars, parserVars, fd, txn, left, clientVars, c2s>>

\* The client has closed its end.  The kernel takes the bytes, or write fails:
\* then it returns -1, or SIGPIPE, which the server does not handle, ends the
\* process.
ReplyToNobody(k) ==
    /\ At(k, "reply")
    /\ client[fd[k]] = "gone"
    /\ \/ Goto(k, IF txn[k] \in {"single", "over"} THEN "commit" ELSE "read") /\ UNCHANGED left
       \/ Goto(k, "gone") /\ left' = [left EXCEPT ![k] = TRUE]
    /\ req' = [req EXCEPT ![k] = 0]
    /\ UNCHANGED <<mainVars, exitVars, parserVars, fd, txn, clientVars, netVars>>

KilledByReply(k) ==
    /\ At(k, "reply")
    /\ client[fd[k]] = "gone"
    /\ EndProcess
    /\ UNCHANGED <<clientVars, s2c>>

\* A transaction that was aborted is committed too.
Commit(k) ==
    /\ At(k, "commit")
    /\ txn' = [txn EXCEPT ![k] = "none"]
    /\ Goto(k, "read")
    /\ UNCHANGED <<mainVars, exitVars, parserVars, fd, req, left, clientVars, netVars>>

-----------------------------------------------------------------------------
(* rmdb_client.                                                            *)

Become(c, label) == client' = [client EXCEPT ![c] = label]

\* The socket is closed, and what was not read is lost.
Close(c) ==
    /\ Become(c, "gone")
    /\ s2c' = [s2c EXCEPT ![c] = <<>>]
    /\ sent' = [sent EXCEPT ![c] = 0]
    /\ split' = [split EXCEPT ![c] = FALSE]
    /\ mismatch' = [mismatch EXCEPT ![c] = FALSE]
    /\ UNCHANGED <<mainVars, exitVars, parserVars, threadVars, c2s>>

\* connect succeeds as soon as the kernel has queued the connection.
Connect(c) ==
    /\ client[c] = "off"
    /\ Become(c, IF Running /\ listening THEN "prompt" ELSE "gone")
    /\ UNCHANGED <<mainVars, exitVars, parserVars, threadVars, sent, split, mismatch, netVars>>

\* A line is sent as it is.
Send(c) ==
    /\ client[c] = "prompt"
    /\ sent[c] < MaxCommands[c]
    /\ sent' = [sent EXCEPT ![c] = @ + 1]
    /\ Put(c2s, c, sent[c] + 1)
    /\ Become(c, "recv")
    /\ UNCHANGED <<main, sockfd, sockfd_mutex, acceptFailed, exitVars, parserVars, threadVars,
                   split, mismatch, s2c>>

\* One recv, shown up to the first NUL.
Recv(c) ==
    /\ client[c] = "recv"
    /\ \E len \in 1 .. Len(s2c[c]) :
          /\ split' = [split EXCEPT ![c] = @ \/ ~Whole(SubSeq(s2c[c], 1, len))]
          /\ mismatch' = [mismatch EXCEPT ![c] = @ \/ s2c[c][1].n # sent[c] \/ s2c[c][1].part # 1]
          /\ s2c' = [s2c EXCEPT ![c] = SubSeq(@, len + 1, Len(@))]
    /\ Become(c, "prompt")
    /\ UNCHANGED <<mainVars, exitVars, parserVars, threadVars, sent, c2s>>

\* recv returns 0 or less: the server has closed the connection.
RecvEnd(c) ==
    /\ client[c] = "recv"
    /\ s2c[c] = <<>>
    /\ ~Running \/ \E k \in Client : fd[k] = c /\ pc[k] = "gone"
    /\ Close(c)

\* exit, bye, end of input, or the program is killed while it waits.
Quit(c) ==
    /\ client[c] \in {"prompt", "recv"}
    /\ Close(c)

-----------------------------------------------------------------------------
Init ==
    /\ main = "lock" /\ should_exit = FALSE /\ listening = TRUE
    /\ sockfd = None /\ sockfd_mutex = FALSE
    /\ buffer_mutex = None /\ parse_tree = None
    /\ pc = [k \in Client |-> "none"]
    /\ fd = [k \in Client |-> None]
    /\ req = [k \in Client |-> 0]
    /\ txn = [k \in Client |-> "none"]
    /\ client = [c \in Client |-> "off"]
    /\ sent = [c \in Client |-> 0]
    /\ c2s = [c \in Client |-> <<>>] /\ s2c = c2s
    /\ faults = 0
    /\ split = [c \in Client |-> FALSE] /\ mismatch = split
    /\ acceptFailed = FALSE
    /\ left = [k \in Client |-> FALSE]

MainStep ==
    \/ LockSockfd \/ AcceptClosed \/ CloseDb
    \/ \E c \in Client : Accept(c)

Fault == AcceptFails \/ Sigint \/ \E c \in Client : CreateThreadFails(c)

Handler(k) ==
    \/ CopyFd(k) \/ ReadEnd(k) \/ Receive(k) \/ Crash(k)
    \/ LockBuffer(k) \/ Parse(k) \/ Analyse(k) \/ UnlockBuffer(k) \/ Execute(k)
    \/ Reply(k) \/ ReplyToNobody(k) \/ KilledByReply(k) \/ Commit(k)

Answered(c) == Recv(c) \/ RecvEnd(c)

User(c) == Connect(c) \/ Quit(c) \/ Send(c)

Next ==
    \/ MainStep \/ Fault
    \/ \E k \in Client : Handler(k) \/ Answered(k) \/ User(k)

\* The operating system runs every thread that can run, and the client reads
\* what arrives; users need not do anything and nothing need fail.
Fairness ==
    /\ WF_vars(MainStep)
    /\ \A k \in Client : WF_vars(Handler(k)) /\ WF_vars(Answered(k))

Spec == Init /\ [][Next]_vars /\ Fairness

-----------------------------------------------------------------------------
(* Properties.                                                             *)

\* Every thread serves the connection it was created for, although it gets
\* the address of a variable that the main thread uses again.
HandOffExact == \A k \in Client : fd[k] \in {None, k}

\* The tree do_analyze reads was parsed from the request of the same thread,
\* and one thread at a time is between yyparse and the end of do_analyze.
AnalysesOwnTree ==
    \A k \in Client : pc[k] = "parsed" =>
        /\ parse_tree = k
        /\ \A j \in Client \ {k} : pc[j] \notin {"parse", "parsed", "unlock"}

\* A client shows to each command the beginning of its own answer, whatever
\* the other clients do, unless a read took a command or an answer in parts.
AnswersMatchUnlessSplit == \A c \in Client : mismatch[c] => split[c]

\* A transaction is still open when its thread has ended or waits for the
\* next request only if it is explicit, or its answer could not be written.
OpenOnlyIfExplicit ==
    \A k \in Client : pc[k] \in {"read", "gone"} =>
        txn[k] \in {"none", "explicit"} \/ left[k]

\* Again and again there is no command without an answer or the end of its
\* connection, and no safe_exit or SIGINT without close_db and the end of the
\* process; unless accept has failed: then the main thread waits for the mutex
\* it holds itself, and the kernel goes on taking connections nobody serves.
AllServedUnlessAcceptFailed ==
    []<>(acceptFailed \/ /\ \A c \in Client : client[c] # "recv"
                         /\ should_exit => main = "ended")

=============================================================================
