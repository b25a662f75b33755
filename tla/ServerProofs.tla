---------------------------- MODULE ServerProofs ----------------------------
(***************************************************************************)
(* Proofs about the server process and its clients, for any number of      *)
(* clients and any numbers of commands and faults.  Four invariants, each  *)
(* inductive on top of the ones before it: the hand-off of the connection  *)
(* to the new thread, the use of the parser, the end of transactions, and  *)
(* the exchange of commands and answers.                                   *)
(***************************************************************************)
EXTENDS Server, TLAPS

Label == {"none", "copy", "read", "lock", "parse", "parsed", "unlock", "execute", "reply",
          "commit", "gone"}

\* Before the thread has its own copy of the descriptor.
Early == {"none", "copy"}

-----------------------------------------------------------------------------
(* The steps, reduced to what they do to the threads.                      *)

\* Thread k, which has its descriptor, moves from one label to another.
Moves(k, from, to) ==
    /\ main # "ended"
    /\ pc[k] \in from
    /\ pc' \in {[pc EXCEPT ![k] = l] : l \in to}

\* What a thread does is to copy the descriptor, to end the process, or to
\* move between labels behind the copy.
LEMMA HandlerCases ==
    ASSUME NEW k \in Client, Handler(k)
    PROVE  \/ CopyFd(k)
           \/ EndProcess /\ UNCHANGED <<clientVars, s2c>>
           \/ /\ Moves(k, Label \ Early, Label \ Early)
              /\ UNCHANGED <<main, sockfd, sockfd_mutex, fd>>
<1> USE DEF At, Running, Goto, Moves, Label, Early
<1>1. CASE CopyFd(k)
  BY <1>1, Zenon
<1>2. CASE ReadEnd(k)
  BY <1>2, Zenon DEF ReadEnd, Leave, mainVars
<1>3. CASE Receive(k)
  BY <1>3, Zenon DEF Receive, Dispatch, ToStatement, Leave
<1>4. CASE Crash(k) \/ KilledByReply(k)
  BY <1>4, Zenon DEF Crash, KilledByReply
<1>5. CASE LockBuffer(k) \/ Parse(k)
  BY <1>5, Zenon DEF LockBuffer, Parse, mainVars
<1>6. CASE Analyse(k) \/ UnlockBuffer(k)
  BY <1>6, Zenon DEF Analyse, UnlockBuffer, mainVars
<1>7. CASE Execute(k) \/ Commit(k)
  BY <1>7, Zenon DEF Execute, Commit, mainVars
<1>8. CASE Reply(k) \/ ReplyToNobody(k)
  BY <1>8, Zenon DEF Reply, ReplyToNobody, mainVars
<1> QED BY <1>1, <1>2, <1>3, <1>4, <1>5, <1>6, <1>7, <1>8, Zenon DEF Handler

\* Clients leave the server alone.
LEMMA ClientCases ==
    ASSUME NEW c \in Client, Answered(c) \/ User(c)
    PROVE  UNCHANGED <<main, sockfd, sockfd_mutex, parserVars, threadVars>>
<1>1. CASE Answered(c)
  BY <1>1, Zenon DEF Answered, Recv, RecvEnd, Close, mainVars
<1>2. CASE Connect(c) \/ Quit(c)
  BY <1>2, Zenon DEF Connect, Quit, Close, mainVars
<1>3. CASE Send(c)
  BY <1>3, Zenon DEF Send
<1> QED BY <1>1, <1>2, <1>3, Zenon DEF User

-----------------------------------------------------------------------------
(* The hand-off of the descriptor.                                         *)

\* A thread that has not copied sockfd yet is the one sockfd was set for, and
\* keeps the mutex, which the main thread took, locked; while the main thread
\* is in accept no such thread exists.
HInv ==
    /\ pc \in [Client -> Label]
    /\ fd \in [Client -> Client \cup {None}]
    /\ \A k \in Client : fd[k] = IF pc[k] \in Early THEN None ELSE k
    /\ \A k \in Client : pc[k] = "copy" => sockfd = k /\ sockfd_mutex = TRUE /\ main # "accept"
    /\ main = "accept" => sockfd_mutex = TRUE

\* accept, the creation of threads and the copy of the socket keep the
\* hand-off invariant.
LEMMA HInvStep == HInv /\ [Next]_vars => HInv'
<1> SUFFICES ASSUME HInv, [Next]_vars PROVE HInv'
  OBVIOUS
<1> USE NoneAssumption DEF HInv
<1>1. CASE LockSockfd
  <2>1. ~sockfd_mutex /\ sockfd_mutex' = TRUE
    BY <1>1, Zenon DEF LockSockfd
  <2> QED BY <1>1, <2>1, Zenon DEF LockSockfd, threadVars
<1>2. CASE AcceptClosed \/ AcceptFails
  BY <1>2, Zenon DEF AcceptClosed, AcceptFails, LoopTop, threadVars
<1>3. CASE Sigint
  BY <1>3, Zenon DEF Sigint, threadVars
<1>4. ASSUME NEW c \in Client, Accept(c) PROVE HInv'
  BY <1>4, Zenon DEF Accept, Goto, LoopTop, Label, Early
<1>5. ASSUME NEW c \in Client, CreateThreadFails(c) PROVE HInv'
  BY <1>5, Zenon DEF CreateThreadFails, threadVars
<1>6. CASE EndProcess
  BY <1>6, Zenon DEF EndProcess, Label, Early
<1>7. ASSUME NEW k \in Client, CopyFd(k) PROVE HInv'
  BY <1>7 DEF CopyFd, At, Goto, Label, Early
<1>8. ASSUME NEW k \in Client, Moves(k, Label \ Early, Label \ Early),
             UNCHANGED <<main, sockfd, sockfd_mutex, fd>>
      PROVE  HInv'
  BY <1>8 DEF Moves, Label, Early
<1>9. CASE UNCHANGED <<main, sockfd, sockfd_mutex, parserVars, threadVars>>
  BY <1>9, Zenon DEF threadVars
<1>10. CASE UNCHANGED vars
  BY <1>10, Zenon DEF vars, mainVars, threadVars
<1> QED BY <1>1, <1>2, <1>3, <1>4, <1>5, <1>6, <1>7, <1>8, <1>9, <1>10, HandlerCases, ClientCases, Zenon
        DEF Next, MainStep, Fault, CloseDb

\* Every thread gets the connection it was created for: CopyFd reads sockfd
\* before the main thread can accept the next connection into it, for any
\* number of clients, failing accepts, signals and ends of the process.
THEOREM HandOffExactAlways == Spec => []HandOffExact
<1>1. Init => HInv
  BY DEF Init, HInv, Label, Early
<1>2. HInv => HandOffExact
  BY Zenon DEF HInv, HandOffExact
<1> QED BY <1>1, <1>2, HInvStep, PTL DEF Spec

-----------------------------------------------------------------------------
(* The parser's globals.                                                   *)

Parsing == {"parse", "parsed", "unlock"}

\* buffer_mutex is held by the thread that is between LockBuffer and the
\* release, and parse_tree is the tree of the thread about to analyse one.
AInv ==
    /\ \A k \in Client : pc[k] \in Parsing => buffer_mutex = k
    /\ \A k \in Client : pc[k] = "parsed" => parse_tree = k

\* The parse and the analysis of a statement, with the parser's mutex between.
LEMMA AInvStep == HInv /\ AInv /\ [Next]_vars => AInv'
<1> SUFFICES ASSUME HInv, AInv, [Next]_vars PROVE AInv'
  OBVIOUS
<1> USE NoneAssumption DEF AInv, Parsing
<1>0. pc \in [Client -> Label]
  BY Zenon DEF HInv
<1>1. CASE MainStep \/ Fault
  <2>1. CASE CloseDb
    BY <2>1, Zenon DEF CloseDb, EndProcess
  <2>2. ASSUME NEW c \in Client, Accept(c) PROVE AInv'
    BY <1>0, <2>2, Zenon DEF Accept, Goto, parserVars
  <2>3. CASE LockSockfd \/ AcceptClosed \/ AcceptFails \/ Sigint
    BY <2>3, Zenon DEF LockSockfd, AcceptClosed, AcceptFails, Sigint, parserVars, threadVars
  <2>4. ASSUME NEW c \in Client, CreateThreadFails(c) PROVE AInv'
    BY <2>4, Zenon DEF CreateThreadFails, parserVars, threadVars
  <2> QED BY <1>1, <2>1, <2>2, <2>3, <2>4, Zenon DEF MainStep, Fault
<1>2. ASSUME NEW k \in Client, Handler(k) PROVE AInv'
  <2> USE <1>0 DEF At, Goto
  <2>1. CASE CopyFd(k) \/ ReadEnd(k)
    BY <2>1, Zenon DEF CopyFd, ReadEnd, Leave, parserVars
  <2>2. CASE Receive(k)
    <3>1. pc' = [pc EXCEPT ![k] = "gone"] \/ pc' = [pc EXCEPT ![k] = "lock"]
      BY <2>2, Zenon DEF Receive, Dispatch, ToStatement, Leave
    <3> QED BY <2>2, <3>1, Zenon DEF Receive, parserVars
  <2>3. CASE Crash(k) \/ KilledByReply(k)
    BY <2>3, Zenon DEF Crash, KilledByReply, EndProcess
  <2>4. CASE LockBuffer(k)
    BY <2>4, Zenon DEF LockBuffer
  <2>5. CASE Parse(k)
    BY <2>5, Zenon DEF Parse
  <2>6. CASE Analyse(k)
    BY <2>6, Zenon DEF Analyse
  <2>7. CASE UnlockBuffer(k)
    BY <2>7, Zenon DEF UnlockBuffer
  <2>8. CASE Execute(k) \/ Commit(k)
    BY <2>8, Zenon DEF Execute, Commit, parserVars
  <2>9. CASE Reply(k) \/ ReplyToNobody(k)
    BY <2>9, Zenon DEF Reply, ReplyToNobody, parserVars
  <2> QED BY <1>2, <2>1, <2>2, <2>3, <2>4, <2>5, <2>6, <2>7, <2>8, <2>9, Zenon DEF Handler
<1>3. ASSUME NEW c \in Client, Answered(c) \/ User(c) PROVE AInv'
  BY <1>3, ClientCases, Zenon DEF parserVars, threadVars
<1>4. CASE UNCHANGED vars
  BY <1>4, Zenon DEF vars, parserVars, threadVars
<1> QED BY <1>1, <1>2, <1>3, <1>4, Zenon DEF Next

\* do_analyze reads the tree of its own request, however many threads parse:
\* the mutex covers yyparse and do_analyze together.
THEOREM AnalysesOwnTreeAlways == Spec => []AnalysesOwnTree
<1>1. Init => HInv /\ AInv
  BY DEF Init, HInv, AInv, Label, Early, Parsing
<1>2. AInv => AnalysesOwnTree
  BY NoneAssumption, Zenon DEF AInv, AnalysesOwnTree, Parsing
<1> QED BY <1>1, <1>2, HInvStep, AInvStep, PTL DEF Spec

-----------------------------------------------------------------------------
(* Transactions.                                                           *)

TxnKind == {"none", "single", "explicit", "over"}

\* A thread that has read no request has no transaction, and one that waits
\* or has ended has an explicit one or none, or could not write.
OInv ==
    /\ txn \in [Client -> TxnKind]
    /\ left \in [Client -> BOOLEAN]
    /\ \A k \in Client : pc[k] \in Early \cup {"read"} => txn[k] \in {"none", "explicit"}
    /\ \A k \in Client : pc[k] = "gone" => txn[k] \in {"none", "explicit"} \/ left[k]

\* begin, commit, abort, and the transaction of a single statement.
LEMMA OInvStep == HInv /\ OInv /\ [Next]_vars => OInv'
<1> SUFFICES ASSUME HInv, OInv, [Next]_vars PROVE OInv'
  OBVIOUS
<1> USE DEF OInv, TxnKind, Early
<1>0. pc \in [Client -> Label]
  BY Zenon DEF HInv
<1>5. ASSUME EndProcess PROVE OInv'
  BY <1>5, Zenon DEF EndProcess
<1>1. CASE MainStep \/ Fault
  <2>1. CASE CloseDb
    BY <1>5, <2>1, Zenon DEF CloseDb
  <2>2. ASSUME NEW c \in Client, Accept(c) PROVE OInv'
    BY <1>0, <2>2, Zenon DEF Accept, Goto
  <2>3. CASE LockSockfd \/ AcceptClosed \/ AcceptFails \/ Sigint
    BY <2>3, Zenon DEF LockSockfd, AcceptClosed, AcceptFails, Sigint, threadVars
  <2>4. ASSUME NEW c \in Client, CreateThreadFails(c) PROVE OInv'
    BY <2>4, Zenon DEF CreateThreadFails, threadVars
  <2> QED BY <1>1, <2>1, <2>2, <2>3, <2>4, Zenon DEF MainStep, Fault
<1>2. ASSUME NEW k \in Client, Handler(k) PROVE OInv'
  <2> USE <1>0 DEF At, Goto
  <2>1. CASE CopyFd(k) \/ ReadEnd(k)
    BY <2>1, Zenon DEF CopyFd, ReadEnd, Leave
  <2>2. CASE Receive(k)
    <3>1. \/ pc' = [pc EXCEPT ![k] = "gone"] /\ UNCHANGED <<txn, left>> /\ pc[k] = "read"
          \/ pc' = [pc EXCEPT ![k] = "lock"] /\ SetTransaction(k) /\ UNCHANGED left
      BY <2>2, Zenon DEF Receive, Dispatch, ToStatement, Leave
    <3> QED BY <3>1 DEF SetTransaction
  <2>3. CASE Crash(k) \/ KilledByReply(k)
    BY <1>5, <2>3, Zenon DEF Crash, KilledByReply
  <2>4. CASE LockBuffer(k) \/ Parse(k)
    BY <2>4 DEF LockBuffer, Parse
  <2>5. CASE Analyse(k) \/ UnlockBuffer(k)
    BY <2>5 DEF Analyse, UnlockBuffer
  <2>6. CASE Execute(k)
    BY <2>6, Zenon DEF Execute
  <2>7. CASE Commit(k)
    BY <2>7, Zenon DEF Commit
  <2>8. CASE Reply(k)
    BY <2>8, Zenon DEF Reply
  <2>9. CASE ReplyToNobody(k)
    BY <2>9 DEF ReplyToNobody
  <2> QED BY <1>2, <2>1, <2>2, <2>3, <2>4, <2>5, <2>6, <2>7, <2>8, <2>9, Zenon DEF Handler
<1>3. ASSUME NEW c \in Client, Answered(c) \/ User(c) PROVE OInv'
  BY <1>3, ClientCases, Zenon DEF threadVars
<1>4. CASE UNCHANGED vars
  BY <1>4, Zenon DEF vars, threadVars
<1> QED BY <1>1, <1>2, <1>3, <1>4, Zenon DEF Next

\* client_handler never waits for a request, or ends, with the transaction of
\* a single statement open, except when it could not write its answer.
THEOREM OpenOnlyIfExplicitAlways == Spec => []OpenOnlyIfExplicit
<1>1. Init => HInv /\ OInv
  BY DEF Init, HInv, OInv, Label, Early, TxnKind
<1>2. OInv => OpenOnlyIfExplicit
  BY Zenon DEF OInv, OpenOnlyIfExplicit, Early
<1> QED BY <1>1, <1>2, HInvStep, OInvStep, PTL DEF Spec

-----------------------------------------------------------------------------
(* Commands and answers.                                                   *)

\* The segments of command or answer n.
Message(n, len) == [i \in 1 .. len |-> [n |-> n, part |-> i, of |-> len]]

\* A message put on an empty stream is all that is on it.
LEMMA PutOnEmpty ==
    ASSUME NEW n, NEW len \in 1 .. 2
    PROVE  <<>> \o Message(n, len) = Message(n, len)
BY DEF Message

\* A message that is on its own is taken as a whole or in parts; as a whole,
\* nothing is left of it.
LEMMA MessageEffect ==
    ASSUME NEW n, NEW m \in 1 .. 2, NEW len \in 1 .. Len(Message(n, m))
    PROVE  /\ Message(n, m)[1] = [n |-> n, part |-> 1, of |-> m]
           /\ Message(n, m)[len].n = n
           /\ Whole(SubSeq(Message(n, m), 1, len)) <=> len = m
           /\ Whole(SubSeq(Message(n, m), 1, len))
                => SubSeq(Message(n, m), len + 1, Len(Message(n, m))) = <<>>
<1> DEFINE s == Message(n, m)
           S == {[n |-> n, part |-> i, of |-> m] : i \in 1 .. m}
<1>1. s \in Seq(S) /\ Len(s) = m /\ DOMAIN s = 1 .. m
  BY DEF Message
<1>2. \A i \in 1 .. m : s[i] = [n |-> n, part |-> i, of |-> m]
  BY Zenon DEF Message
<1> HIDE DEF s, S
<1>3. len \in 1 .. m /\ 1 \in 1 .. m
  BY <1>1 DEF s
<1>4. Len(SubSeq(s, 1, len)) = len /\ SubSeq(s, 1, len)[1] = s[1]
  BY <1>1, <1>3
<1>5. Whole(SubSeq(s, 1, len)) <=> len = m
  <2>1. s[1] = [n |-> n, part |-> 1, of |-> m]
    BY <1>2, <1>3, Zenon
  <2>2. s[1].part = 1 /\ s[1].of = m
    BY <2>1
  <2> QED BY <1>4, <2>2, Zenon DEF Whole
<1>6. len = m => SubSeq(s, len + 1, Len(s)) = <<>>
  <2>1. SubSeq(s, m + 1, m) \in Seq(S) /\ Len(SubSeq(s, m + 1, m)) = 0
    BY <1>1
  <2> QED BY <1>1, <2>1
<1> QED BY <1>1, <1>2, <1>3, <1>5, <1>6 DEF s

Serving == {"lock", "parse", "parsed", "unlock", "execute", "reply"}
Segment == [n : Nat, part : 1 .. 2, of : 1 .. 2]

\* The message on a stream is the client's last command, or the answer to it.
Latest(segs, c) == \E m \in 1 .. 2 : segs = Message(sent[c], m)

\* A client that waits for an answer has one thing outstanding: the command
\* on its way, the command in the hands of its thread, or the answer on its
\* way; nothing if the thread or the process has ended.
Outstanding(c) ==
    \/ Latest(c2s[c], c) /\ s2c[c] = <<>> /\ pc[c] \notin Serving
    \/ c2s[c] = <<>> /\ s2c[c] = <<>> /\ (pc[c] \in Serving => req[c] = sent[c])
    \/ c2s[c] = <<>> /\ Latest(s2c[c], c) /\ pc[c] \notin Serving

\* Command and answer alternate on a connection whose reads took whole
\* messages so far.
Exchange(c) ==
    /\ client[c] = "off" => pc[c] = "none" /\ c2s[c] = <<>> /\ s2c[c] = <<>>
    /\ client[c] = "prompt" /\ ~split[c] => c2s[c] = <<>> /\ s2c[c] = <<>> /\ pc[c] \notin Serving
    /\ client[c] = "recv" /\ ~split[c] => Outstanding(c)
    /\ mismatch[c] => split[c]

EType ==
    /\ client \in [Client -> {"off", "prompt", "recv", "gone"}]
    /\ sent \in [Client -> Nat] /\ req \in [Client -> Nat]
    /\ c2s \in [Client -> Seq(Segment)] /\ s2c \in [Client -> Seq(Segment)]
    /\ split \in [Client -> BOOLEAN] /\ mismatch \in [Client -> BOOLEAN]

EInv == EType /\ \A c \in Client : Exchange(c)

\* A connection that a step does not touch stays as it was.
LEMMA ExchangeKept ==
    ASSUME NEW c \in Client, Exchange(c),
           client'[c] = client[c], sent'[c] = sent[c], c2s'[c] = c2s[c], s2c'[c] = s2c[c],
           split'[c] = split[c], mismatch'[c] = mismatch[c],
           client[c] = "off" => pc'[c] = "none",
           pc'[c] \in Serving => pc[c] \in Serving /\ req'[c] = req[c]
    PROVE  Exchange(c)'
<1>1. Latest(c2s[c], c)' <=> Latest(c2s[c], c)
  BY Zenon DEF Latest
<1>2. Latest(s2c[c], c)' <=> Latest(s2c[c], c)
  BY Zenon DEF Latest
<1>3. Outstanding(c) => Outstanding(c)'
  BY <1>1, <1>2, Zenon DEF Outstanding
<1>4. ~split'[c] => ~split[c]
  BY Zenon
<1>5. mismatch'[c] => split'[c]
  BY Zenon DEF Exchange
<1> QED BY <1>3, <1>4, <1>5, Zenon DEF Exchange

\* Messages are sequences of segments, and so is what is left of a stream.
LEMMA StreamTypes ==
    /\ \A n \in Nat : \A m \in 1 .. 2 : Message(n, m) \in Seq(Segment)
    /\ \A s \in Seq(Segment) : \A len \in 1 .. Len(s) :
          /\ SubSeq(s, len + 1, Len(s)) \in Seq(Segment)
          /\ s[len].n \in Nat
    /\ \A s, t \in Seq(Segment) : s \o t \in Seq(Segment)
<1>1. ASSUME NEW n \in Nat, NEW m \in 1 .. 2 PROVE Message(n, m) \in Seq(Segment)
  <2>1. m \in Nat /\ \A i \in 1 .. m : i \in 1 .. 2
    OBVIOUS
  <2>2. \A i \in 1 .. m : [n |-> n, part |-> i, of |-> m] \in Segment
    BY <2>1, Zenon DEF Segment
  <2>3. Message(n, m) \in [1 .. m -> Segment]
    BY <2>2, Zenon DEF Message
  <2> QED BY <2>1, <2>3
<1>2. ASSUME NEW s \in Seq(Segment), NEW len \in 1 .. Len(s)
      PROVE  SubSeq(s, len + 1, Len(s)) \in Seq(Segment) /\ s[len].n \in Nat
  <2>1. s[len] \in Segment
    OBVIOUS
  <2>2. SubSeq(s, len + 1, Len(s)) \in Seq(Segment)
    OBVIOUS
  <2> QED BY <2>1, <2>2, Zenon DEF Segment
<1>3. \A s, t \in Seq(Segment) : s \o t \in Seq(Segment)
  OBVIOUS
<1> QED BY <1>1, <1>2, <1>3, Zenon


\* A step of one thread that touches no stream and takes up no request.
LEMMA QuietStep ==
    ASSUME HInv, EInv, NEW k \in Client, NEW to, pc' = [pc EXCEPT ![k] = to],
           UNCHANGED <<clientVars, netVars>>,
           client[k] # "off",
           \/ UNCHANGED req
           \/ req' = [req EXCEPT ![k] = 0] /\ to \notin Serving,
           to \in Serving => pc[k] \in Serving
    PROVE  EInv'
<1>1. UNCHANGED <<client, sent, split, mismatch, c2s, s2c>>
  BY Zenon DEF clientVars, netVars
<1>2. pc \in [Client -> Label] /\ req \in [Client -> Nat]
  BY Zenon DEF HInv, EInv, EType
<1>3. EType'
  BY <1>1, <1>2 DEF EInv, EType
<1>4. ASSUME NEW c \in Client PROVE Exchange(c)'
  <2>1. Exchange(c)
    BY Zenon DEF EInv
  <2>2. pc'[c] \in Serving => pc[c] \in Serving /\ req'[c] = req[c]
    BY <1>2, Zenon
  <2>3. client[c] = "off" => pc'[c] = "none"
    BY <1>2, <2>1, Zenon DEF Exchange
  <2> QED BY <1>1, <2>1, <2>2, <2>3, ExchangeKept, Zenon
<1> QED BY <1>3, <1>4, Zenon DEF EInv

\* A thread that has its descriptor serves a client that has connected.
LEMMA Connected ==
    ASSUME HInv, EInv, NEW k \in Client, pc[k] # "none" PROVE client[k] # "off"
BY Zenon DEF EInv, Exchange

\* A read of a whole command takes it from the stream into the thread's hands;
\* any other read is recorded in split.
LEMMA ReceiveExchange ==
    ASSUME HInv, EInv, NEW k \in Client, Receive(k) PROVE EInv'
<1>1. pc[k] = "read" /\ fd[k] = k /\ pc \in [Client -> Label]
  BY Zenon DEF Receive, At, HInv, Early
<1>2. EType /\ Exchange(k) /\ client[k] # "off"
  BY <1>1, Connected, Zenon DEF EInv
<1>3. PICK len \in 1 .. Len(c2s[k]) :
          /\ c2s' = [c2s EXCEPT ![k] = SubSeq(@, len + 1, Len(@))]
          /\ IF Whole(SubSeq(c2s[k], 1, len))
             THEN Dispatch(k, c2s[k][len].n) /\ UNCHANGED split
             ELSE ToStatement(k, c2s[k][len].n) /\ split' = [split EXCEPT ![k] = TRUE]
  BY <1>1, Zenon DEF Receive
<1>4. UNCHANGED <<client, sent, mismatch, s2c>>
  BY Zenon DEF Receive
<1>5. c2s[k] \in Seq(Segment)
  BY <1>2, Zenon DEF EType
<1>6. c2s[k][len].n \in Nat /\ SubSeq(c2s[k], len + 1, Len(c2s[k])) \in Seq(Segment)
  BY <1>5, StreamTypes, Zenon
<1>7. \/ pc' = [pc EXCEPT ![k] = "gone"] /\ req' = [req EXCEPT ![k] = 0]
      \/ pc' = [pc EXCEPT ![k] = "lock"] /\ req' = [req EXCEPT ![k] = c2s[k][len].n]
  BY <1>3, Zenon DEF Dispatch, ToStatement, Leave, Goto
<1>8. split' \in [Client -> BOOLEAN] /\ \A c \in Client \ {k} : split'[c] = split[c]
  BY <1>2, <1>3, Zenon DEF EType
<1>9. EType'
  <2>1. c2s' \in [Client -> Seq(Segment)]
    BY <1>2, <1>3, <1>6, Zenon DEF EType
  <2>2. req' \in [Client -> Nat]
    <3>1. req \in [Client -> Nat] /\ 0 \in Nat
      BY <1>2, Zenon DEF EType
    <3>2. \E n \in Nat : req' = [req EXCEPT ![k] = n]
      BY <1>6, <1>7, <3>1, Zenon
    <3> QED BY <3>1, <3>2, Zenon
  <2> QED BY <1>2, <1>4, <1>8, <2>1, <2>2, Zenon DEF EType
<1>10. ASSUME NEW c \in Client \ {k} PROVE Exchange(c)'
  <2>1. Exchange(c)
    BY Zenon DEF EInv
  <2>2. pc'[c] = pc[c] /\ req'[c] = req[c] /\ c2s'[c] = c2s[c]
    BY <1>1, <1>2, <1>3, <1>7, Zenon DEF EType
  <2> QED BY <1>4, <1>8, <2>1, <2>2, ExchangeKept, Zenon DEF Exchange
<1>11. Exchange(k)'
  <2>1. mismatch'[k] => split'[k]
    BY <1>2, <1>3, <1>4, Zenon DEF Exchange, EType
  <2>2. CASE split'[k] \/ client[k] \notin {"prompt", "recv"}
    BY <1>2, <1>4, <2>1, <2>2, Zenon DEF Exchange
  <2>3. ASSUME ~split'[k], client[k] \in {"prompt", "recv"} PROVE Outstanding(k)' /\ client[k] = "recv"
    <3>1. ~split[k] /\ Whole(SubSeq(c2s[k], 1, len))
      BY <1>2, <1>3, <2>3, Zenon DEF EType
    <3>2. c2s[k] # <<>>
      BY <1>3
    <3>3. client[k] = "recv" /\ Latest(c2s[k], k) /\ s2c[k] = <<>>
      BY <1>2, <2>3, <3>1, <3>2, Zenon DEF Exchange, Outstanding
    <3>4. PICK m \in 1 .. 2 : c2s[k] = Message(sent[k], m)
      BY <3>3, Zenon DEF Latest
    <3>5. c2s[k][len].n = sent[k] /\ SubSeq(c2s[k], len + 1, Len(c2s[k])) = <<>>
      <4>1. len \in 1 .. Len(Message(sent[k], m)) /\ Whole(SubSeq(Message(sent[k], m), 1, len))
        BY <1>3, <3>1, <3>4, Zenon
      <4>2. /\ Message(sent[k], m)[len].n = sent[k]
            /\ SubSeq(Message(sent[k], m), len + 1, Len(Message(sent[k], m))) = <<>>
        BY <4>1, MessageEffect
      <4> QED BY <3>4, <4>2, Zenon
    <3>6. c2s'[k] = <<>> /\ (pc'[k] \in Serving => req'[k] = sent[k])
      BY <1>1, <1>2, <1>3, <1>7, <3>5, Zenon DEF EType, Serving
    <3> QED BY <1>4, <3>3, <3>6, Zenon DEF Outstanding
  <2> QED BY <1>4, <2>1, <2>2, <2>3, Zenon DEF Exchange
<1> QED BY <1>9, <1>10, <1>11, Zenon DEF EInv


\* What Put leaves on the stream it is applied to.
LEMMA PutEffect ==
    ASSUME NEW s \in Seq(Segment), NEW n \in Nat, NEW m \in 1 .. 2
    PROVE  /\ s \o Message(n, m) \in Seq(Segment)
           /\ s = <<>> => s \o Message(n, m) = Message(n, m)
<1>1. Message(n, m) \in Seq(Segment)
  BY StreamTypes, Zenon
<1> QED BY <1>1, StreamTypes, PutOnEmpty, Zenon

\* The answer carries the ordinal of the request the thread took up.
LEMMA ReplyExchange ==
    ASSUME HInv, EInv, NEW k \in Client, Reply(k) PROVE EInv'
<1>1. pc[k] = "reply" /\ fd[k] = k /\ pc \in [Client -> Label]
  BY Zenon DEF Reply, At, HInv, Early
<1>2. EType /\ Exchange(k) /\ client[k] # "off" /\ req[k] \in Nat /\ s2c \in [Client -> Seq(Segment)]
  BY <1>1, Connected, Zenon DEF EInv, EType
<1>3. PICK m \in 1 .. 2 : s2c' = [s2c EXCEPT ![k] = @ \o Message(req[k], m)]
  BY <1>1, Zenon DEF Reply, Put, Message
<1>4. UNCHANGED <<client, sent, split, mismatch, c2s>>
  BY Zenon DEF Reply, clientVars
<1>5. /\ s2c' \in [Client -> Seq(Segment)]
      /\ \A d \in Client \ {k} : s2c'[d] = s2c[d]
      /\ s2c[k] = <<>> => s2c'[k] = Message(req[k], m)
  <2>1. s2c[k] \in Seq(Segment)
    BY <1>2, Zenon
  <2>2. /\ s2c[k] \o Message(req[k], m) \in Seq(Segment)
        /\ s2c[k] = <<>> => s2c[k] \o Message(req[k], m) = Message(req[k], m)
    BY <1>2, <2>1, PutEffect, Zenon
  <2> QED BY <1>2, <1>3, <2>2, Zenon
<1>6. req' = [req EXCEPT ![k] = 0] /\ \E to \in {"commit", "read"} : pc' = [pc EXCEPT ![k] = to]
  BY Zenon DEF Reply, Goto
<1>7. EType'
  BY <1>2, <1>4, <1>5, <1>6, Zenon DEF EType
<1>8. ASSUME NEW c \in Client \ {k} PROVE Exchange(c)'
  <2>1. Exchange(c)
    BY Zenon DEF EInv
  <2>2. pc'[c] = pc[c] /\ req'[c] = req[c] /\ s2c'[c] = s2c[c]
    BY <1>1, <1>2, <1>5, <1>6, Zenon DEF EType
  <2> QED BY <1>4, <2>1, <2>2, ExchangeKept, Zenon DEF Exchange
<1>9. Exchange(k)'
  <2>1. pc'[k] \notin Serving /\ pc[k] \in Serving
    BY <1>1, <1>6, Zenon DEF Serving
  <2>2. ASSUME client[k] \in {"prompt", "recv"}, ~split[k]
        PROVE  client[k] = "recv" /\ Outstanding(k)'
    <3>1. client[k] = "recv" /\ c2s[k] = <<>> /\ s2c[k] = <<>> /\ req[k] = sent[k]
      BY <1>2, <2>1, <2>2, Zenon DEF Exchange, Outstanding
    <3>2. Latest(s2c[k], k)'
      BY <1>4, <1>5, <3>1, Zenon DEF Latest
    <3> QED BY <1>4, <2>1, <3>1, <3>2, Zenon DEF Outstanding
  <2> QED BY <1>2, <1>4, <2>2, Zenon DEF Exchange
<1> QED BY <1>7, <1>8, <1>9, Zenon DEF EInv

\* A command is sent only when nothing is outstanding.
LEMMA SendExchange ==
    ASSUME HInv, EInv, NEW c \in Client, Send(c) PROVE EInv'
<1>1. EType /\ Exchange(c) /\ client[c] = "prompt" /\ sent[c] + 1 \in Nat
      /\ c2s \in [Client -> Seq(Segment)]
  BY DEF EInv, EType, Send
<1>2. PICK m \in 1 .. 2 : c2s' = [c2s EXCEPT ![c] = @ \o Message(sent[c] + 1, m)]
  BY Zenon DEF Send, Put, Message
<1>3. /\ UNCHANGED <<pc, req, split, mismatch, s2c>>
      /\ sent' = [sent EXCEPT ![c] = @ + 1] /\ client' = [client EXCEPT ![c] = "recv"]
  BY Zenon DEF Send, Become, threadVars
<1>4. /\ c2s' \in [Client -> Seq(Segment)]
      /\ \A d \in Client \ {c} : c2s'[d] = c2s[d]
      /\ c2s[c] = <<>> => c2s'[c] = Message(sent[c] + 1, m)
  <2>1. c2s[c] \in Seq(Segment)
    BY <1>1, Zenon
  <2>2. /\ c2s[c] \o Message(sent[c] + 1, m) \in Seq(Segment)
        /\ c2s[c] = <<>> => c2s[c] \o Message(sent[c] + 1, m) = Message(sent[c] + 1, m)
    BY <1>1, <2>1, PutEffect, Zenon
  <2> QED BY <1>1, <1>2, <2>2, Zenon
<1>5. EType'
  BY <1>1, <1>3, <1>4, Zenon DEF EType
<1>6. ASSUME NEW d \in Client \ {c} PROVE Exchange(d)'
  <2>1. Exchange(d)
    BY Zenon DEF EInv
  <2>2. client'[d] = client[d] /\ sent'[d] = sent[d] /\ c2s'[d] = c2s[d]
    BY <1>1, <1>3, <1>4, Zenon DEF EType
  <2> QED BY <1>3, <2>1, <2>2, ExchangeKept, Zenon DEF Exchange
<1>7. Exchange(c)'
  <2>1. client'[c] = "recv" /\ sent'[c] = sent[c] + 1
    BY <1>1, <1>3, Zenon DEF EType
  <2>2. ASSUME ~split[c] PROVE Outstanding(c)'
    <3>1. c2s[c] = <<>> /\ s2c[c] = <<>> /\ pc[c] \notin Serving
      BY <1>1, <2>2, Zenon DEF Exchange
    <3>2. Latest(c2s[c], c)'
      BY <1>4, <2>1, <3>1, Zenon DEF Latest
    <3> QED BY <1>3, <3>1, <3>2, Zenon DEF Outstanding
  <2>3. mismatch'[c] => split'[c]
    BY <1>1, <1>3, Zenon DEF Exchange
  <2> QED BY <1>3, <2>1, <2>2, <2>3, Zenon DEF Exchange
<1> QED BY <1>5, <1>6, <1>7, Zenon DEF EInv


\* A client that reads the whole answer shows the answer to its last command;
\* any other read is recorded in split.
LEMMA RecvExchange ==
    ASSUME HInv, EInv, NEW c \in Client, Recv(c) PROVE EInv'
<1>1. EType /\ Exchange(c) /\ client[c] = "recv" /\ s2c[c] \in Seq(Segment)
  BY Zenon DEF EInv, EType, Recv
<1>2. PICK len \in 1 .. Len(s2c[c]) :
          /\ split' = [split EXCEPT ![c] = @ \/ ~Whole(SubSeq(s2c[c], 1, len))]
          /\ mismatch' = [mismatch EXCEPT ![c] = @ \/ s2c[c][1].n # sent[c] \/ s2c[c][1].part # 1]
          /\ s2c' = [s2c EXCEPT ![c] = SubSeq(@, len + 1, Len(@))]
  BY Zenon DEF Recv
<1>3. UNCHANGED <<pc, req, sent, c2s>> /\ client' = [client EXCEPT ![c] = "prompt"]
  BY Zenon DEF Recv, Become, threadVars
<1>4. SubSeq(s2c[c], len + 1, Len(s2c[c])) \in Seq(Segment)
  BY <1>1, StreamTypes, Zenon
<1>5. /\ split' \in [Client -> BOOLEAN] /\ mismatch' \in [Client -> BOOLEAN]
      /\ \A d \in Client \ {c} : split'[d] = split[d] /\ mismatch'[d] = mismatch[d]
      /\ split'[c] <=> split[c] \/ ~Whole(SubSeq(s2c[c], 1, len))
      /\ mismatch'[c] <=> mismatch[c] \/ s2c[c][1].n # sent[c] \/ s2c[c][1].part # 1
  BY <1>1, <1>2, Zenon DEF EType
<1>6. /\ s2c' \in [Client -> Seq(Segment)]
      /\ \A d \in Client \ {c} : s2c'[d] = s2c[d]
      /\ s2c'[c] = SubSeq(s2c[c], len + 1, Len(s2c[c]))
  BY <1>1, <1>2, <1>4, Zenon DEF EType
<1>7. EType'
  BY <1>1, <1>3, <1>5, <1>6, Zenon DEF EType
<1>8. ASSUME NEW d \in Client \ {c} PROVE Exchange(d)'
  <2>1. Exchange(d)
    BY Zenon DEF EInv
  <2>2. client'[d] = client[d]
    BY <1>1, <1>3, Zenon DEF EType
  <2> QED BY <1>3, <1>5, <1>6, <2>1, <2>2, ExchangeKept, Zenon DEF Exchange
<1>9. Exchange(c)'
  <2>1. client'[c] = "prompt"
    BY <1>1, <1>3, Zenon DEF EType
  <2>2. CASE split'[c]
    BY <2>1, <2>2, Zenon DEF Exchange
  <2>3. CASE ~split'[c]
    <3>1. ~split[c] /\ Whole(SubSeq(s2c[c], 1, len)) /\ s2c[c] # <<>>
      BY <1>2, <1>5, <2>3
    <3>2. c2s[c] = <<>> /\ Latest(s2c[c], c) /\ pc[c] \notin Serving /\ ~mismatch[c]
      BY <1>1, <3>1, Zenon DEF Exchange, Outstanding
    <3>3. PICK m \in 1 .. 2 : s2c[c] = Message(sent[c], m)
      BY <3>2, Zenon DEF Latest
    <3>4. len \in 1 .. Len(Message(sent[c], m)) /\ Whole(SubSeq(Message(sent[c], m), 1, len))
      BY <1>2, <3>1, <3>3, Zenon
    <3>5. /\ Message(sent[c], m)[1] = [n |-> sent[c], part |-> 1, of |-> m]
          /\ SubSeq(Message(sent[c], m), len + 1, Len(Message(sent[c], m))) = <<>>
      BY <3>4, MessageEffect, Zenon
    <3>6. s2c'[c] = <<>> /\ s2c[c][1].n = sent[c] /\ s2c[c][1].part = 1
      BY <1>6, <3>3, <3>5
    <3>7. ~mismatch'[c]
      BY <1>5, <3>2, <3>6, Zenon
    <3> QED BY <1>3, <2>1, <3>2, <3>6, <3>7, Zenon DEF Exchange
  <2> QED BY <2>2, <2>3, Zenon
<1> QED BY <1>7, <1>8, <1>9, Zenon DEF EInv

\* Connecting and closing start and end an exchange.
LEMMA ConnectExchange ==
    ASSUME HInv, EInv, NEW c \in Client, Connect(c) PROVE EInv'
<1>1. UNCHANGED <<pc, req, sent, c2s, s2c, split, mismatch>>
  BY Zenon DEF Connect, threadVars, netVars
<1>2. client[c] = "off" /\ \E to \in {"prompt", "gone"} : client' = [client EXCEPT ![c] = to]
  BY Zenon DEF Connect, Become
<1>3. EType'
  BY <1>1, <1>2, Zenon DEF EInv, EType
<1>4. ASSUME NEW d \in Client \ {c} PROVE Exchange(d)'
  <2>1. Exchange(d) /\ client'[d] = client[d]
    BY <1>2, Zenon DEF EInv, EType
  <2> QED BY <1>1, <2>1, ExchangeKept, Zenon DEF Exchange
<1>5. Exchange(c)'
  <2>1. Exchange(c) /\ client'[c] \in {"prompt", "gone"}
    BY <1>2, Zenon DEF EInv, EType
  <2>2. mismatch'[c] => split'[c]
    BY <1>1, <2>1, Zenon DEF Exchange
  <2> QED BY <1>1, <1>2, <2>1, <2>2, Zenon DEF Exchange, Serving
<1> QED BY <1>3, <1>4, <1>5, Zenon DEF EInv

\* A client that closes its end reads no more answers.
LEMMA CloseExchange ==
    ASSUME HInv, EInv, NEW c \in Client, Close(c) PROVE EInv'
<1>1. UNCHANGED <<pc, req, c2s>>
  BY Zenon DEF Close, threadVars
<1>2. /\ client' = [client EXCEPT ![c] = "gone"] /\ s2c' = [s2c EXCEPT ![c] = <<>>]
      /\ sent' = [sent EXCEPT ![c] = 0] /\ split' = [split EXCEPT ![c] = FALSE]
      /\ mismatch' = [mismatch EXCEPT ![c] = FALSE]
  BY Zenon DEF Close, Become
<1>3. EType
  BY Zenon DEF EInv
<1>4. /\ split' \in [Client -> BOOLEAN] /\ mismatch' \in [Client -> BOOLEAN] /\ ~mismatch'[c]
      /\ \A d \in Client \ {c} : split'[d] = split[d] /\ mismatch'[d] = mismatch[d]
  BY <1>2, <1>3, Zenon DEF EType
<1>5. s2c' \in [Client -> Seq(Segment)] /\ \A d \in Client \ {c} : s2c'[d] = s2c[d]
  BY <1>2, <1>3 DEF EType
<1>6. EType'
  BY <1>1, <1>2, <1>3, <1>4, <1>5, Zenon DEF EType
<1>7. ASSUME NEW d \in Client \ {c} PROVE Exchange(d)'
  <2>1. Exchange(d) /\ client'[d] = client[d] /\ sent'[d] = sent[d]
    BY <1>2, <1>3, Zenon DEF EInv, EType
  <2> QED BY <1>1, <1>4, <1>5, <2>1, ExchangeKept, Zenon DEF Exchange
<1>8. Exchange(c)'
  <2>1. client'[c] = "gone"
    BY <1>2, <1>3, Zenon DEF EType
  <2> QED BY <1>4, <2>1, Zenon DEF Exchange
<1> QED BY <1>6, <1>7, <1>8, Zenon DEF EInv


\* Every step of the server and of the network keeps the exchange.
LEMMA EInvStep == HInv /\ EInv /\ [Next]_vars => EInv'
<1> SUFFICES ASSUME HInv, EInv, [Next]_vars PROVE EInv'
  OBVIOUS
<1>0. pc \in [Client -> Label]
  BY Zenon DEF HInv
<1>1. ASSUME UNCHANGED <<pc, req, clientVars, netVars>> PROVE EInv'
  <2>1. UNCHANGED <<client, sent, split, mismatch, c2s, s2c>>
    BY <1>1, Zenon DEF clientVars, netVars
  <2>2. EType'
    BY <1>1, <2>1, Zenon DEF EInv, EType
  <2>3. ASSUME NEW c \in Client PROVE Exchange(c)'
    <3>1. Exchange(c)
      BY Zenon DEF EInv
    <3> QED BY <1>1, <2>1, <3>1, ExchangeKept, Zenon DEF Exchange
  <2> QED BY <2>2, <2>3, Zenon DEF EInv
<1>2. ASSUME EndProcess, UNCHANGED <<clientVars, s2c>> PROVE EInv'
  <2>1. /\ UNCHANGED <<client, sent, split, mismatch, s2c>>
        /\ \A c \in Client : pc'[c] = "none" /\ c2s'[c] = <<>>
        /\ req' \in [Client -> Nat] /\ c2s' \in [Client -> Seq(Segment)]
    BY <1>2 DEF EndProcess, clientVars
  <2>2. EType'
    BY <2>1, Zenon DEF EInv, EType
  <2>3. ASSUME NEW c \in Client PROVE Exchange(c)'
    <3>1. Exchange(c) /\ pc'[c] \notin Serving
      BY <2>1, Zenon DEF EInv, Serving
    <3>2. Latest(s2c[c], c)' <=> Latest(s2c[c], c)
      BY <2>1, Zenon DEF Latest
    <3>3. Outstanding(c) => Outstanding(c)'
      BY <2>1, <3>1, <3>2, Zenon DEF Outstanding
    <3>4. mismatch'[c] => split'[c]
      BY <2>1, <3>1, Zenon DEF Exchange
    <3> QED BY <2>1, <3>1, <3>3, <3>4, Zenon DEF Exchange
  <2> QED BY <2>2, <2>3, Zenon DEF EInv
<1>3. CASE MainStep \/ Fault
  <2>1. CASE CloseDb
    BY <1>2, <2>1, Zenon DEF CloseDb
  <2>2. ASSUME NEW c \in Client, Accept(c) PROVE EInv'
    BY <2>2, QuietStep, Zenon DEF Accept, Goto, Serving
  <2>3. CASE LockSockfd \/ AcceptClosed \/ AcceptFails \/ Sigint
    BY <1>1, <2>3, Zenon DEF LockSockfd, AcceptClosed, AcceptFails, Sigint, threadVars
  <2>4. ASSUME NEW c \in Client, CreateThreadFails(c) PROVE EInv'
    BY <1>1, <2>4, Zenon DEF CreateThreadFails, threadVars
  <2> QED BY <1>3, <2>1, <2>2, <2>3, <2>4, Zenon DEF MainStep, Fault
<1>4. ASSUME NEW k \in Client, Handler(k) PROVE EInv'
  <2> USE DEF At, Goto, Serving
  <2>1. CASE CopyFd(k) \/ Commit(k) \/ Execute(k)
    <3>1. pc[k] # "none" /\ UNCHANGED <<req, clientVars, netVars>>
      BY <2>1, Zenon DEF CopyFd, Commit, Execute
    <3>2. \E to \in {"read", "reply"} : /\ pc' = [pc EXCEPT ![k] = to]
                                        /\ to = "reply" => pc[k] = "execute"
      BY <2>1, Zenon DEF CopyFd, Commit, Execute
    <3> QED BY <3>1, <3>2, Connected, QuietStep, Zenon
  <2>2. CASE ReadEnd(k) \/ ReplyToNobody(k)
    <3>1. /\ pc[k] # "none" /\ UNCHANGED <<clientVars, netVars>>
          /\ req' = [req EXCEPT ![k] = 0]
      BY <2>2, Zenon DEF ReadEnd, ReplyToNobody, Leave
    <3>2. \E to \in {"gone", "read", "commit"} : pc' = [pc EXCEPT ![k] = to]
      BY <2>2, Zenon DEF ReadEnd, ReplyToNobody, Leave
    <3> QED BY <3>1, <3>2, Connected, QuietStep, Zenon
  <2>3. CASE LockBuffer(k) \/ Parse(k) \/ Analyse(k) \/ UnlockBuffer(k)
    <3>1. pc[k] # "none" /\ pc[k] \in Serving /\ UNCHANGED <<req, clientVars, netVars>>
      BY <2>3, Zenon DEF LockBuffer, Parse, Analyse, UnlockBuffer
    <3>2. \E to : pc' = [pc EXCEPT ![k] = to]
      BY <2>3, Zenon DEF LockBuffer, Parse, Analyse, UnlockBuffer
    <3> QED BY <3>1, <3>2, Connected, QuietStep, Zenon
  <2>4. CASE Crash(k) \/ KilledByReply(k)
    BY <1>2, <2>4, Zenon DEF Crash, KilledByReply
  <2> QED BY <1>4, <2>1, <2>2, <2>3, <2>4, ReceiveExchange, ReplyExchange, Zenon DEF Handler
<1>5. ASSUME NEW c \in Client, Answered(c) \/ User(c) PROVE EInv'
  BY <1>5, RecvExchange, ConnectExchange, CloseExchange, SendExchange, Zenon
     DEF Answered, User, RecvEnd, Quit
<1>6. CASE UNCHANGED vars
  BY <1>1, <1>6, Zenon DEF vars, threadVars
<1> QED BY <1>3, <1>4, <1>5, <1>6, Zenon DEF Next

\* client_handler answers every command with its own answer: for any number
\* of clients that send, wait, quit or vanish, with failing accepts, signals
\* and the end of the process, a client shows an answer to another command
\* only after some read of its connection took less or more than one message.
THEOREM AnswersMatchAlways == Spec => []AnswersMatchUnlessSplit
<1>1. Init => HInv
  BY DEF Init, HInv, Label, Early
<1>2. Init => EInv
  BY DEF Init, EInv, EType, Exchange
<1>3. EInv => AnswersMatchUnlessSplit
  BY Zenon DEF EInv, Exchange, AnswersMatchUnlessSplit
<1> QED BY <1>1, <1>2, <1>3, HInvStep, EInvStep, PTL DEF Spec

=============================================================================
