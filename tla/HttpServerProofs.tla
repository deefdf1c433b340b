-------------------------- MODULE HttpServerProofs --------------------------
(***************************************************************************)
(* Proofs about HttpServer, for any pool, any number of connections and    *)
(* any number of requests on each.                                         *)
(*                                                                         *)
(* PoolInv ties the threads of the pool to the life of the server;         *)
(* PlaceInv says where each accepted connection is, and that it is nowhere *)
(* else; TalkInv follows a request from the client that sends it to the    *)
(* thread that handles it.                                                 *)
(***************************************************************************)
EXTENDS HttpServer, FiniteSetTheorems, SequenceTheorems, TLAPS

Busy(t) == pc[t] \in {"peek", "keep", "read head", "read body", "handle", "close"}

PoolInv ==
    /\ listener \in {"bind", "bound"} =>
           jobs = <<>> /\ stop # "close" /\ \A t \in Threads : pc[t] = "off"
    /\ listener = "bound" => sock = "open"
    /\ listener \notin {"bind", "bound", "stopped"} => \A t \in Threads : pc[t] # "off"
    /\ shutdown => listener \in {"notify all", "join", "stopped"}
    /\ \A t \in Threads : pc[t] = "done" => shutdown /\ jobs = <<>>
    /\ listener = "stopped" => jobs = <<>> /\ \A t \in Threads : pc[t] \in {"off", "done"}

Queued == {jobs[i] : i \in DOMAIN jobs}

HandPlace ==
    /\ hand # NoConn <=> listener = "enqueue"
    /\ hand # NoConn =>
           conn[hand] = "accepted" /\ hand \notin Queued /\ \A t \in Threads : at[t] # hand

JobsPlace ==
    /\ \A i \in DOMAIN jobs : conn[jobs[i]] = "accepted"
    /\ \A i, j \in DOMAIN jobs : jobs[i] = jobs[j] => i = j

ThreadsPlace ==
    /\ \A t \in Threads : at[t] # NoConn <=> Busy(t)
    /\ \A t \in Threads : Busy(t) => conn[at[t]] = "accepted" /\ at[t] \notin Queued
    /\ \A t, u \in Threads : Busy(t) /\ at[t] = at[u] => t = u

SomePlace ==
    \A c \in Conns : conn[c] = "accepted" =>
        hand = c \/ c \in Queued \/ \E t \in Threads : at[t] = c

PlaceInv == HandPlace /\ JobsPlace /\ ThreadsPlace /\ SomePlace

\* What has arrived and has not been read of a connection.
Arrived == {<<>>, <<"get">>, <<"post">>, <<"post", "body">>, <<"body">>}

TalkOf(c) ==
    /\ inbox[c] \in Arrived
    /\ inbox[c] \notin {<<>>, <<"post">>} => due[c] = 1
    /\ client[c] = "idle" => inbox[c] = <<>> /\ due[c] = 0 /\ answer[c] = "none"
    /\ client[c] = "body" => inbox[c] \in {<<>>, <<"post">>} /\ due[c] = 0 /\ answer[c] # "keep"
    /\ answer[c] = "keep" => inbox[c] = <<>> /\ due[c] = 0 /\ client[c] = "waiting"

\* What a thread has of the request it serves.
Hears(t) ==
    /\ pc[t] = "handle" => /\ due[at[t]] = 1
                           /\ inbox[at[t]] = <<>>
                           /\ client[at[t]] \in {"waiting", "gone"}
    /\ pc[t] = "read body" => /\ inbox[at[t]] \in {<<>>, <<"body">>}
                              /\ client[at[t]] # "idle"
                              /\ answer[at[t]] # "keep"
    /\ Busy(t) /\ pc[t] # "close" => left[t] # 0

TalkInv == (\A c \in Conns : TalkOf(c)) /\ (\A t \in Threads : Hears(t))

IInv == TypeOK /\ PoolInv /\ PlaceInv /\ TalkInv

-----------------------------------------------------------------------------
(* What the steps leave alone.                                             *)

\* A thread goes from one place of its work to another.
Moves(t) ==
    \E to \in ThreadSteps \ {"off", "lock", "asleep", "done"} :
        Busy(t) /\ pc' = [pc EXCEPT ![t] = to]

\* Everything a thread does but to take a job, to close one and to wake.
Serve(t) == Peek(t) \/ KeepAlive(t) \/ ReadHead(t) \/ ReadBody(t) \/ Handle(t)

LEMMA ServeKeeps ==
    ASSUME NEW t \in Threads, Serve(t)
    PROVE  /\ UNCHANGED <<server, jobs, shutdown, at, conn, client>>
           /\ Moves(t)
<1> USE DEF Moves, Busy, Goto, ThreadSteps, others
<1>1. CASE Peek(t)
  BY <1>1 DEF Peek, network
<1>2. CASE KeepAlive(t)
  BY <1>2 DEF KeepAlive, network
<1>3. CASE ReadHead(t)
  BY <1>3 DEF ReadHead, Respond
<1>4. CASE ReadBody(t)
  BY <1>4 DEF ReadBody, Respond
<1>5. CASE Handle(t)
  BY <1>5 DEF Handle, Respond
<1> QED BY <1>1, <1>2, <1>3, <1>4, <1>5 DEF Serve

LEMMA ClientKeeps ==
    ASSUME NEW c \in Conns, Client(c)
    PROVE  /\ UNCHANGED <<server, pool, left>>
           /\ \/ conn' = conn
              \/ conn[c] = "none" /\ conn' = [conn EXCEPT ![c] = "backlog"]
  BY DEF Client, Connect, Send, Read, Leave, still

-----------------------------------------------------------------------------
(* The pool.                                                               *)

LEMMA Pool ==
    ASSUME IInv, [Next]_vars
    PROVE  PoolInv'
<1>1. /\ PoolInv
      /\ pc \in [Threads -> ThreadSteps]
      /\ shutdown \in BOOLEAN
  BY DEF IInv, TypeOK
<1>2. CASE Listening
  <2> USE <1>1 DEF PoolInv, Listener
  <2>1. CASE Bind
    BY <2>1 DEF Bind, pool
  <2>7. CASE Accept
    BY <2>7 DEF Accept, pool
  <2>8. CASE AcceptFails
    BY <2>8 DEF AcceptFails, pool
  <2>2. CASE StartPool
    BY <2>2 DEF StartPool
  <2>3. CASE Enqueue
    BY <2>3 DEF Enqueue
  <2>4. CASE NotifyOne
    BY <2>4 DEF NotifyOne
  <2>5. CASE Drain \/ NotifyAll
    BY <2>5 DEF Drain, NotifyAll
  <2>6. CASE Join
    BY <2>6, ThreadsAssumption DEF Join, pool
  <2> QED BY <1>2, <2>1, <2>2, <2>3, <2>4, <2>5, <2>6, <2>7, <2>8 DEF Listening
<1>3. CASE Stopping
  <2>1. CASE Stop
    BY <1>1, <2>1 DEF Stop, IsRunning, pool, PoolInv
  <2>2. CASE CloseSocket
    BY <1>1, <2>2 DEF CloseSocket, pool, PoolInv
  <2> QED BY <1>3, <2>1, <2>2 DEF Stopping
<1>4. ASSUME NEW t \in Threads, Work(t) \/ WakeSpuriously(t)
      PROVE  PoolInv'
  <2> USE <1>1 DEF PoolInv
  <2>1. CASE TakeJob(t)
    BY <2>1 DEF TakeJob, Goto, server
  <2>2. CASE Close(t)
    BY <2>2 DEF Close, Goto, server
  <2>4. CASE WakeSpuriously(t)
    BY <2>4 DEF WakeSpuriously, Goto, server
  <2>3. CASE Serve(t)
    BY <2>3, ServeKeeps DEF Moves, Busy, server
  <2> QED BY <1>4, <2>1, <2>2, <2>3, <2>4 DEF Work, Serve
<1>5. ASSUME NEW c \in Conns, Client(c)
      PROVE  PoolInv'
  <2>1. UNCHANGED <<listener, sock, stop, jobs, shutdown, pc>>
    BY <1>5, ClientKeeps DEF server, pool
  <2> QED BY <1>1, <2>1 DEF PoolInv
<1>6. CASE UNCHANGED vars
  BY <1>1, <1>6 DEF vars, server, pool, PoolInv
<1> QED BY <1>2, <1>3, <1>4, <1>5, <1>6 DEF Next

-----------------------------------------------------------------------------
(* Where the accepted connections are.                                     *)

LEMMA JobsAreConns == ASSUME TypeOK PROVE \A i \in DOMAIN jobs : jobs[i] \in Conns
<1>1. jobs \in Seq(Conns)
  BY DEF TypeOK
<1> QED BY <1>1, ElementOfSeq

\* A step that moves no connection.
LEMMA PlaceKept ==
    ASSUME TypeOK, PlaceInv,
           UNCHANGED <<hand, jobs, at>>,
           listener' = "enqueue" <=> listener = "enqueue",
           \A t \in Threads : Busy(t)' <=> Busy(t),
           \A c \in Conns : conn'[c] = "accepted" <=> conn[c] = "accepted"
    PROVE  PlaceInv'
<1>1. hand # NoConn => hand \in Conns
  BY DEF TypeOK
<1>2. \A i \in DOMAIN jobs : jobs[i] \in Conns
  BY JobsAreConns
<1>3. \A t \in Threads : at[t] # NoConn => at[t] \in Conns
  BY DEF TypeOK
<1>4. \A c : c \in Queued' <=> c \in Queued
  BY DEF Queued
<1>11. HandPlace'
  BY <1>1, <1>2, <1>3, <1>4 DEF PlaceInv, HandPlace, JobsPlace, ThreadsPlace, SomePlace
<1>12. JobsPlace'
  BY <1>1, <1>2, <1>3, <1>4 DEF PlaceInv, HandPlace, JobsPlace, ThreadsPlace, SomePlace
<1>13. ThreadsPlace'
  BY <1>1, <1>2, <1>3, <1>4 DEF PlaceInv, HandPlace, JobsPlace, ThreadsPlace, SomePlace
<1>14. SomePlace'
  BY ConnsAssumption, <1>1, <1>2, <1>3, <1>4 DEF PlaceInv, HandPlace, JobsPlace, ThreadsPlace, SomePlace
<1> QED BY <1>11, <1>12, <1>13, <1>14 DEF PlaceInv

LEMMA PlaceAccept ==
    ASSUME TypeOK, PlaceInv, Accept
    PROVE  PlaceInv'
<1>1. PICK c \in Conns : /\ conn[c] = "backlog"
                         /\ hand' = c
                         /\ conn' = [conn EXCEPT ![c] = "accepted"]
                         /\ listener = "loop" /\ listener' = "enqueue"
                         /\ UNCHANGED <<jobs, pc, at>>
  BY DEF Accept, Listener, pool
<1>2. /\ c # NoConn /\ c \notin Queued /\ \A t \in Threads : at[t] # c
      /\ hand = NoConn
      /\ \A i \in DOMAIN jobs : jobs[i] \in Conns
      /\ \A t \in Threads : Busy(t) => at[t] \in Conns
      /\ conn \in [Conns -> {"none", "backlog", "accepted", "closed"}]
  BY <1>1, ConnsAssumption, JobsAreConns DEF PlaceInv, HandPlace, JobsPlace, ThreadsPlace, SomePlace, Queued, TypeOK
<1>3. /\ \A d : d \in Queued' <=> d \in Queued
      /\ \A t \in Threads : Busy(t)' <=> Busy(t)
  BY <1>1 DEF Queued, Busy
<1>11. HandPlace'
  BY <1>1, <1>2, <1>3 DEF PlaceInv, HandPlace, JobsPlace, ThreadsPlace, SomePlace
<1>12. JobsPlace'
  BY <1>1, <1>2, <1>3 DEF PlaceInv, HandPlace, JobsPlace, ThreadsPlace, SomePlace
<1>13. ThreadsPlace'
  BY <1>1, <1>2, <1>3 DEF PlaceInv, HandPlace, JobsPlace, ThreadsPlace, SomePlace
<1>14. SomePlace'
  BY ConnsAssumption, <1>1, <1>2, <1>3 DEF PlaceInv, HandPlace, JobsPlace, ThreadsPlace, SomePlace
<1> QED BY <1>11, <1>12, <1>13, <1>14 DEF PlaceInv

LEMMA PlaceEnqueue ==
    ASSUME TypeOK, PlaceInv, Enqueue
    PROVE  PlaceInv'
<1>1. /\ listener = "enqueue" /\ listener' = "notify"
      /\ jobs' = Append(jobs, hand) /\ hand' = NoConn
      /\ UNCHANGED <<pc, at, conn>>
  BY DEF Enqueue, Listener, network
<1>2. /\ hand \in Conns /\ hand # NoConn
      /\ conn[hand] = "accepted" /\ hand \notin Queued /\ \A t \in Threads : at[t] # hand
      /\ jobs \in Seq(Conns)
  BY <1>1 DEF PlaceInv, HandPlace, JobsPlace, ThreadsPlace, SomePlace, TypeOK
<1>3. /\ DOMAIN jobs' = 1 .. Len(jobs) + 1
      /\ DOMAIN jobs = 1 .. Len(jobs)
      /\ \A i \in DOMAIN jobs : jobs'[i] = jobs[i]
      /\ jobs'[Len(jobs) + 1] = hand
      /\ Len(jobs) \in Nat
  BY <1>1, <1>2
<1>4. \A c : c \in Queued' <=> c \in Queued \/ c = hand
  BY <1>3 DEF Queued
<1>5. \A t \in Threads : Busy(t)' <=> Busy(t)
  BY <1>1 DEF Busy
<1>6. \A i, j \in DOMAIN jobs' : jobs'[i] = jobs'[j] => i = j
  BY <1>2, <1>3 DEF PlaceInv, HandPlace, JobsPlace, ThreadsPlace, SomePlace, Queued
<1>7. \A i \in DOMAIN jobs' : conn'[jobs'[i]] = "accepted"
  BY <1>1, <1>2, <1>3 DEF PlaceInv, HandPlace, JobsPlace, ThreadsPlace, SomePlace
<1>11. HandPlace'
  BY <1>1, <1>2, <1>4, <1>5, <1>6, <1>7 DEF PlaceInv, HandPlace, JobsPlace, ThreadsPlace, SomePlace
<1>12. JobsPlace'
  BY <1>1, <1>2, <1>4, <1>5, <1>6, <1>7 DEF PlaceInv, HandPlace, JobsPlace, ThreadsPlace, SomePlace
<1>13. ThreadsPlace'
  BY <1>1, <1>2, <1>4, <1>5, <1>6, <1>7 DEF PlaceInv, HandPlace, JobsPlace, ThreadsPlace, SomePlace
<1>14. SomePlace'
  BY ConnsAssumption, <1>1, <1>2, <1>4, <1>5, <1>6, <1>7 DEF PlaceInv, HandPlace, JobsPlace, ThreadsPlace, SomePlace
<1> QED BY <1>11, <1>12, <1>13, <1>14 DEF PlaceInv

LEMMA PlaceTake ==
    ASSUME TypeOK, PlaceInv, NEW t \in Threads, TakeJob(t)
    PROVE  PlaceInv'
<1>1. pc[t] = "lock" /\ ~Busy(t) /\ at[t] = NoConn
  BY DEF TakeJob, Goto, PlaceInv, ThreadsPlace, Busy
<1>2. /\ pc \in [Threads -> ThreadSteps]
      /\ at \in [Threads -> Conns \cup {NoConn}]
      /\ jobs \in Seq(Conns)
  BY DEF TypeOK
<1>3. CASE jobs = <<>>
  <2>1. UNCHANGED <<hand, jobs, at, listener, conn>>
    BY <1>3 DEF TakeJob, server, network
  <2>2. \A u \in Threads : Busy(u)' <=> Busy(u)
    BY <1>1, <1>2, <1>3 DEF TakeJob, Goto, Busy
  <2> QED BY <2>1, <2>2, PlaceKept
<1>4. CASE jobs # <<>>
  <2> DEFINE c == Head(jobs)
  <2>1. /\ pc' = [pc EXCEPT ![t] = "peek"]
        /\ at' = [at EXCEPT ![t] = c]
        /\ jobs' = Tail(jobs)
        /\ UNCHANGED <<listener, hand, conn>>
    BY <1>4 DEF TakeJob, Goto, server, network
  <2>2. /\ c \in Conns /\ c = jobs[1]
        /\ 1 \in DOMAIN jobs
        /\ DOMAIN jobs' = 1 .. Len(jobs) - 1
        /\ DOMAIN jobs = 1 .. Len(jobs)
        /\ \A i \in DOMAIN jobs' : jobs'[i] = jobs[i + 1]
        /\ Len(jobs) \in Nat
    BY <1>2, <1>4, <2>1
  <2>3. /\ \A i, j \in DOMAIN jobs' : jobs'[i] = jobs'[j] => i = j
        /\ \A d : d \in Queued' <=> d \in Queued /\ d # c
    <3>1. \A i, j \in DOMAIN jobs : jobs[i] = jobs[j] => i = j
      BY DEF PlaceInv, HandPlace, JobsPlace, ThreadsPlace, SomePlace
    <3>2. \A i \in DOMAIN jobs' : i + 1 \in DOMAIN jobs /\ i + 1 # 1
      BY <2>2
    <3>3. \A i \in DOMAIN jobs : i # 1 => i - 1 \in DOMAIN jobs' /\ jobs'[i - 1] = jobs[i]
      BY <2>2
    <3> HIDE DEF c
    <3>4. \A i, j \in DOMAIN jobs' : jobs'[i] = jobs'[j] => i = j
      BY <2>2, <3>1, <3>2
    <3>5. \A d : d \in Queued' => d \in Queued /\ d # c
      BY <2>2, <3>1, <3>2 DEF Queued
    <3>6. \A d : d \in Queued /\ d # c => d \in Queued'
      BY <2>2, <3>1, <3>3 DEF Queued
    <3> QED BY <3>4, <3>5, <3>6
  <2>4. /\ conn[c] = "accepted" /\ c \in Queued /\ hand # c
        /\ \A u \in Threads : at[u] # c
        /\ c # NoConn
    BY <2>2, ConnsAssumption DEF PlaceInv, HandPlace, JobsPlace, ThreadsPlace, SomePlace, Queued
  <2>5. \A u \in Threads : Busy(u)' <=> Busy(u) \/ u = t
    BY <1>1, <1>2, <2>1 DEF Busy
  <2>6. \A u \in Threads : at'[u] = IF u = t THEN c ELSE at[u]
    BY <1>2, <2>1
  <2>7. \A i \in DOMAIN jobs' : conn'[jobs'[i]] = "accepted"
    BY <2>1, <2>2 DEF PlaceInv, HandPlace, JobsPlace, ThreadsPlace, SomePlace
  <2> HIDE DEF c
  <2>11. HandPlace'
    BY <1>1, <2>1, <2>3, <2>4, <2>5, <2>6, <2>7 DEF PlaceInv, HandPlace, JobsPlace, ThreadsPlace, SomePlace
  <2>12. JobsPlace'
    BY <1>1, <2>1, <2>3, <2>4, <2>5, <2>6, <2>7 DEF PlaceInv, HandPlace, JobsPlace, ThreadsPlace, SomePlace
  <2>13. ThreadsPlace'
    BY <1>1, <2>1, <2>3, <2>4, <2>5, <2>6, <2>7 DEF PlaceInv, HandPlace, JobsPlace, ThreadsPlace, SomePlace
  <2>14. SomePlace'
    BY ConnsAssumption, <1>1, <2>1, <2>3, <2>4, <2>5, <2>6, <2>7 DEF PlaceInv, HandPlace, JobsPlace, ThreadsPlace, SomePlace
  <2> QED BY <2>11, <2>12, <2>13, <2>14 DEF PlaceInv
<1> QED BY <1>3, <1>4

LEMMA PlaceClose ==
    ASSUME TypeOK, PlaceInv, NEW t \in Threads, Close(t)
    PROVE  PlaceInv'
<1> DEFINE c == at[t]
<1>1. /\ pc[t] = "close" /\ pc' = [pc EXCEPT ![t] = "lock"]
      /\ at' = [at EXCEPT ![t] = NoConn]
      /\ UNCHANGED <<listener, hand, jobs>>
      /\ \A d \in Conns : conn'[d] = IF d = c THEN "closed" ELSE conn[d]
  BY DEF Close, Goto, Over, server
<1>2. /\ pc \in [Threads -> ThreadSteps]
      /\ at \in [Threads -> Conns \cup {NoConn}]
      /\ \A i \in DOMAIN jobs : jobs[i] \in Conns
      /\ hand # NoConn => hand \in Conns
  BY JobsAreConns DEF TypeOK
<1>3. /\ Busy(t) /\ c \in Conns /\ c \notin Queued /\ hand # c
      /\ \A u \in Threads : u # t => at[u] # c
  BY <1>1, <1>2, ConnsAssumption DEF PlaceInv, HandPlace, ThreadsPlace, Busy
<1>4. /\ \A u \in Threads : Busy(u)' <=> Busy(u) /\ u # t
      /\ \A u \in Threads : at'[u] = IF u = t THEN NoConn ELSE at[u]
      /\ \A d : d \in Queued' <=> d \in Queued
  BY <1>1, <1>2 DEF Busy, Queued
<1>5. \A i \in DOMAIN jobs : jobs[i] # c
  BY <1>3 DEF Queued
<1>6. at[t] = c
  OBVIOUS
<1> HIDE DEF c
<1>11. HandPlace'
  BY <1>1, <1>2, <1>3, <1>4, <1>5 DEF PlaceInv, HandPlace, JobsPlace, ThreadsPlace, SomePlace
<1>12. JobsPlace'
  BY <1>1, <1>2, <1>3, <1>4, <1>5 DEF PlaceInv, HandPlace, JobsPlace, ThreadsPlace, SomePlace
<1>13. ThreadsPlace'
  BY <1>1, <1>2, <1>3, <1>4, <1>5 DEF PlaceInv, HandPlace, JobsPlace, ThreadsPlace, SomePlace
<1>14. SomePlace'
  BY ConnsAssumption, <1>1, <1>2, <1>3, <1>4, <1>5, <1>6 DEF PlaceInv, HandPlace, JobsPlace, ThreadsPlace, SomePlace
<1> QED BY <1>11, <1>12, <1>13, <1>14 DEF PlaceInv

LEMMA Place ==
    ASSUME IInv, [Next]_vars
    PROVE  PlaceInv'
<1> USE DEF IInv
<1>1. /\ pc \in [Threads -> ThreadSteps]
      /\ conn \in [Conns -> {"none", "backlog", "accepted", "closed"}]
  BY DEF TypeOK
<1>2. CASE Listening
  <2>1. CASE Accept
    BY <2>1, PlaceAccept
  <2>2. CASE Enqueue
    BY <2>2, PlaceEnqueue
  <2>3. CASE Bind \/ AcceptFails \/ Drain \/ Join
    <3>1. UNCHANGED <<hand, jobs, at, conn, pc>>
      BY <2>3 DEF Bind, AcceptFails, Drain, Join, pool, network
    <3>2. listener' = "enqueue" <=> listener = "enqueue"
      BY <2>3 DEF Bind, AcceptFails, Drain, Join, Listener
    <3> QED BY <3>1, <3>2, PlaceKept DEF Busy
  <2>4. CASE StartPool \/ NotifyOne \/ NotifyAll
    <3>1. UNCHANGED <<hand, jobs, at, conn>>
      BY <2>4 DEF StartPool, NotifyOne, NotifyAll, network
    <3>2. listener' = "enqueue" <=> listener = "enqueue"
      BY <2>4 DEF StartPool, NotifyOne, NotifyAll, Listener
    <3>3. CASE StartPool
      <4>1. \A u \in Threads : pc[u] = "off" /\ pc'[u] = "lock"
        BY <3>3 DEF StartPool, Listener, PoolInv
      <4> QED BY <3>1, <3>2, <4>1, PlaceKept DEF Busy
    <3>4. CASE NotifyOne \/ NotifyAll
      <4>1. \A u \in Threads : pc'[u] = pc[u] \/ (pc[u] = "asleep" /\ pc'[u] = "lock")
        <5>1. CASE NotifyOne
          BY <1>1, <5>1 DEF NotifyOne
        <5>2. CASE NotifyAll
          BY <1>1, <5>2 DEF NotifyAll
        <5> QED BY <3>4, <5>1, <5>2
      <4> QED BY <3>1, <3>2, <4>1, PlaceKept DEF Busy
    <3> QED BY <2>4, <3>3, <3>4
  <2> QED BY <1>2, <2>1, <2>2, <2>3, <2>4 DEF Listening
<1>3. CASE Stopping
  <2>1. UNCHANGED <<hand, jobs, at, pc, listener>>
    BY <1>3 DEF Stopping, Stop, CloseSocket, pool
  <2>2. \A c \in Conns : conn'[c] = "accepted" <=> conn[c] = "accepted"
    BY <1>3 DEF Stopping, Stop, CloseSocket, Over, network
  <2> QED BY <2>1, <2>2, PlaceKept DEF Busy
<1>4. ASSUME NEW t \in Threads, Work(t) \/ WakeSpuriously(t)
      PROVE  PlaceInv'
  <2>1. CASE TakeJob(t)
    BY <2>1, PlaceTake
  <2>2. CASE Close(t)
    BY <2>2, PlaceClose
  <2>3. CASE WakeSpuriously(t)
    <3>1. UNCHANGED <<hand, jobs, at, conn, listener>>
      BY <2>3 DEF WakeSpuriously, server, network
    <3>2. \A u \in Threads : pc'[u] = pc[u] \/ (pc[u] = "asleep" /\ pc'[u] = "lock")
      BY <1>1, <2>3 DEF WakeSpuriously, Goto
    <3> QED BY <3>1, <3>2, PlaceKept DEF Busy
  <2>4. CASE Serve(t)
    <3>1. /\ UNCHANGED <<hand, jobs, at, conn, listener>>
          /\ \A u \in Threads : Busy(u)' <=> Busy(u)
      BY <1>1, <2>4, ServeKeeps DEF Moves, Busy, server, ThreadSteps
    <3> QED BY <3>1, PlaceKept
  <2> QED BY <1>4, <2>1, <2>2, <2>3, <2>4 DEF Work, Serve
<1>5. ASSUME NEW c \in Conns, Client(c)
      PROVE  PlaceInv'
  <2>1. UNCHANGED <<hand, jobs, at, pc, listener>>
    BY <1>5, ClientKeeps DEF server, pool
  <2>2. \A d \in Conns : conn'[d] = "accepted" <=> conn[d] = "accepted"
    BY <1>1, <1>5, ClientKeeps
  <2> QED BY <2>1, <2>2, PlaceKept DEF Busy
<1>6. CASE UNCHANGED vars
  BY <1>6, PlaceKept DEF vars, server, pool, network, Busy
<1> QED BY <1>2, <1>3, <1>4, <1>5, <1>6 DEF Next

-----------------------------------------------------------------------------
(* Requests.                                                               *)

\* A connection a step does not concern.
LEMMA TalkKept ==
    ASSUME NEW c \in Conns, TalkOf(c),
           inbox'[c] = inbox[c], due'[c] = due[c], client'[c] = client[c], answer'[c] = answer[c]
    PROVE  TalkOf(c)'
  BY DEF TalkOf

\* A thread that goes on with what it does, its connection not concerned.
LEMMA HearsKept ==
    ASSUME NEW t \in Threads, Hears(t), ThreadsPlace,
           at \in [Threads -> Conns \cup {NoConn}],
           pc'[t] = pc[t] \/ pc'[t] \in {"lock", "asleep", "done"},
           at'[t] = at[t], left'[t] = left[t],
           Busy(t) => /\ inbox'[at[t]] = inbox[at[t]]
                      /\ due'[at[t]] = due[at[t]]
                      /\ client'[at[t]] = client[at[t]]
                      /\ answer'[at[t]] = answer[at[t]]
    PROVE  Hears(t)'
  BY DEF Hears, Busy, ThreadsPlace

\* A connection that ends.
LEMMA TalkOver ==
    ASSUME NEW C, Over(C), \A c \in Conns : TalkOf(c)
    PROVE  \A c \in Conns : TalkOf(c)'
<1> TAKE c \in Conns
<1>1. CASE c \in C
  BY <1>1 DEF Over, TalkOf, Arrived
<1>2. CASE c \notin C
  BY <1>2, TalkKept DEF Over
<1> QED BY <1>1, <1>2

\* A thread that answers a request whose pieces it has read.
LEMMA TalkRespond ==
    ASSUME NEW t \in Threads, NEW c \in Conns, c = at[t], NEW from, NEW ok \in BOOLEAN,
           Respond(t, from, ok), TypeOK,
           client' = client, inbox'[c] = <<>>,
           client[c] # "idle",
           client[c] = "body" => due'[c] = 0 /\ ~ok,
           ok => due'[c] = 0
    PROVE  /\ TalkOf(c)'
           /\ \A d \in Conns : d # c => answer'[d] = answer[d]
<1>1. /\ client \in [Conns -> {"idle", "body", "waiting", "gone"}]
      /\ answer \in [Conns -> {"none", "keep", "close"}]
  BY DEF TypeOK
<1>2. \E a \in {"none", "keep", "close"} :
          /\ answer' = [answer EXCEPT ![c] = a]
          /\ a = "keep" => ok /\ client[c] # "gone"
  <2>1. CASE client[c] = "gone"
    BY <2>1 DEF Respond
  <2>2. CASE client[c] # "gone" /\ ok /\ left[t] > 1
    BY <2>2 DEF Respond
  <2>3. CASE client[c] # "gone" /\ ~(ok /\ left[t] > 1)
    BY <2>3 DEF Respond
  <2> QED BY <2>1, <2>2, <2>3
<1>3. /\ answer'[c] = "keep" => ok /\ client[c] # "gone"
      /\ \A d \in Conns : d # c => answer'[d] = answer[d]
  BY <1>1, <1>2
<1> QED BY <1>1, <1>3 DEF TalkOf, Arrived

\* A step that reads no piece, sends none and answers nothing.
LEMMA TalkSilent ==
    ASSUME TypeOK, ThreadsPlace, TalkInv, UNCHANGED <<inbox, due, client, answer>>,
           \A t \in Threads :
               \/ pc'[t] \in {"off", "lock", "asleep", "done", "close"}
               \/ /\ at'[t] = at[t] /\ left'[t] = left[t]
                  /\ \/ pc'[t] = pc[t]
                     \/ Busy(t) /\ pc[t] # "close" /\ pc'[t] \in {"keep", "read head"}
               \/ pc'[t] = "peek" /\ left'[t] = MaxRequests
    PROVE  TalkInv'
<1>1. \A c \in Conns : TalkOf(c)'
  BY DEF TalkInv, TalkOf
<1>2. ASSUME NEW t \in Threads PROVE Hears(t)'
  <2>1. Hears(t)
    BY DEF TalkInv
  <2>2. CASE pc'[t] \in {"off", "lock", "asleep", "done", "close"}
    BY <2>2 DEF Hears, Busy
  <2>3. CASE pc'[t] = "peek" /\ left'[t] = MaxRequests
    <3>1. MaxRequests # 0
      BY MaxAssumption
    <3> QED BY <2>3, <3>1 DEF Hears
  <2>4. CASE /\ at'[t] = at[t] /\ left'[t] = left[t]
             /\ \/ pc'[t] = pc[t]
                \/ Busy(t) /\ pc[t] # "close" /\ pc'[t] \in {"keep", "read head"}
    BY <2>1, <2>4 DEF Hears, Busy
  <2> QED BY <2>2, <2>3, <2>4
<1> QED BY <1>1, <1>2 DEF TalkInv

\* A thread that serves a request: the other threads and connections.
LEMMA TalkOthers ==
    ASSUME TypeOK, ThreadsPlace, TalkInv, NEW t \in Threads, NEW c \in Conns, c = at[t], Busy(t),
           UNCHANGED <<at, client>>,
           \A u \in Threads : u # t => pc'[u] = pc[u] /\ left'[u] = left[u],
           \A d \in Conns : d # c => /\ inbox'[d] = inbox[d]
                                     /\ due'[d] = due[d]
                                     /\ answer'[d] = answer[d],
           TalkOf(c)', Hears(t)'
    PROVE  TalkInv'
<1>1. ASSUME NEW d \in Conns PROVE TalkOf(d)'
  BY TalkKept DEF TalkInv
<1>2. ASSUME NEW u \in Threads, u # t PROVE Hears(u)'
  <2>2. at \in [Threads -> Conns \cup {NoConn}]
    BY DEF TypeOK
  <2>1. Busy(u) => at[u] \in Conns /\ at[u] # c
    BY <1>2, <2>2 DEF ThreadsPlace
  <2> QED BY <1>2, <2>1, <2>2, HearsKept DEF TalkInv
<1> QED BY <1>1, <1>2 DEF TalkInv

LEMMA TalkRead ==
    ASSUME TypeOK, ThreadsPlace, TalkInv, NEW t \in Threads,
           ReadHead(t) \/ ReadBody(t) \/ Handle(t)
    PROVE  TalkInv'
<1>1. Busy(t) /\ pc[t] # "close" /\ UNCHANGED <<at, client>>
  BY DEF ReadHead, ReadBody, Handle, Busy, others
<1>2. /\ inbox \in [Conns -> Seq(Pieces)]
      /\ due \in [Conns -> 0 .. 1]
      /\ client \in [Conns -> {"idle", "body", "waiting", "gone"}]
      /\ answer \in [Conns -> {"none", "keep", "close"}]
      /\ pc \in [Threads -> ThreadSteps]
      /\ at \in [Threads -> Conns \cup {NoConn}]
      /\ left \in [Threads -> 0 .. MaxRequests]
  BY DEF TypeOK
<1>3. PICK c \in Conns : c = at[t]
  BY <1>1, <1>2 DEF ThreadsPlace
<1>4. TalkOf(c) /\ Hears(t) /\ left[t] # 0
  BY <1>1, <1>3 DEF TalkInv, Hears
<1>5. /\ \A u \in Threads : u # t => pc'[u] = pc[u] /\ left'[u] = left[u]
      /\ \A d \in Conns : d # c => inbox'[d] = inbox[d] /\ due'[d] = due[d]
  BY <1>2, <1>3 DEF ReadHead, ReadBody, Handle, Receive, Respond, Goto
<1>6. ASSUME NEW ok \in BOOLEAN, NEW from, Respond(t, from, ok)
      PROVE  Hears(t)'
  <2>1. /\ pc'[t] = "close" \/ (pc'[t] = "peek" /\ left[t] # 1)
        /\ left'[t] = left[t] - 1
        /\ left[t] \in Nat
    BY <1>2, <1>6, MaxAssumption DEF Respond, Goto
  <2>2. pc'[t] = "peek" => left'[t] # 0
    BY <1>4, <2>1
  <2> QED BY <2>1, <2>2 DEF Hears, Busy
<1>7. CASE Handle(t)
  <2>1. PICK ok \in BOOLEAN : Respond(t, "handle", ok)
    BY <1>7 DEF Handle
  <2>2. /\ pc[t] = "handle" /\ inbox' = inbox
        /\ due' = [due EXCEPT ![c] = @ - 1]
    BY <1>3, <1>7 DEF Handle
  <2>3. /\ inbox'[c] = <<>>
        /\ due'[c] = 0
        /\ client[c] \in {"waiting", "gone"}
        /\ client' = client
    BY <1>1, <1>2, <1>3, <1>4, <2>2 DEF Hears
  <2>4. TalkOf(c)' /\ \A d \in Conns : d # c => answer'[d] = answer[d]
    BY <1>3, <2>1, <2>3, TalkRespond
  <2> QED BY <1>1, <1>3, <1>5, <1>6, <2>1, <2>4, TalkOthers
<1>8. CASE ReadBody(t) /\ inbox[c] = <<>>
  <2>1. Respond(t, "read body", FALSE) /\ pc[t] = "read body" /\ UNCHANGED <<inbox, due, client>>
    BY <1>3, <1>8 DEF ReadBody
  <2>2. client[c] = "body" => due'[c] = 0
    BY <1>4, <2>1 DEF TalkOf
  <2>3. client[c] # "idle"
    BY <1>3, <1>4, <2>1 DEF Hears
  <2>4. TalkOf(c)' /\ \A d \in Conns : d # c => answer'[d] = answer[d]
    BY <1>3, <1>8, <2>1, <2>2, <2>3, TalkRespond
  <2> QED BY <1>1, <1>3, <1>5, <1>6, <2>1, <2>4, TalkOthers
<1>9. CASE ReadBody(t) /\ inbox[c] # <<>>
  <2>1. /\ pc[t] = "read body" /\ pc' = [pc EXCEPT ![t] = "handle"]
        /\ inbox' = [inbox EXCEPT ![c] = Tail(@)]
        /\ UNCHANGED <<left, answer, due, client>>
    BY <1>3, <1>9 DEF ReadBody, Receive, Goto
  <2>2. inbox[c] = <<"body">> /\ client[c] # "idle" /\ answer[c] # "keep"
    BY <1>3, <1>4, <1>9, <2>1 DEF Hears
  <2>3. Tail(<<"body">>) = <<>>
    OBVIOUS
  <2>4. inbox'[c] = <<>>
    BY <1>2, <2>1, <2>2, <2>3
  <2>5. due[c] = 1 /\ client[c] \in {"waiting", "gone"}
    BY <1>2, <1>4, <2>2 DEF TalkOf
  <2>6. TalkOf(c)'
    BY <2>1, <2>2, <2>4, <2>5 DEF TalkOf, Arrived
  <2>7. Hears(t)'
    BY <1>1, <1>2, <1>3, <1>4, <2>1, <2>4, <2>5 DEF Hears
  <2> QED BY <1>1, <1>3, <1>5, <2>1, <2>6, <2>7, TalkOthers
<1>10. CASE ReadHead(t) /\ inbox[c] = <<>>
  <2>1. pc' = [pc EXCEPT ![t] = "close"] /\ UNCHANGED <<inbox, left, answer, due>>
    BY <1>3, <1>10 DEF ReadHead, HasHead, Goto
  <2>2. TalkOf(c)'
    BY <1>1, <1>4, <2>1, TalkKept
  <2>3. Hears(t)'
    BY <1>2, <2>1 DEF Hears
  <2> QED BY <1>1, <1>3, <1>5, <2>1, <2>2, <2>3, TalkOthers
<1>11. CASE ReadHead(t) /\ inbox[c] = <<"body">>
  <2>1. Head(<<"body">>) = "body"
    OBVIOUS
  <2>2. pc' = [pc EXCEPT ![t] = "close"] /\ UNCHANGED <<inbox, left, answer, due>>
    BY <1>3, <1>11, <2>1 DEF ReadHead, HasHead, Goto
  <2>3. TalkOf(c)'
    BY <1>1, <1>4, <2>2, TalkKept
  <2>4. Hears(t)'
    BY <1>2, <2>2 DEF Hears
  <2> QED BY <1>1, <1>3, <1>5, <2>2, <2>3, <2>4, TalkOthers
<1>12. CASE ReadHead(t) /\ inbox[c] \in {<<"get">>, <<"post">>, <<"post", "body">>}
  <2>1. /\ Head(<<"get">>) = "get" /\ Tail(<<"get">>) = <<>>
        /\ Head(<<"post">>) = "post" /\ Tail(<<"post">>) = <<>>
        /\ Head(<<"post", "body">>) = "post" /\ Tail(<<"post", "body">>) = <<"body">>
        /\ <<"get">> # <<>> /\ <<"post">> # <<>> /\ <<"post", "body">> # <<>>
    OBVIOUS
  <2>2. /\ UNCHANGED <<left, answer, due, client>>
        /\ inbox' = [inbox EXCEPT ![c] = Tail(@)]
        /\ pc' = [pc EXCEPT ![t] = IF Head(inbox[c]) = "get" THEN "handle" ELSE "read body"]
    BY <1>3, <1>12, <2>1 DEF ReadHead, HasHead, Receive, Goto
  <2>3. client[c] # "idle" /\ answer[c] # "keep"
    BY <1>4, <1>12, <2>1 DEF TalkOf
  <2>4. CASE inbox[c] = <<"get">>
    <3>1. inbox'[c] = <<>> /\ pc'[t] = "handle"
      BY <1>2, <2>1, <2>2, <2>4
    <3>2. due[c] = 1 /\ client[c] \in {"waiting", "gone"}
      BY <1>2, <1>4, <2>1, <2>3, <2>4 DEF TalkOf
    <3>3. TalkOf(c)'
      BY <2>2, <2>3, <3>1, <3>2 DEF TalkOf, Arrived
    <3>4. Hears(t)'
      BY <1>1, <1>2, <1>3, <1>4, <2>2, <3>1, <3>2 DEF Hears
    <3> QED BY <1>1, <1>3, <1>5, <2>2, <3>3, <3>4, TalkOthers
  <2>5. CASE inbox[c] = <<"post">>
    <3>1. inbox'[c] = <<>> /\ pc'[t] = "read body"
      BY <1>2, <2>1, <2>2, <2>5
    <3>2. TalkOf(c)'
      BY <1>4, <2>2, <2>3, <3>1 DEF TalkOf, Arrived
    <3>3. Hears(t)'
      BY <1>1, <1>2, <1>3, <1>4, <2>2, <2>3, <3>1 DEF Hears
    <3> QED BY <1>1, <1>3, <1>5, <2>2, <3>2, <3>3, TalkOthers
  <2>6. CASE inbox[c] = <<"post", "body">>
    <3>1. inbox'[c] = <<"body">> /\ pc'[t] = "read body"
      BY <1>2, <2>1, <2>2, <2>6
    <3>2. due[c] = 1 /\ client[c] \in {"waiting", "gone"}
      BY <1>2, <1>4, <2>1, <2>3, <2>6 DEF TalkOf
    <3>3. TalkOf(c)'
      BY <2>2, <2>3, <3>1, <3>2 DEF TalkOf, Arrived
    <3>4. Hears(t)'
      BY <1>1, <1>2, <1>3, <1>4, <2>2, <2>3, <3>1 DEF Hears
    <3> QED BY <1>1, <1>3, <1>5, <2>2, <3>3, <3>4, TalkOthers
  <2> QED BY <1>12, <2>4, <2>5, <2>6
<1> QED BY <1>4, <1>7, <1>8, <1>9, <1>10, <1>11, <1>12 DEF TalkOf, Arrived

LEMMA AppendToPost == Append(<<"post">>, "body") = <<"post", "body">>
<1>1. <<"post">> \in Seq({"post", "body"})
  OBVIOUS
<1>2. Len(<<"post">>) = 1
  OBVIOUS
<1>3. Append(<<"post">>, "body") = [i \in 1 .. 2 |-> IF i = 2 THEN "body" ELSE "post"]
  BY <1>1, <1>2
<1>4. <<"post", "body">> = [i \in 1 .. 2 |-> IF i = 2 THEN "body" ELSE "post"]
  OBVIOUS
<1> QED BY <1>3, <1>4

LEMMA TalkClient ==
    ASSUME TypeOK, ThreadsPlace, TalkInv, NEW c \in Conns, Client(c)
    PROVE  TalkInv'
<1>1. UNCHANGED <<at, pc, left>>
  BY ClientKeeps DEF pool
<1>2. /\ inbox \in [Conns -> Seq(Pieces)]
      /\ due \in [Conns -> 0 .. 1]
      /\ client \in [Conns -> {"idle", "body", "waiting", "gone"}]
      /\ answer \in [Conns -> {"none", "keep", "close"}]
      /\ at \in [Threads -> Conns \cup {NoConn}]
  BY DEF TypeOK
<1>3. \A d \in Conns : d # c => /\ inbox'[d] = inbox[d]
                                /\ due'[d] = due[d]
                                /\ client'[d] = client[d]
                                /\ answer'[d] = answer[d]
  BY <1>2 DEF Client, Connect, Send, Arrive, Read, Leave
<1>4. TalkOf(c) /\ \A d \in Conns : d # c => TalkOf(d)'
  BY <1>3, TalkKept DEF TalkInv
<1>5. \A t \in Threads : at[t] # c => Hears(t)'
  BY <1>1, <1>2, <1>3, HearsKept DEF TalkInv, ThreadsPlace
<1>6. ASSUME NEW t \in Threads, at[t] = c
      PROVE  Hears(t)
  BY DEF TalkInv
<1>7. ASSUME TalkOf(c)', \A t \in Threads : at[t] = c => Hears(t)'
      PROVE  TalkInv'
  BY <1>4, <1>5, <1>7 DEF TalkInv
<1>8. CASE Connect(c)
  <2>1. UNCHANGED <<inbox, due, client, answer>>
    BY <1>8 DEF Connect
  <2>2. TalkOf(c)'
    BY <1>4, <2>1, TalkKept
  <2>3. \A t \in Threads : at[t] = c => Hears(t)'
    BY <1>1, <1>6, <2>1 DEF Hears, Busy
  <2> QED BY <1>7, <2>2, <2>3
<1>9. CASE Read(c) \/ Leave(c)
  <2>1. /\ UNCHANGED <<inbox, due>>
        /\ answer' = [answer EXCEPT ![c] = "none"]
        /\ client' = [client EXCEPT ![c] = IF Read(c) /\ answer[c] = "keep"
                                           THEN "idle" ELSE "gone"]
    <3>1. CASE Read(c)
      BY <3>1 DEF Read
    <3>2. CASE ~Read(c)
      BY <1>9, <3>2 DEF Leave
    <3> QED BY <3>1, <3>2
  <2>2. /\ answer'[c] = "none"
        /\ client'[c] \in {"idle", "gone"}
        /\ client'[c] = "idle" => answer[c] = "keep"
    BY <1>2, <2>1
  <2>3. TalkOf(c)'
    BY <1>4, <2>1, <2>2 DEF TalkOf
  <2>4. ASSUME NEW t \in Threads, at[t] = c
        PROVE  Hears(t)'
    <3>1. pc[t] \in {"handle", "read body"} => client'[c] = "gone"
      <4>1. pc[t] = "handle" => due[c] = 1
        BY <1>6, <2>4 DEF Hears
      <4>2. pc[t] = "read body" => answer[c] # "keep"
        BY <1>6, <2>4 DEF Hears
      <4>3. answer[c] = "keep" => due[c] = 0
        BY <1>4 DEF TalkOf
      <4>4. 0 # 1
        OBVIOUS
      <4>5. pc[t] = "handle" => answer[c] # "keep"
        BY <4>1, <4>3, <4>4, Zenon
      <4> QED BY <2>2, <4>2, <4>5
    <3> QED BY <1>1, <1>6, <2>1, <2>2, <2>4, <3>1 DEF Hears, Busy
  <2> QED BY <1>7, <2>3, <2>4
<1>10. CASE Send(c) /\ client[c] = "idle"
  <2>1. inbox[c] = <<>> /\ due[c] = 0 /\ answer[c] = "none"
    BY <1>4, <1>10 DEF TalkOf
  <2>2. Append(<<>>, "get") = <<"get">> /\ Append(<<>>, "post") = <<"post">>
    OBVIOUS
  <2>3. /\ answer'[c] = "none"
        /\ \/ inbox'[c] = <<"get">> /\ client'[c] = "waiting" /\ due'[c] = 1
           \/ inbox'[c] = <<"post">> /\ client'[c] = "body" /\ due'[c] = 0
    BY <1>2, <1>10, <2>1, <2>2 DEF Send, Arrive
  <2>4. TalkOf(c)'
    BY <2>3 DEF TalkOf, Arrived
  <2>5. \A t \in Threads : at[t] = c => Hears(t)'
    BY <1>1, <1>6, <1>10 DEF Hears, Busy
  <2> QED BY <1>7, <2>4, <2>5
<1>11. CASE Send(c) /\ client[c] # "idle"
  <2>1. client[c] = "body" /\ answer' = answer
        /\ inbox' = [inbox EXCEPT ![c] = Append(@, "body")]
        /\ client' = [client EXCEPT ![c] = "waiting"]
        /\ due' = [due EXCEPT ![c] = @ + 1]
    BY <1>11 DEF Send, Arrive
  <2>2. inbox[c] \in {<<>>, <<"post">>} /\ due[c] = 0 /\ answer[c] # "keep"
    BY <1>4, <2>1 DEF TalkOf
  <2>3. /\ Append(<<>>, "body") = <<"body">>
        /\ Append(<<"post">>, "body") = <<"post", "body">>
        /\ <<"post">> # <<>>
        /\ <<"post">> # <<"body">>
    <3>1. Append(<<>>, "body") = <<"body">>
      OBVIOUS
    <3>2. Append(<<"post">>, "body") = <<"post", "body">>
      BY AppendToPost
    <3>3. <<"post">> # <<>>
      OBVIOUS
    <3>4. <<"post">> # <<"body">>
      OBVIOUS
    <3> QED BY <3>1, <3>2, <3>3, <3>4
  <2>4. /\ client'[c] = "waiting" /\ due'[c] = 1 /\ answer'[c] # "keep"
        /\ inbox'[c] = Append(inbox[c], "body")
    BY <1>2, <2>1, <2>2
  <2>5. TalkOf(c)'
    BY <2>2, <2>3, <2>4 DEF TalkOf, Arrived
  <2>6. ASSUME NEW t \in Threads, at[t] = c
        PROVE  Hears(t)'
    <3>1. pc[t] # "handle"
      BY <1>6, <2>1, <2>6 DEF Hears
    <3>2. pc[t] = "read body" => inbox'[c] = <<"body">>
      BY <1>6, <2>2, <2>3, <2>4, <2>6 DEF Hears
    <3> QED BY <1>1, <1>6, <2>4, <2>6, <3>1, <3>2 DEF Hears, Busy
  <2> QED BY <1>7, <2>5, <2>6
<1> QED BY <1>8, <1>9, <1>10, <1>11 DEF Client

LEMMA Talk ==
    ASSUME IInv, [Next]_vars
    PROVE  TalkInv'
<1>1. TypeOK /\ ThreadsPlace /\ TalkInv /\ pc \in [Threads -> ThreadSteps]
      /\ conn \in [Conns -> {"none", "backlog", "accepted", "closed"}]
      /\ at \in [Threads -> Conns \cup {NoConn}]
  BY DEF IInv, PlaceInv, TypeOK
<1>2. CASE Listening
  <2>1. UNCHANGED <<inbox, due, client, answer, at, left>>
    BY <1>2 DEF Listening, Bind, StartPool, Accept, AcceptFails, Enqueue, NotifyOne, Drain,
                NotifyAll, Join, pool, network
  <2>2. \A t \in Threads : pc'[t] = pc[t] \/ pc'[t] = "lock"
    <3>1. CASE Bind \/ Accept \/ AcceptFails \/ Enqueue \/ Drain \/ Join
      BY <3>1 DEF Bind, Accept, AcceptFails, Enqueue, Drain, Join, pool
    <3>2. CASE StartPool
      BY <1>1, <3>2 DEF StartPool
    <3>3. CASE NotifyOne
      BY <1>1, <3>3 DEF NotifyOne
    <3>4. CASE NotifyAll
      BY <1>1, <3>4 DEF NotifyAll
    <3> QED BY <1>2, <3>1, <3>2, <3>3, <3>4 DEF Listening
  <2> QED BY <1>1, <2>1, <2>2, TalkSilent
<1>3. CASE Stop
  BY <1>1, <1>3, TalkSilent DEF Stop, pool, network
<1>4. CASE CloseSocket
  <2>1. PICK C \in SUBSET Conns : C = {c \in Conns : conn[c] = "backlog"}
    OBVIOUS
  <2>2. Over(C) /\ UNCHANGED <<pc, at, left>>
    BY <1>4, <2>1 DEF CloseSocket, pool
  <2>3. \A c \in Conns : TalkOf(c)'
    BY <1>1, <2>2, TalkOver DEF TalkInv
  <2>4. \A t \in Threads : Busy(t) => at[t] \in Conns \ C
    BY <1>1, <2>1 DEF ThreadsPlace
  <2>5. \A t \in Threads : Hears(t)'
    BY <1>1, <2>2, <2>4, HearsKept DEF Over, TalkInv
  <2> QED BY <2>3, <2>5 DEF TalkInv
<1>5. ASSUME NEW t \in Threads, Work(t) \/ WakeSpuriously(t)
      PROVE  TalkInv'
  <2>1. CASE TakeJob(t)
    <3>1. UNCHANGED <<inbox, due, client, answer>>
      BY <2>1 DEF TakeJob, network
    <3>2. /\ pc'[t] \in {"asleep", "done"} \/ (pc'[t] = "peek" /\ left'[t] = MaxRequests)
          /\ \A u \in Threads : u # t => pc'[u] = pc[u] /\ at'[u] = at[u] /\ left'[u] = left[u]
      BY <1>1, <2>1 DEF TakeJob, Goto, TypeOK
    <3> QED BY <1>1, <3>1, <3>2, TalkSilent
  <2>2. CASE WakeSpuriously(t)
    <3>1. UNCHANGED <<inbox, due, client, answer, at, left>>
      BY <2>2 DEF WakeSpuriously, network
    <3>2. \A u \in Threads : pc'[u] = pc[u] \/ pc'[u] = "lock"
      BY <1>1, <2>2 DEF WakeSpuriously, Goto
    <3> QED BY <1>1, <3>1, <3>2, TalkSilent
  <2>3. CASE Peek(t) \/ KeepAlive(t)
    <3>1. UNCHANGED <<inbox, due, client, answer, at, left>>
      BY <2>3 DEF Peek, KeepAlive, network, others
    <3>2. \A u \in Threads : \/ pc'[u] = pc[u] \/ pc'[u] = "close"
                             \/ /\ Busy(u) /\ pc[u] # "close"
                                /\ pc'[u] \in {"keep", "read head"}
      BY <1>1, <2>3 DEF Peek, KeepAlive, Goto, Busy
    <3> QED BY <1>1, <3>1, <3>2, TalkSilent
  <2>4. CASE ReadHead(t) \/ ReadBody(t) \/ Handle(t)
    BY <1>1, <2>4, TalkRead
  <2>5. CASE Close(t)
    <3>1. PICK c \in Conns : c = at[t]
      BY <1>1, <2>5 DEF Close, Goto, ThreadsPlace, Busy
    <3>2. Over({c}) /\ Busy(t)
          /\ pc'[t] = "lock"
          /\ \A u \in Threads : u # t => pc'[u] = pc[u] /\ at'[u] = at[u] /\ left'[u] = left[u]
      BY <1>1, <2>5, <3>1 DEF Close, Goto, Busy, TypeOK
    <3>3. \A d \in Conns : TalkOf(d)'
      BY <1>1, <3>2, TalkOver DEF TalkInv
    <3>4. \A u \in Threads : u # t /\ Busy(u) => at[u] \in Conns \ {c}
      BY <1>1, <3>1, <3>2 DEF ThreadsPlace
    <3>5. ASSUME NEW u \in Threads, u # t PROVE Hears(u)'
      BY <1>1, <3>2, <3>4, <3>5, HearsKept DEF Over, TalkInv
    <3>6. Hears(t)'
      BY <3>2 DEF Hears, Busy
    <3> QED BY <3>3, <3>5, <3>6 DEF TalkInv
  <2> QED BY <1>5, <2>1, <2>2, <2>3, <2>4, <2>5 DEF Work
<1>6. CASE \E c \in Conns : Client(c)
  BY <1>1, <1>6, TalkClient
<1>7. CASE UNCHANGED vars
  BY <1>1, <1>7, TalkSilent DEF vars, pool, network
<1> QED BY <1>2, <1>3, <1>4, <1>5, <1>6, <1>7 DEF Next, Stopping

-----------------------------------------------------------------------------
(* Types.                                                                  *)

ControlOK ==
    /\ listener \in {"bind", "bound", "loop", "enqueue", "notify", "drain", "notify all",
                     "join", "stopped"}
    /\ hand \in Conns \cup {NoConn}
    /\ sock \in {"none", "open", "taken", "broken"}
    /\ stop \in {"up", "close", "returned"}
    /\ shutdown \in BOOLEAN

ThreadsOK ==
    /\ jobs \in Seq(Conns)
    /\ pc \in [Threads -> ThreadSteps]
    /\ at \in [Threads -> Conns \cup {NoConn}]
    /\ left \in [Threads -> 0 .. MaxRequests]

NetworkOK ==
    /\ conn \in [Conns -> {"none", "backlog", "accepted", "closed"}]
    /\ inbox \in [Conns -> Seq(Pieces)]
    /\ client \in [Conns -> {"idle", "body", "waiting", "gone"}]
    /\ answer \in [Conns -> {"none", "keep", "close"}]
    /\ due \in [Conns -> 0 .. 1]

LEMMA Control ==
    ASSUME TypeOK, [Next]_vars
    PROVE  ControlOK'
<1>1. ControlOK
  BY DEF TypeOK, ControlOK
<1>2. CASE Listening
  BY <1>1, <1>2 DEF Listening, Listener, Bind, StartPool, Accept, AcceptFails, Enqueue, NotifyOne,
                    Drain, NotifyAll, Join, pool, ControlOK
<1>3. CASE Stopping
  BY <1>1, <1>3 DEF Stopping, Stop, CloseSocket, pool, ControlOK
<1>4. ASSUME NEW t \in Threads, Work(t) \/ WakeSpuriously(t)
      PROVE  ControlOK'
  <2>1. UNCHANGED <<listener, hand, sock, stop, shutdown>>
    <3>1. CASE Serve(t)
      BY <3>1, ServeKeeps DEF server
    <3>2. CASE ~Serve(t)
      BY <1>4, <3>2 DEF Work, WakeSpuriously, Serve, TakeJob, Close, server
    <3> QED BY <3>1, <3>2
  <2> QED BY <1>1, <2>1 DEF ControlOK
<1>5. CASE \E c \in Conns : Client(c)
  <2>1. UNCHANGED <<listener, hand, sock, stop, shutdown>>
    BY <1>5, ClientKeeps DEF server, pool
  <2> QED BY <1>1, <2>1 DEF ControlOK
<1>6. CASE UNCHANGED vars
  BY <1>1, <1>6 DEF vars, server, pool, ControlOK
<1> QED BY <1>2, <1>3, <1>4, <1>5, <1>6 DEF Next

LEMMA ThreadTypes ==
    ASSUME IInv, [Next]_vars
    PROVE  ThreadsOK'
<1>1. ThreadsOK
  BY DEF IInv, TypeOK, ThreadsOK
<1>2. CASE Listening
  <2>1. CASE Enqueue
    <3>1. hand \in Conns
      BY <2>1 DEF Enqueue, Listener, IInv, TypeOK, PlaceInv, HandPlace
    <3> QED BY <1>1, <2>1, <3>1 DEF Enqueue, ThreadsOK
  <2>2. CASE Bind \/ Accept \/ AcceptFails \/ Drain \/ Join
    <3>1. UNCHANGED <<jobs, pc, at, left>>
      BY <2>2 DEF Bind, Accept, AcceptFails, Drain, Join, pool
    <3> QED BY <1>1, <3>1 DEF ThreadsOK
  <2>3. CASE StartPool
    BY <1>1, <2>3 DEF StartPool, ThreadsOK, ThreadSteps
  <2>4. CASE NotifyOne
    BY <1>1, <2>4 DEF NotifyOne, ThreadsOK, ThreadSteps
  <2>5. CASE NotifyAll
    BY <1>1, <2>5 DEF NotifyAll, ThreadsOK, ThreadSteps
  <2> QED BY <1>2, <2>1, <2>2, <2>3, <2>4, <2>5 DEF Listening
<1>3. CASE Stopping
  <2>1. UNCHANGED <<jobs, pc, at, left>>
    BY <1>3 DEF Stopping, Stop, CloseSocket, pool
  <2> QED BY <1>1, <2>1 DEF ThreadsOK
<1>4. ASSUME NEW t \in Threads, Work(t) \/ WakeSpuriously(t)
      PROVE  ThreadsOK'
  <2>1. CASE TakeJob(t)
    <3>1. CASE jobs = <<>>
      BY <1>1, <2>1, <3>1 DEF TakeJob, Goto, ThreadsOK, ThreadSteps
    <3>2. CASE jobs # <<>>
      <4>1. Head(jobs) \in Conns /\ Tail(jobs) \in Seq(Conns)
        BY <1>1, <3>2 DEF ThreadsOK
      <4>2. MaxRequests \in 0 .. MaxRequests
        BY MaxAssumption
      <4> QED BY <1>1, <2>1, <3>2, <4>1, <4>2 DEF TakeJob, Goto, ThreadsOK, ThreadSteps
    <3> QED BY <3>1, <3>2
  <2>2. CASE WakeSpuriously(t)
    BY <1>1, <2>2 DEF WakeSpuriously, Goto, ThreadsOK, ThreadSteps
  <2>3. CASE Close(t)
    <3>1. 0 \in 0 .. MaxRequests
      BY MaxAssumption
    <3> QED BY <1>1, <2>3, <3>1 DEF Close, Goto, ThreadsOK, ThreadSteps
  <2>4. CASE Serve(t)
    <3>1. UNCHANGED <<jobs, at>> /\ pc' \in [Threads -> ThreadSteps]
      BY <1>1, <2>4, ServeKeeps DEF Moves, ThreadsOK
    <3>2. left' = left \/ (left' = [left EXCEPT ![t] = @ - 1] /\ left[t] # 0)
      <4>1. CASE Peek(t) \/ KeepAlive(t)
        BY <2>4, <4>1 DEF Peek, KeepAlive
      <4>2. CASE ReadHead(t) \/ ReadBody(t) \/ Handle(t)
        <5>1. left[t] # 0
          BY <4>2 DEF IInv, TalkInv, Hears, Busy, ReadHead, ReadBody, Handle
        <5> QED BY <4>2, <5>1 DEF ReadHead, ReadBody, Handle, Respond
      <4> QED BY <2>4, <4>1, <4>2 DEF Serve
    <3>3. left' \in [Threads -> 0 .. MaxRequests]
      <4>1. left \in [Threads -> 0 .. MaxRequests] /\ MaxRequests \in Nat
        BY <1>1, MaxAssumption DEF ThreadsOK
      <4>2. left[t] # 0 => left[t] - 1 \in 0 .. MaxRequests
        BY <4>1
      <4> QED BY <3>2, <4>1, <4>2
    <3> QED BY <1>1, <3>1, <3>3 DEF ThreadsOK
  <2> QED BY <1>4, <2>1, <2>2, <2>3, <2>4 DEF Work, Serve
<1>5. CASE \E c \in Conns : Client(c)
  <2>1. UNCHANGED <<jobs, pc, at, left>>
    BY <1>5, ClientKeeps DEF pool
  <2> QED BY <1>1, <2>1 DEF ThreadsOK
<1>6. CASE UNCHANGED vars
  <2>1. UNCHANGED <<jobs, pc, at, left>>
    BY <1>6 DEF vars, pool
  <2> QED BY <1>1, <2>1 DEF ThreadsOK
<1> QED BY <1>2, <1>3, <1>4, <1>5, <1>6 DEF Next

LEMMA NetworkTypes ==
    ASSUME IInv, [Next]_vars
    PROVE  NetworkOK'
<1>1. NetworkOK
  BY DEF IInv, TypeOK, NetworkOK
<1>2. CASE Listening
  <2>1. CASE Accept
    BY <1>1, <2>1 DEF Accept, NetworkOK
  <2>2. CASE ~Accept
    <3>1. UNCHANGED network
      BY <1>2, <2>2 DEF Listening, Bind, StartPool, AcceptFails, Enqueue, NotifyOne, Drain,
                        NotifyAll, Join
    <3> QED BY <1>1, <3>1 DEF network, NetworkOK
  <2> QED BY <2>1, <2>2
<1>3. ASSUME NEW C, Over(C) PROVE NetworkOK'
  <2>1. <<>> \in Seq(Pieces) /\ 0 \in 0 .. 1
    OBVIOUS
  <2> QED BY <1>1, <1>3, <2>1 DEF Over, NetworkOK
<1>4. CASE Stop
  BY <1>1, <1>4 DEF Stop, network, NetworkOK
<1>5. CASE CloseSocket
  BY <1>3, <1>5 DEF CloseSocket
<1>6. ASSUME NEW t \in Threads, Work(t) \/ WakeSpuriously(t)
      PROVE  NetworkOK'
  <2>1. CASE TakeJob(t) \/ WakeSpuriously(t) \/ Peek(t) \/ KeepAlive(t)
    <3>1. UNCHANGED network
      BY <2>1 DEF TakeJob, WakeSpuriously, Peek, KeepAlive
    <3> QED BY <1>1, <3>1 DEF network, NetworkOK
  <2>2. CASE Close(t)
    BY <1>3, <2>2 DEF Close
  <2>3. CASE ReadHead(t) \/ ReadBody(t) \/ Handle(t)
    <3>1. at[t] \in Conns
      <4>1. Busy(t)
        BY <2>3 DEF ReadHead, ReadBody, Handle, Busy
      <4> QED BY <4>1 DEF IInv, TypeOK, PlaceInv, ThreadsPlace
    <3>2. UNCHANGED <<conn, client>>
      BY <2>3 DEF ReadHead, ReadBody, Handle
    <3>3. due' \in [Conns -> 0 .. 1]
      <4>1. CASE Handle(t)
        <5>1. due[at[t]] = 1
          BY <4>1 DEF Handle, IInv, TalkInv, Hears
        <5> QED BY <1>1, <3>1, <4>1, <5>1 DEF Handle, NetworkOK
      <4>2. CASE ReadHead(t) \/ ReadBody(t)
        BY <1>1, <4>2 DEF ReadHead, ReadBody, NetworkOK
      <4> QED BY <2>3, <4>1, <4>2
    <3>4. inbox' \in [Conns -> Seq(Pieces)]
      <4>1. inbox' = inbox \/ (inbox' = [inbox EXCEPT ![at[t]] = Tail(@)] /\ inbox[at[t]] # <<>>)
        BY <2>3 DEF ReadHead, HasHead, ReadBody, Handle, Receive
      <4>2. inbox[at[t]] # <<>> => Tail(inbox[at[t]]) \in Seq(Pieces)
        BY <1>1, <3>1 DEF NetworkOK
      <4> QED BY <1>1, <4>1, <4>2 DEF NetworkOK
    <3>5. answer' \in [Conns -> {"none", "keep", "close"}]
      <4>1. \/ answer' = answer
            \/ \E a \in {"none", "keep", "close"} : answer' = [answer EXCEPT ![at[t]] = a]
        BY <2>3 DEF ReadHead, ReadBody, Handle, Respond
      <4> QED BY <1>1, <4>1 DEF NetworkOK
    <3> QED BY <1>1, <3>2, <3>3, <3>4, <3>5 DEF NetworkOK
  <2> QED BY <1>6, <2>1, <2>2, <2>3 DEF Work
<1>7. ASSUME NEW c \in Conns, Client(c)
      PROVE  NetworkOK'
  <2>1. CASE Send(c)
    <3>1. \A p \in Pieces : Append(inbox[c], p) \in Seq(Pieces)
      BY <1>1 DEF NetworkOK
    <3>2. client[c] \in {"idle", "body"} => due[c] = 0
      BY DEF IInv, TalkInv, TalkOf
    <3>3. \E p \in Pieces : inbox' = [inbox EXCEPT ![c] = Append(@, p)]
      BY <2>1 DEF Send, Arrive, Pieces
    <3>4. inbox' \in [Conns -> Seq(Pieces)]
      BY <1>1, <3>1, <3>3 DEF NetworkOK
    <3>5. due' = due \/ (due' = [due EXCEPT ![c] = @ + 1] /\ due[c] = 0)
      BY <2>1, <3>2 DEF Send
    <3>6. due' \in [Conns -> 0 .. 1]
      <4>1. due \in [Conns -> 0 .. 1]
        BY <1>1 DEF NetworkOK
      <4>2. due[c] = 0 => due[c] + 1 \in 0 .. 1
        OBVIOUS
      <4> QED BY <3>5, <4>1, <4>2
    <3>7. /\ UNCHANGED <<conn, answer>>
          /\ \E s \in {"body", "waiting"} : client' = [client EXCEPT ![c] = s]
      BY <2>1 DEF Send
    <3> QED BY <1>1, <3>4, <3>6, <3>7 DEF NetworkOK
  <2>2. CASE Connect(c)
    BY <1>1, <2>2 DEF Connect, NetworkOK
  <2>3. CASE Read(c) \/ Leave(c)
    BY <1>1, <2>3 DEF Read, Leave, NetworkOK
  <2> QED BY <1>7, <2>1, <2>2, <2>3 DEF Client
<1>8. CASE UNCHANGED vars
  BY <1>1, <1>8 DEF vars, network, NetworkOK
<1> QED BY <1>2, <1>4, <1>5, <1>6, <1>7, <1>8 DEF Next, Stopping

-----------------------------------------------------------------------------
(* The invariant.                                                          *)

LEMMA Initially ==
    ASSUME Init
    PROVE  IInv
<1>1. TypeOK
  <2>1. 0 \in 0 .. MaxRequests /\ 0 \in 0 .. 1 /\ <<>> \in Seq(Conns) /\ <<>> \in Seq(Pieces)
    BY MaxAssumption
  <2> QED BY <2>1 DEF Init, TypeOK, ThreadSteps
<1>2. PoolInv
  BY DEF Init, PoolInv
<1>3. PlaceInv
  BY DEF Init, PlaceInv, HandPlace, JobsPlace, ThreadsPlace, SomePlace, Busy
<1>4. TalkInv
  BY DEF Init, TalkInv, TalkOf, Hears, Busy, Arrived
<1> QED BY <1>1, <1>2, <1>3, <1>4 DEF IInv

LEMMA Preserved ==
    ASSUME IInv, [Next]_vars
    PROVE  IInv'
<1>1. TypeOK'
  BY Control, ThreadTypes, NetworkTypes DEF IInv, TypeOK, ControlOK, ThreadsOK, NetworkOK
<1> QED BY <1>1, Pool, Place, Talk DEF IInv

LEMMA Invariant == Spec => []IInv
<1>1. Init => IInv
  BY Initially
<1>2. IInv /\ [Next]_vars => IInv'
  BY Preserved
<1> QED BY <1>1, <1>2, PTL DEF Spec

\* Every variable keeps its type: no thread counts below zero, and no client has
\* two requests under way on one connection.
THEOREM TypeCorrect == Spec => []TypeOK
<1>1. IInv => TypeOK
  BY DEF IInv
<1> QED BY <1>1, Invariant, PTL

\* An accepted connection is in exactly one place, whatever the size of the pool.
THEOREM OneOwnerAlways == Spec => []OneOwner
<1>1. ASSUME IInv PROVE OneOwner
  <2>1. hand # NoConn => hand \in Conns
    BY <1>1 DEF IInv, TypeOK
  <2>2. PlaceInv
    BY <1>1 DEF IInv
  <2>3. ASSUME NEW c \in Conns
        PROVE  IF conn[c] = "accepted" THEN \E o \in Owners(c) : Owners(c) = {o}
               ELSE Owners(c) = {}
    <3> USE <2>2, ConnsAssumption
    <3>1. CASE hand = c
      <4>1. conn[c] = "accepted" /\ c \notin Queued /\ \A t \in Threads : at[t] # c
        BY <3>1 DEF PlaceInv, HandPlace
      <4>2. Owners(c) = {<<"listener", 0>>}
        BY <3>1, <4>1 DEF Owners, Queued
      <4> QED BY <4>1, <4>2
    <3>2. CASE c \in Queued
      <4>1. PICK i \in DOMAIN jobs : jobs[i] = c
        BY <3>2 DEF Queued
      <4>2. conn[c] = "accepted" /\ hand # c /\ (\A t \in Threads : at[t] # c)
            /\ \A j \in DOMAIN jobs : jobs[j] = c <=> j = i
        BY <3>2, <4>1 DEF PlaceInv, HandPlace, JobsPlace, ThreadsPlace
      <4>3. Owners(c) = {<<"job", i>>}
        BY <4>1, <4>2 DEF Owners
      <4> QED BY <4>2, <4>3
    <3>3. CASE \E t \in Threads : at[t] = c
      <4>1. PICK t \in Threads : at[t] = c
        BY <3>3
      <4>2. conn[c] = "accepted" /\ hand # c /\ c \notin Queued
            /\ \A u \in Threads : at[u] = c <=> u = t
        BY <4>1 DEF PlaceInv, HandPlace, ThreadsPlace
      <4>3. Owners(c) = {<<"thread", t>>}
        BY <4>1, <4>2 DEF Owners, Queued
      <4> QED BY <4>2, <4>3
    <3>4. CASE hand # c /\ c \notin Queued /\ \A t \in Threads : at[t] # c
      <4>1. Owners(c) = {}
        BY <3>4 DEF Owners, Queued
      <4>2. conn[c] # "accepted"
        BY <3>4 DEF PlaceInv, SomePlace
      <4> QED BY <4>1, <4>2
    <3> QED BY <3>1, <3>2, <3>3, <3>4
  <2> QED BY <2>3 DEF OneOwner
<1> QED BY <1>1, Invariant, PTL

\* A handler runs for a complete request, and once.
THEOREM HandledOnceAlways == Spec => []HandledOnce
<1>1. IInv => HandledOnce
  BY DEF IInv, TalkInv, Hears, HandledOnce
<1> QED BY <1>1, Invariant, PTL

\* After listen no thread of the pool runs and no accepted connection is open.
LEMMA Quiet == ASSUME IInv PROVE QuietWhenStopped
<1>1. ASSUME listener = "stopped"
      PROVE  /\ jobs = <<>>
             /\ \A t \in Threads : pc[t] \in {"off", "done"}
             /\ \A c \in Conns : conn[c] # "accepted"
  <2>1. jobs = <<>> /\ \A t \in Threads : pc[t] \in {"off", "done"}
    BY <1>1 DEF IInv, PoolInv
  <2>2. hand = NoConn
    BY <1>1 DEF IInv, PlaceInv, HandPlace
  <2>3. Queued = {}
    BY <2>1 DEF Queued
  <2>4. \A t \in Threads : at[t] = NoConn
    BY <2>1 DEF IInv, PlaceInv, ThreadsPlace, Busy
  <2> QED BY <2>1, <2>2, <2>3, <2>4, ConnsAssumption DEF IInv, PlaceInv, SomePlace
<1> QED BY <1>1 DEF QuietWhenStopped

THEOREM QuietWhenStoppedAlways == Spec => []QuietWhenStopped
<1>1. IInv => QuietWhenStopped
  BY Quiet
<1> QED BY <1>1, Invariant, PTL

-----------------------------------------------------------------------------
(* The queue and the sleepers.                                             *)

Locking == {t \in Threads : pc[t] = "lock"}

Woken == IF listener = "notify" THEN 1 ELSE 0

LEMMA Counts ==
    /\ IsFiniteSet(Locking) /\ Cardinality(Locking) \in Nat
    /\ \A t \in Locking : Cardinality(Locking \ {t}) = Cardinality(Locking) - 1
    /\ \A t : t \notin Locking => Cardinality(Locking \cup {t}) = Cardinality(Locking) + 1
<1>1. IsFiniteSet(Locking)
  BY ThreadsAssumption, FS_Subset DEF Locking
<1> QED BY <1>1, FS_CardinalityType, FS_RemoveElement, FS_AddElement

Enough == (\E t \in Threads : pc[t] = "asleep") => Len(jobs) <= Cardinality(Locking) + Woken

LEMMA EnoughSaysIt == NoIdleBesideJob <=> Enough
  BY DEF NoIdleBesideJob, Enough, Locking, Woken

LEMMA Idle ==
    ASSUME IInv, Enough, [Next]_vars
    PROVE  Enough'
<1>1. /\ jobs \in Seq(Conns) /\ pc \in [Threads -> ThreadSteps]
      /\ Len(jobs) \in Nat /\ Cardinality(Locking) \in Nat
  <2>1. jobs \in Seq(Conns) /\ pc \in [Threads -> ThreadSteps]
    BY DEF IInv, TypeOK
  <2> QED BY <2>1, Counts
<1>4. ASSUME UNCHANGED <<pc, jobs>>, Woken' = Woken
      PROVE  Enough'
  BY <1>4 DEF Enough, Locking
<1>5. CASE Listening
  <2>1. CASE Bind \/ Accept \/ AcceptFails \/ Drain \/ Join
    <3>1. UNCHANGED <<pc, jobs>>
      BY <2>1 DEF Bind, Accept, AcceptFails, Drain, Join, pool
    <3>2. Woken' = Woken
      BY <2>1 DEF Bind, Accept, AcceptFails, Drain, Join, Listener, Woken
    <3> QED BY <1>4, <3>1, <3>2
  <2>2. CASE StartPool \/ NotifyAll
    <3>1. \A t \in Threads : pc'[t] # "asleep"
      <4>1. CASE StartPool
        BY <4>1 DEF StartPool
      <4>2. CASE NotifyAll
        BY <1>1, <4>2 DEF NotifyAll
      <4> QED BY <2>2, <4>1, <4>2
    <3> QED BY <3>1 DEF Enough
  <2>3. CASE Enqueue
    <3>1. hand \in Conns
      BY <2>3 DEF Enqueue, Listener, IInv, TypeOK, PlaceInv, HandPlace
    <3>2. Len(jobs') = Len(jobs) + 1 /\ pc' = pc
      BY <1>1, <2>3, <3>1 DEF Enqueue
    <3>3. Woken' = 1 /\ Woken = 0
      BY <2>3 DEF Enqueue, Listener, Woken
    <3>4. Locking' = Locking
      BY <3>2 DEF Locking
    <3> QED BY <1>1, <3>2, <3>3, <3>4 DEF Enough
  <2>4. CASE NotifyOne
    <3>1. jobs' = jobs /\ Woken' = 0 /\ Woken = 1
      BY <2>4 DEF NotifyOne, Listener, Woken
    <3>2. CASE \A t \in Threads : pc[t] # "asleep"
      BY <2>4, <3>2 DEF Enough, NotifyOne
    <3>3. CASE \E t \in Threads : pc[t] = "asleep"
      <4>1. PICK t \in Threads : pc[t] = "asleep" /\ pc' = [pc EXCEPT ![t] = "lock"]
        BY <2>4, <3>3 DEF NotifyOne
      <4>2. Locking' = Locking \cup {t} /\ t \notin Locking
        BY <1>1, <4>1 DEF Locking
      <4>3. Cardinality(Locking') = Cardinality(Locking) + 1
        BY <4>2, Counts
      <4> QED BY <1>1, <3>1, <4>1, <4>3 DEF Enough
    <3> QED BY <3>2, <3>3
  <2> QED BY <1>5, <2>1, <2>2, <2>3, <2>4 DEF Listening
<1>6. CASE Stopping
  BY <1>4, <1>6 DEF Stopping, Stop, CloseSocket, pool, Woken
<1>7. ASSUME NEW t \in Threads, Work(t) \/ WakeSpuriously(t)
      PROVE  Enough'
  <2>1. listener' = listener /\ Woken' = Woken /\ Woken \in {0, 1}
    <3>1. CASE Serve(t)
      BY <3>1, ServeKeeps DEF server, Woken
    <3>2. CASE ~Serve(t)
      BY <1>7, <3>2 DEF Work, WakeSpuriously, Serve, TakeJob, Close, server, Woken
    <3> QED BY <3>1, <3>2
  <2>2. CASE TakeJob(t) /\ jobs = <<>>
    <3>1. Len(jobs') = 0 /\ Cardinality(Locking') \in Nat
      <4>1. jobs' = <<>>
        BY <2>2 DEF TakeJob
      <4>2. IsFiniteSet(Locking')
        BY ThreadsAssumption, FS_Subset DEF Locking
      <4> QED BY <4>1, <4>2, FS_CardinalityType
    <3> QED BY <2>1, <3>1 DEF Enough
  <2>3. CASE TakeJob(t) /\ jobs # <<>>
    <3>1. pc[t] = "lock" /\ pc' = [pc EXCEPT ![t] = "peek"] /\ jobs' = Tail(jobs)
      BY <2>3 DEF TakeJob, Goto
    <3>2. Len(jobs') = Len(jobs) - 1
      BY <1>1, <2>3, <3>1
    <3>3. t \in Locking /\ Locking' = Locking \ {t}
      BY <1>1, <3>1 DEF Locking
    <3>4. Cardinality(Locking') = Cardinality(Locking) - 1
      BY <3>3, Counts
    <3>5. \A u \in Threads : pc'[u] = "asleep" => pc[u] = "asleep"
      BY <1>1, <3>1
    <3> QED BY <1>1, <2>1, <3>2, <3>4, <3>5 DEF Enough
  <2>4. CASE WakeSpuriously(t) \/ Close(t)
    <3>1. pc[t] # "lock" /\ pc' = [pc EXCEPT ![t] = "lock"] /\ jobs' = jobs
      BY <2>4 DEF WakeSpuriously, Close, Goto
    <3>2. t \notin Locking /\ Locking' = Locking \cup {t}
      BY <1>1, <3>1 DEF Locking
    <3>3. Cardinality(Locking') = Cardinality(Locking) + 1
      BY <3>2, Counts
    <3>4. \A u \in Threads : pc'[u] = "asleep" => pc[u] = "asleep"
      BY <1>1, <3>1
    <3> QED BY <1>1, <2>1, <3>1, <3>3, <3>4 DEF Enough
  <2>5. CASE Serve(t)
    <3>1. jobs' = jobs /\ Moves(t)
      BY <2>5, ServeKeeps
    <3>2. Locking' = Locking /\ \A u \in Threads : pc'[u] = "asleep" => pc[u] = "asleep"
      BY <1>1, <3>1 DEF Moves, Busy, Locking
    <3> QED BY <2>1, <3>1, <3>2 DEF Enough
  <2> QED BY <1>7, <2>2, <2>3, <2>4, <2>5 DEF Work, Serve
<1>8. CASE \E c \in Conns : Client(c)
  BY <1>4, <1>8, ClientKeeps DEF server, pool, Woken
<1>9. CASE UNCHANGED vars
  BY <1>4, <1>9 DEF vars, server, pool, Woken
<1> QED BY <1>5, <1>6, <1>7, <1>8, <1>9 DEF Next

\* No connection waits beside an idle thread: each queued one has a thread that
\* is awake to take it, or a notification to come.
THEOREM NoIdleBesideJobAlways == Spec => []NoIdleBesideJob
<1>1. Init => Enough
  BY DEF Init, Enough
<1>2. IInv /\ Enough /\ [Next]_vars => Enough'
  BY Idle
<1>3. Enough => NoIdleBesideJob
  BY EnoughSaysIt
<1> QED BY <1>1, <1>2, <1>3, Invariant, PTL DEF Spec

-----------------------------------------------------------------------------
(* The life of the server.                                                 *)

Held == {c \in Conns : conn[c] = "accepted"}

\* Every step is one of the server's life, or none that shows in it.
LEMMA LifeStep ==
    ASSUME IInv, QuietWhenStopped', [Next]_vars
    PROVE  [Life!Next]_(Life!life)
<1>1. /\ conn \in [Conns -> {"none", "backlog", "accepted", "closed"}]
      /\ sock \in {"none", "open", "taken", "broken"}
  BY DEF IInv, TypeOK
<1>2. ASSUME conn' = conn, UNCHANGED <<listener, sock>>
      PROVE  [Life!Next]_(Life!life)
  BY <1>2 DEF Life!life, Net, Invalid
<1>3. CASE Listening
  <2> USE DEF Listener, Net, Invalid
  <2>1. CASE Bind
    <3>1. conn' = conn
      BY <2>1 DEF Bind, network
    <3>2. CASE listener' = "bound"
      BY <2>1, <3>1, <3>2 DEF Bind, Life!life
    <3>3. CASE listener' = "stopped"
      BY <2>1, <3>1, <3>3 DEF Bind, Life!Listen, Life!Next
    <3> QED BY <2>1, <3>2, <3>3 DEF Bind
  <2>2. CASE StartPool
    BY <1>1, <2>2 DEF StartPool, network, IInv, PoolInv, Life!Listen, Life!Next
  <2>3. CASE Accept
    <3>1. PICK c \in Conns : /\ Listener("loop", "enqueue")
                             /\ conn' = [conn EXCEPT ![c] = "accepted"]
      BY <2>3 DEF Accept
    <3>2. Held' = Held \cup {c}
      BY <1>1, <3>1 DEF Held
    <3>3. Net' = Net /\ Net \in {"listening", "closing"}
      BY <2>3, <3>1 DEF Accept
    <3>4. Life!Take(c)
      BY <3>2, <3>3 DEF Life!Take, Held
    <3> QED BY <3>4 DEF Life!Next
  <2>4. CASE AcceptFails
    BY <1>1, <2>4 DEF AcceptFails, network, Life!Close, Life!Next, Life!life
  <2>5. CASE Enqueue \/ NotifyOne \/ Drain \/ NotifyAll
    BY <2>5 DEF Enqueue, NotifyOne, Drain, NotifyAll, network, Life!life
  <2>6. CASE Join
    <3>1. conn' = conn /\ listener = "join" /\ listener' = "stopped"
      BY <2>6 DEF Join, network
    <3>2. Held' = {}
      BY <3>1 DEF QuietWhenStopped, Held
    <3>3. Life!End
      BY <3>1, <3>2 DEF Life!End, Held
    <3> QED BY <3>3 DEF Life!Next
  <2> QED BY <1>3, <2>1, <2>2, <2>3, <2>4, <2>5, <2>6 DEF Listening
<1>4. CASE Stopping
  <2>1. CASE Stop
    <3>1. conn' = conn /\ listener' = listener
      BY <2>1 DEF Stop, network
    <3>2. CASE IsRunning /\ sock' = "taken"
      <4>1. listener \notin {"bind", "bound", "stopped"}
        BY <3>2 DEF IsRunning
      <4>2. CASE Net = "listening"
        BY <3>1, <3>2, <4>1, <4>2 DEF Net, Invalid, Life!Close, Life!Next
      <4>3. CASE Net # "listening"
        BY <3>1, <3>2, <4>1, <4>3 DEF Net, Invalid, Life!life
      <4> QED BY <4>2, <4>3
    <3>3. CASE UNCHANGED sock
      BY <1>2, <3>1, <3>3
    <3> QED BY <2>1, <3>2, <3>3 DEF Stop
  <2>2. CASE CloseSocket
    <3>1. Held' = Held
      BY <1>1, <2>2 DEF CloseSocket, Over, Held
    <3>2. listener' = listener /\ sock' = "none" /\ stop = "close"
      BY <2>2 DEF CloseSocket
    <3>3. listener \notin {"bind", "bound"}
      BY <3>2 DEF IInv, PoolInv
    <3>4. CASE Net = "listening"
      BY <3>1, <3>2, <3>3, <3>4 DEF Net, Invalid, Held, Life!Close, Life!Next
    <3>5. CASE Net # "listening"
      BY <3>1, <3>2, <3>3, <3>5 DEF Net, Invalid, Held, Life!life
    <3> QED BY <3>4, <3>5
  <2> QED BY <1>4, <2>1, <2>2 DEF Stopping
<1>5. ASSUME NEW t \in Threads, Work(t) \/ WakeSpuriously(t)
      PROVE  [Life!Next]_(Life!life)
  <2>1. CASE Serve(t)
    BY <1>2, <2>1, ServeKeeps DEF server
  <2>2. CASE TakeJob(t) \/ WakeSpuriously(t)
    BY <1>2, <2>2 DEF TakeJob, WakeSpuriously, server, network
  <2>3. CASE Close(t)
    <3>1. pc[t] = "close" /\ UNCHANGED <<listener, sock>> /\ Over({at[t]})
      BY <2>3 DEF Close, Goto, server
    <3>2. Busy(t)
      BY <3>1 DEF Busy
    <3>3. at[t] \in Conns /\ conn[at[t]] = "accepted"
      BY <3>2 DEF IInv, TypeOK, PlaceInv, ThreadsPlace
    <3>4. Held' = Held \ {at[t]} /\ at[t] \in Held
      BY <1>1, <3>1, <3>3 DEF Over, Held
    <3>5. Net' = Net
      BY <3>1 DEF Net, Invalid
    <3>6. PICK c \in Conns : c = at[t]
      BY <3>3
    <3>7. Life!Drop(c)
      BY <3>4, <3>5, <3>6 DEF Life!Drop, Held
    <3> QED BY <3>7 DEF Life!Next
  <2> QED BY <1>5, <2>1, <2>2, <2>3 DEF Work, Serve
<1>6. CASE \E c \in Conns : Client(c)
  <2>1. PICK c \in Conns : Client(c)
    BY <1>6
  <2>2. UNCHANGED <<listener, sock>>
    BY <2>1, ClientKeeps DEF server
  <2>3. Held' = Held
    BY <1>1, <2>1, ClientKeeps DEF Held
  <2>4. Net' = Net
    BY <2>2 DEF Net, Invalid
  <2> QED BY <2>3, <2>4 DEF Life!life, Held
<1>7. CASE UNCHANGED vars
  BY <1>2, <1>7 DEF vars, server, network
<1> QED BY <1>3, <1>4, <1>5, <1>6, <1>7 DEF Next

\* The server keeps its promise to the program: it listens, stops listening
\* once, and its listen returns only when no connection is left in its hands.
THEOREM Refines == Spec => RefinesServerLife
<1>1. Init => Life!Init
  BY DEF Init, Life!Init, Net
<1>2. IInv /\ QuietWhenStopped' /\ [Next]_vars => [Life!Next]_(Life!life)
  BY LifeStep
<1> QED BY <1>1, <1>2, Invariant, QuietWhenStoppedAlways, PTL DEF Spec, RefinesServerLife, Life!Spec
=============================================================================
