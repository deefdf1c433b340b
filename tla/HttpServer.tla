----------------------------- MODULE HttpServer -----------------------------
(***************************************************************************)
(* The HTTP server of the backend, as ApiController runs httplib::Server:  *)
(* the network thread listens, accepts connections and queues them for a   *)
(* pool of threads; a thread serves one connection until it is closed,     *)
(* request after request; main stops the server.                           *)
(*                                                                         *)
(* A connection's bytes come in pieces: the head of a GET, or the head and *)
(* the body of a POST.  The clients are those of the application: they     *)
(* send one request at a time and none after "Connection: close"; so a     *)
(* stream never reads ahead of its request, and its buffer is left out.    *)
(***************************************************************************)
EXTENDS Naturals, Sequences, FiniteSets

CONSTANTS
    Conns,          \* connections clients may open
    Threads,        \* the pool
    Posting,        \* those whose client sends POSTs; the others' send GETs
    NoConn,
    MaxRequests     \* keep_alive_max_count_

ASSUME ConnsAssumption == Posting \subseteq Conns /\ NoConn \notin Conns
ASSUME ThreadsAssumption == IsFiniteSet(Threads) /\ Threads # {}
ASSUME MaxAssumption == MaxRequests \in Nat \ {0}

VARIABLES
    listener,   \* what the network thread does next
    hand,       \* the connection it has just accepted
    sock,       \* svr_sock_: "none", "open", "taken" by stop, or "broken"
    stop,       \* what the thread that calls Server::stop does next
    jobs,       \* jobs_
    shutdown,   \* shutdown_
    pc,         \* what each thread of the pool does next
    at,         \* the connection it serves
    left,       \* the requests it still takes on it
    conn,       \* each connection, as the server sees it
    inbox,      \* pieces that have arrived and not been read
    client,     \* what its client does next
    answer,     \* an answer that has arrived there
    due         \* ghost: requests sent completely and not yet handled

pool == <<jobs, shutdown, pc, at>>
network == <<conn, inbox, client, answer, due>>
server == <<listener, hand, sock, stop>>
vars == <<server, pool, left, network>>

Init ==
    /\ listener = "bind" /\ hand = NoConn /\ sock = "none" /\ stop = "up"
    /\ jobs = <<>> /\ shutdown = FALSE
    /\ pc = [t \in Threads |-> "off"]
    /\ at = [t \in Threads |-> NoConn]
    /\ left = [t \in Threads |-> 0]
    /\ conn = [c \in Conns |-> "none"]
    /\ inbox = [c \in Conns |-> <<>>]
    /\ client = [c \in Conns |-> "idle"]
    /\ answer = [c \in Conns |-> "none"]
    /\ due = [c \in Conns |-> 0]

\* svr_sock_ == INVALID_SOCKET
Invalid == sock \in {"none", "taken"}

\* A closed socket: what had arrived is lost, and its client is done with it.
Over(C) ==
    /\ conn' = [c \in Conns |-> IF c \in C THEN "closed" ELSE conn[c]]
    /\ inbox' = [c \in Conns |-> IF c \in C THEN <<>> ELSE inbox[c]]
    /\ client' = [c \in Conns |-> IF c \in C THEN "gone" ELSE client[c]]
    /\ answer' = [c \in Conns |-> IF c \in C THEN "none" ELSE answer[c]]
    /\ due' = [c \in Conns |-> IF c \in C THEN 0 ELSE due[c]]

-----------------------------------------------------------------------------
(* The network thread: listen.                                             *)

Listener(from, to) == listener = from /\ listener' = to

\* bind_internal, then is_running_ and the pool.
Bind ==
    /\ \/ Listener("bind", "bound") /\ sock' = "open"
       \/ Listener("bind", "stopped") /\ UNCHANGED sock
    /\ UNCHANGED <<hand, stop, pool, left, network>>

StartPool ==
    /\ Listener("bound", "loop")
    /\ pc' = [t \in Threads |-> "lock"]
    /\ UNCHANGED <<hand, sock, stop, jobs, shutdown, at, left, network>>

\* accept; before it, and after a retry, the loop looks at svr_sock_.
Accept ==
    /\ \E c \in Conns :
          /\ Listener("loop", "enqueue")
          /\ conn[c] = "backlog"
          /\ sock \in {"open", "taken"}
          /\ hand' = c
          /\ conn' = [conn EXCEPT ![c] = "accepted"]
    /\ UNCHANGED <<sock, stop, pool, left, inbox, client, answer, due>>

\* The server socket was closed by stop, or accept fails for another reason.
AcceptFails ==
    /\ Listener("loop", "drain")
    /\ sock' = IF sock = "open" THEN "broken" ELSE sock
    /\ UNCHANGED <<hand, stop, pool, left, network>>

Enqueue ==
    /\ Listener("enqueue", "notify")
    /\ jobs' = Append(jobs, hand)
    /\ hand' = NoConn
    /\ UNCHANGED <<sock, stop, shutdown, pc, at, left, network>>

\* Mutant of NotifyOne: nobody is notified.
NotifyNobody ==
    /\ Listener("notify", "loop")
    /\ UNCHANGED <<hand, sock, stop, pool, left, network>>

NotifyOne ==
    /\ Listener("notify", "loop")
    /\ \/ \E t \in Threads : pc[t] = "asleep" /\ pc' = [pc EXCEPT ![t] = "lock"]
       \/ (\A t \in Threads : pc[t] # "asleep") /\ UNCHANGED pc
    /\ UNCHANGED <<hand, sock, stop, jobs, shutdown, at, left, network>>

Drain ==
    /\ Listener("drain", "notify all")
    /\ shutdown' = TRUE
    /\ UNCHANGED <<hand, sock, stop, jobs, pc, at, left, network>>

\* Mutant of NotifyAll: one thread is woken.
NotifyJustOne ==
    /\ Listener("notify all", "join")
    /\ \/ \E t \in Threads : pc[t] = "asleep" /\ pc' = [pc EXCEPT ![t] = "lock"]
       \/ (\A t \in Threads : pc[t] # "asleep") /\ UNCHANGED pc
    /\ UNCHANGED <<hand, sock, stop, jobs, shutdown, at, left, network>>

NotifyAll ==
    /\ Listener("notify all", "join")
    /\ pc' = [t \in Threads |-> IF pc[t] = "asleep" THEN "lock" ELSE pc[t]]
    /\ UNCHANGED <<hand, sock, stop, jobs, shutdown, at, left, network>>

\* Mutant of Join: one thread that has ended is enough.
JoinOne ==
    /\ Listener("join", "stopped")
    /\ \E t \in Threads : pc[t] = "done"
    /\ UNCHANGED <<hand, sock, stop, pool, left, network>>

Join ==
    /\ Listener("join", "stopped")
    /\ \A t \in Threads : pc[t] = "done"
    /\ UNCHANGED <<hand, sock, stop, pool, left, network>>

-----------------------------------------------------------------------------
(* Server::stop, which another thread calls once.                          *)

IsRunning == listener \notin {"bind", "bound", "stopped"}

\* svr_sock_.exchange(INVALID_SOCKET), unless the server does not run.
Stop ==
    /\ stop = "up"
    /\ \/ IsRunning /\ stop' = "close" /\ sock' = "taken"
       \/ ~IsRunning /\ stop' = "returned" /\ UNCHANGED sock
    /\ UNCHANGED <<listener, hand, pool, left, network>>

\* The socket is shut down and closed; who waits to be accepted is turned away.
CloseSocket ==
    /\ stop = "close" /\ stop' = "returned"
    /\ sock' = "none"
    /\ Over({c \in Conns : conn[c] = "backlog"})
    /\ UNCHANGED <<listener, hand, pool, left>>

-----------------------------------------------------------------------------
(* A thread of the pool: the next job.                                     *)

Goto(t, from, to) == pc[t] = from /\ pc' = [pc EXCEPT ![t] = to]

\* Under the mutex: end, wait (which gives the mutex up), or take the oldest job.
TakeJob(t) ==
    /\ \/ /\ jobs = <<>>
          /\ Goto(t, "lock", IF shutdown THEN "done" ELSE "asleep")
          /\ UNCHANGED <<jobs, at, left>>
       \/ /\ jobs # <<>>
          /\ Goto(t, "lock", "peek")
          /\ at' = [at EXCEPT ![t] = Head(jobs)]
          /\ jobs' = Tail(jobs)
          /\ left' = [left EXCEPT ![t] = MaxRequests]
    /\ UNCHANGED <<server, shutdown, network>>

\* A condition variable may wake its waiter for no reason.
WakeSpuriously(t) ==
    /\ Goto(t, "asleep", "lock")
    /\ UNCHANGED <<server, jobs, shutdown, at, left, network>>

-----------------------------------------------------------------------------
(* A thread of the pool: process_and_close_socket.                         *)

others == <<server, jobs, shutdown, at>>

Readable(c) == inbox[c] # <<>> \/ client[c] = "gone"

\* keep_alive looks for a request once before it looks at svr_sock_ ...
Peek(t) ==
    /\ pc[t] = "peek"
    /\ Goto(t, "peek", IF Readable(at[t]) THEN "read head" ELSE "keep")
    /\ UNCHANGED <<others, left, network>>

\* ... and then, for keep_alive_timeout_sec_, waits for one.
KeepAlive(t) ==
    /\ pc[t] = "keep"
    /\ \/ Readable(at[t]) /\ Goto(t, "keep", "read head")
       \/ (Invalid \/ ~Readable(at[t])) /\ Goto(t, "keep", "close")
    /\ UNCHANGED <<others, left, network>>

\* The next piece is read.
Receive(t) == inbox' = [inbox EXCEPT ![at[t]] = Tail(@)]

\* Mutant of Respond: the last request is served as if another could follow.
RespondOneTooMany(t, from, ok) ==
    /\ \/ Goto(t, from, IF left[t] = 0 THEN "close" ELSE "peek")
       \/ client[at[t]] = "gone" /\ Goto(t, from, "close")
    /\ answer' = [answer EXCEPT ![at[t]] = IF client[at[t]] = "gone" THEN "none"
                                           ELSE IF ok THEN "keep" ELSE "close"]
    /\ left' = [left EXCEPT ![t] = @ - 1]

\* write_response says "close" with the last answer and with an error; the loop
\* ends after the last answer and when the write fails.
Respond(t, from, ok) ==
    /\ \/ Goto(t, from, IF left[t] = 1 THEN "close" ELSE "peek")
       \/ client[at[t]] = "gone" /\ Goto(t, from, "close")
    /\ answer' = [answer EXCEPT ![at[t]] = IF client[at[t]] = "gone" THEN "none"
                                           ELSE IF ok /\ left[t] > 1 THEN "keep" ELSE "close"]
    /\ left' = [left EXCEPT ![t] = @ - 1]

HasHead(c) == inbox[c] # <<>> /\ Head(inbox[c]) # "body"

\* Mutant of ReadHead: the body of a POST is left unread.
ReadHeadOnly(t) ==
    /\ pc[t] = "read head"
    /\ \/ /\ ~HasHead(at[t])
          /\ Goto(t, "read head", "close")
          /\ UNCHANGED <<inbox, left, answer>>
       \/ /\ HasHead(at[t])
          /\ Receive(t)
          /\ Goto(t, "read head", "handle")
          /\ UNCHANGED <<left, answer>>
    /\ UNCHANGED <<others, conn, client, due>>

\* process_request up to the headers: a head has come, or no line will, because the client
\* has gone or what it sent is a body that came too late, which has no newline; then there
\* is no answer.
ReadHead(t) ==
    /\ pc[t] = "read head"
    /\ \/ /\ ~HasHead(at[t])
          /\ Goto(t, "read head", "close")
          /\ UNCHANGED <<inbox, left, answer>>
       \/ /\ HasHead(at[t])
          /\ Receive(t)
          /\ Goto(t, "read head", IF Head(inbox[at[t]]) = "get" THEN "handle" ELSE "read body")
          /\ UNCHANGED <<left, answer>>
    /\ UNCHANGED <<others, conn, client, due>>

\* read_content: the body, or 400 when the client has gone or takes too long.
ReadBody(t) ==
    /\ pc[t] = "read body"
    /\ \/ /\ inbox[at[t]] # <<>>
          /\ Receive(t)
          /\ Goto(t, "read body", "handle")
          /\ UNCHANGED <<left, answer>>
       \/ /\ inbox[at[t]] = <<>>
          /\ Respond(t, "read body", FALSE)
          /\ UNCHANGED inbox
    /\ UNCHANGED <<others, conn, client, due>>

\* routing and the handler, whose exceptions become an answer as well.
Handle(t) ==
    /\ pc[t] = "handle"
    /\ \E ok \in BOOLEAN : Respond(t, "handle", ok)
    /\ due' = [due EXCEPT ![at[t]] = @ - 1]
    /\ UNCHANGED <<others, conn, inbox, client>>

\* Mutant of Close: the socket is not closed.
CloseNothing(t) ==
    /\ Goto(t, "close", "lock")
    /\ at' = [at EXCEPT ![t] = NoConn]
    /\ left' = [left EXCEPT ![t] = 0]
    /\ UNCHANGED <<server, jobs, shutdown, network>>

Close(t) ==
    /\ Goto(t, "close", "lock")
    /\ Over({at[t]})
    /\ at' = [at EXCEPT ![t] = NoConn]
    /\ left' = [left EXCEPT ![t] = 0]
    /\ UNCHANGED <<server, jobs, shutdown>>

-----------------------------------------------------------------------------
(* Clients. *)

still == <<server, pool, left>>

Connect(c) ==
    /\ conn[c] = "none" /\ client[c] = "idle"
    /\ sock \in {"open", "taken"}
    /\ conn' = [conn EXCEPT ![c] = "backlog"]
    /\ UNCHANGED <<still, inbox, client, answer, due>>

Arrive(c, piece) == inbox' = [inbox EXCEPT ![c] = Append(@, piece)]

Send(c) ==
    /\ conn[c] \in {"backlog", "accepted"}
    /\ \/ /\ client[c] = "idle" /\ c \notin Posting
          /\ Arrive(c, "get")
          /\ client' = [client EXCEPT ![c] = "waiting"]
          /\ due' = [due EXCEPT ![c] = @ + 1]
       \/ /\ client[c] = "idle" /\ c \in Posting
          /\ Arrive(c, "post")
          /\ client' = [client EXCEPT ![c] = "body"]
          /\ UNCHANGED due
       \/ /\ client[c] = "body"
          /\ Arrive(c, "body")
          /\ client' = [client EXCEPT ![c] = "waiting"]
          /\ due' = [due EXCEPT ![c] = @ + 1]
    /\ UNCHANGED <<still, conn, answer>>

\* The answer is read, and the connection kept if both sides want to.
Read(c) ==
    /\ client[c] \in {"body", "waiting"}
    /\ answer[c] # "none"
    /\ answer' = [answer EXCEPT ![c] = "none"]
    /\ client' = [client EXCEPT ![c] = IF answer[c] = "keep" THEN "idle" ELSE "gone"]
    /\ UNCHANGED <<still, conn, inbox, due>>

\* A client closes the connection, or dies, at any time.
Leave(c) ==
    /\ conn[c] # "none" /\ client[c] # "gone"
    /\ client' = [client EXCEPT ![c] = "gone"]
    /\ answer' = [answer EXCEPT ![c] = "none"]
    /\ UNCHANGED <<still, conn, inbox, due>>

-----------------------------------------------------------------------------
Listening == Bind \/ StartPool \/ Accept \/ AcceptFails \/ Enqueue \/ NotifyOne \/ Drain
             \/ NotifyAll \/ Join
Stopping == Stop \/ CloseSocket
Work(t) == TakeJob(t) \/ Peek(t) \/ KeepAlive(t) \/ ReadHead(t) \/ ReadBody(t)
           \/ Handle(t) \/ Close(t)
Client(c) == Connect(c) \/ Send(c) \/ Read(c) \/ Leave(c)

Next ==
    \/ Listening \/ Stopping
    \/ \E t \in Threads : Work(t) \/ WakeSpuriously(t)
    \/ \E c \in Conns : Client(c)

\* Every thread is scheduled, and handlers return.  accept may wait for ever,
\* unless its socket has been closed; clients need do nothing.
Fairness ==
    /\ WF_vars(Bind \/ StartPool \/ Enqueue \/ NotifyOne \/ Drain \/ NotifyAll \/ Join)
    /\ WF_vars(Invalid /\ AcceptFails)
    /\ WF_vars(CloseSocket)
    /\ \A t \in Threads : WF_vars(Work(t))

Spec == Init /\ [][Next]_vars /\ Fairness

-----------------------------------------------------------------------------
(* Properties.                                                             *)

ThreadSteps == {"off", "lock", "asleep", "peek", "keep", "read head", "read body",
                "handle", "close", "done"}
Pieces == {"get", "post", "body"}

TypeOK ==
    /\ listener \in {"bind", "bound", "loop", "enqueue", "notify", "drain", "notify all",
                     "join", "stopped"}
    /\ hand \in Conns \cup {NoConn}
    /\ sock \in {"none", "open", "taken", "broken"}
    /\ stop \in {"up", "close", "returned"}
    /\ jobs \in Seq(Conns)
    /\ shutdown \in BOOLEAN
    /\ pc \in [Threads -> ThreadSteps]
    /\ at \in [Threads -> Conns \cup {NoConn}]
    /\ left \in [Threads -> 0 .. MaxRequests]
    /\ conn \in [Conns -> {"none", "backlog", "accepted", "closed"}]
    /\ inbox \in [Conns -> Seq(Pieces)]
    /\ client \in [Conns -> {"idle", "body", "waiting", "gone"}]
    /\ answer \in [Conns -> {"none", "keep", "close"}]
    /\ due \in [Conns -> 0 .. 1]

\* The hands a connection is in: the network thread's, the queue's, a thread's.
Owners(c) ==
    {o \in {<<"listener", 0>>} : hand = c}
        \cup {<<"job", i>> : i \in {j \in DOMAIN jobs : jobs[j] = c}}
        \cup {<<"thread", t>> : t \in {u \in Threads : at[u] = c}}

\* An accepted connection is in exactly one place until it is closed: none is
\* forgotten with its socket open, none is closed twice or served by two threads.
OneOwner ==
    \A c \in Conns :
        IF conn[c] = "accepted" THEN \E o \in Owners(c) : Owners(c) = {o} ELSE Owners(c) = {}

\* The pool does not let a connection wait beside an idle thread: while a thread
\* sleeps, each queued connection has a thread on its way to it, or its
\* notification is still to come.
NoIdleBesideJob ==
    (\E t \in Threads : pc[t] = "asleep") =>
        Len(jobs) <= Cardinality({t \in Threads : pc[t] = "lock"})
                     + (IF listener = "notify" THEN 1 ELSE 0)

\* A handler runs for a request that was sent completely, and once for each:
\* never for a body cut short or late, nor again for what was answered.
HandledOnce == \A t \in Threads : pc[t] = "handle" => due[at[t]] = 1

\* Once listen has returned no thread of the pool runs and no connection is open:
\* no handler touches the database that main then destroys.
QuietWhenStopped ==
    listener = "stopped" =>
        /\ jobs = <<>>
        /\ \A t \in Threads : pc[t] \in {"off", "done"}
        /\ \A c \in Conns : conn[c] # "accepted"

\* listen returns once stop has taken its socket: no client that stays silent,
\* stops halfway or keeps on sending holds its thread, and no thread sleeps on.
StopEndsListen == stop = "close" ~> listener = "stopped"

\* The life of the server as the rest of the program sees it.
Net == CASE listener \in {"bind", "bound"} -> "setup"
         [] listener = "stopped" -> "done"
         [] listener \in {"loop", "enqueue", "notify"} /\ ~Invalid -> "listening"
         [] OTHER -> "closing"

Life == INSTANCE ServerLife WITH
    net <- Net, held <- {c \in Conns : conn[c] = "accepted"}
RefinesServerLife == Life!Spec
=============================================================================
