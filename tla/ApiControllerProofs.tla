------------------------ MODULE ApiControllerProofs ------------------------
(***************************************************************************)
(* Proofs about ApiController, for any number of cards and any queue.      *)
(*                                                                         *)
(* Awake says why no wake-up is lost while scans arrive: between its test  *)
(* of the queue and its sleep the worker holds the mutex, so the queue is  *)
(* still empty when it falls asleep, and the NFC thread, having pushed,    *)
(* has yet to notify.  Order says that the newest scan on its way to the   *)
(* cache is the one the reader has made last.                              *)
(***************************************************************************)
EXTENDS ApiController, SequenceTheorems, TLAPS

Awake ==
    /\ consumer = "tested" => queue = <<>>
    /\ consumer = "asleep" /\ queue # <<>> => nfc = "notify"

\* The youngest scan in the queue, in the worker's hands, or in the cache.
Newest ==
    IF queue # <<>> THEN queue[Len(queue)]
    ELSE IF consumer = "busy" THEN job ELSE latest.card

Order ==
    /\ main = "start" => consumer = "off" /\ nfc = "off"
    /\ nfc # "push" => Newest = seen
    /\ nfc \notin {"push", "notify"} => last \in {NoUid, seen}
    /\ consumer # "busy" => step = "query"
    /\ consumer = "busy" /\ step = "store" => found.card = job

-----------------------------------------------------------------------------
(* Types, one group of variables after the other.                          *)

\* The control state of every thread.
LEMMA ControlTypes ==
    ASSUME TypeOK, [Next]_vars
    PROVE  /\ running' \in BOOLEAN
           /\ consumer' \in ConsumerSteps
           /\ main' \in {"start", "wait", "notify", "stop server", "join nfc", "join worker",
                         "join network", "stopped"}
           /\ nfc' \in {"off", "start", "loop", "read", "push", "notify", "done"}
           /\ step' \in {"query", "store"}
           /\ net' \in {"off", "setup", "listening", "closing", "done"}
<1> USE DEF TypeOK, Next, vars, waiting, Start, Signal, Stop, StopNotify, StopServer, Join,
         Nfc, ReaderReady, LookForCard, ReadCard, PushScan, NotifyWorker, Put, Notify,
         Worker, TakeScan, Loop, Test, Sleep, Query, Store, Finish, WakeUp, WakeSpuriously,
         Network, Listen, CloseServer, ServerFails, Tick, others, reader, work, clock
<1>1. running' \in BOOLEAN
  OBVIOUS
<1>2. consumer' \in ConsumerSteps
  BY DEF ConsumerSteps
<1>3. main' \in {"start", "wait", "notify", "stop server", "join nfc", "join worker",
                 "join network", "stopped"}
  OBVIOUS
<1>4. nfc' \in {"off", "start", "loop", "read", "push", "notify", "done"}
  OBVIOUS
<1>5. step' \in {"query", "store"}
  OBVIOUS
<1>6. net' \in {"off", "setup", "listening", "closing", "done"}
  OBVIOUS
<1> QED BY <1>1, <1>2, <1>3, <1>4, <1>5, <1>6

\* What the steps do to the data.
LEMMA DataSteps ==
    ASSUME [Next]_vars
    PROVE  /\ \/ queue' = queue
              \/ nfc = "push" /\ queue' = Append(queue, seen)
              \/ queue # <<>> /\ queue' = Tail(queue)
           /\ \/ job' = job
              \/ job' = NoUid
              \/ queue # <<>> /\ job' = Head(queue)
           /\ seen' = seen \/ seen' \in Uids
           /\ last' \in {last, NoUid, seen}
           /\ \/ found' = found
              \/ found' = NoAnswer
              \/ \E s \in {"A", "D"} : found' = [card |-> job, valid |-> TRUE, status |-> s]
              \/ found' = [card |-> job, valid |-> FALSE, status |-> "?"]
           /\ latest' = latest \/ latest' = found
           /\ age' \in {age, 0, Older(age, Window)}
           /\ \/ scanned' = scanned
              \/ scanned' = [u \in Uids |-> Older(scanned[u], Horizon)]
              \/ \E u \in Uids : scanned' = [scanned EXCEPT ![u] = 0]
<1> USE DEF Next, vars, waiting, Start, Signal, Stop, StopNotify, StopServer, Join,
         Nfc, ReaderReady, LookForCard, ReadCard, PushScan, NotifyWorker, Put, Notify,
         Worker, TakeScan, Loop, Test, Sleep, Query, Store, Finish, WakeUp, WakeSpuriously,
         Network, Listen, CloseServer, ServerFails, Tick, others, reader, work, clock
<1>1. \/ queue' = queue
      \/ nfc = "push" /\ queue' = Append(queue, seen)
      \/ queue # <<>> /\ queue' = Tail(queue)
  OBVIOUS
<1>2. job' = job \/ job' = NoUid \/ (queue # <<>> /\ job' = Head(queue))
  OBVIOUS
<1>3. seen' = seen \/ seen' \in Uids
  OBVIOUS
<1>4. last' \in {last, NoUid, seen}
  OBVIOUS
<1>5. \/ found' = found
      \/ found' = NoAnswer
      \/ \E s \in {"A", "D"} : found' = [card |-> job, valid |-> TRUE, status |-> s]
      \/ found' = [card |-> job, valid |-> FALSE, status |-> "?"]
  OBVIOUS
<1>6. latest' = latest \/ latest' = found
  OBVIOUS
<1>7. age' \in {age, 0, Older(age, Window)}
  OBVIOUS
<1>8. \/ scanned' = scanned
      \/ scanned' = [u \in Uids |-> Older(scanned[u], Horizon)]
      \/ \E u \in Uids : scanned' = [scanned EXCEPT ![u] = 0]
  OBVIOUS
<1> QED BY <1>1, <1>2, <1>3, <1>4, <1>5, <1>6, <1>7, <1>8

\* The NFC thread pushes UIDs only.
SeenInHand == nfc = "push" => seen \in Uids

LEMMA SeenInHandStep ==
    ASSUME SeenInHand, [Next]_vars
    PROVE  SeenInHand'
  BY DEF SeenInHand, Next, vars, waiting, Start, Signal, Stop, StopNotify, StopServer, Join,
         Nfc, ReaderReady, LookForCard, ReadCard, PushScan, NotifyWorker, Put, Notify,
         Worker, TakeScan, Loop, Test, Sleep, Query, Store, Finish, WakeUp, WakeSpuriously,
         Network, Listen, CloseServer, ServerFails, Tick, others, reader, work, clock

\* Every variable keeps its type in every step.
LEMMA TypeStep ==
    ASSUME TypeOK, SeenInHand, [Next]_vars
    PROVE  TypeOK'
<1>1. queue' \in Seq(Uids)
  <2>1. queue \in Seq(Uids) /\ (nfc = "push" => seen \in Uids)
    BY DEF TypeOK, SeenInHand
  <2> QED BY <2>1, DataSteps
<1>2. job' \in Uids \cup {NoUid}
  <2>1. queue \in Seq(Uids) /\ job \in Uids \cup {NoUid}
    BY DEF TypeOK
  <2>2. queue # <<>> => Head(queue) \in Uids
    BY <2>1
  <2> QED BY <2>1, <2>2, DataSteps
<1>3. seen' \in Uids \cup {NoUid} /\ last' \in Uids \cup {NoUid}
  BY DataSteps DEF TypeOK
<1>4. found' \in Answers
  <2>1. NoAnswer \in Answers
    BY DEF NoAnswer, Answers
  <2>2. [card |-> job, valid |-> FALSE, status |-> "?"] \in Answers
    BY DEF TypeOK, Answers
  <2>3. \A s \in {"A", "D"} : [card |-> job, valid |-> TRUE, status |-> s] \in Answers
    BY DEF TypeOK, Answers
  <2> QED BY <2>1, <2>2, <2>3, DataSteps DEF TypeOK
<1>5. latest' \in Answers
  BY DataSteps DEF TypeOK
<1>6. \A m \in Nat : \A n \in 0 .. m : Older(n, m) \in 0 .. m /\ 0 \in 0 .. m
  BY DEF Older
<1>7. Window \in Nat /\ Horizon \in Nat
  BY SlackAssumption DEF Window, Horizon
<1>8. age' \in 0 .. Window
  BY <1>6, <1>7, DataSteps DEF TypeOK
<1>9. scanned' \in [Uids -> 0 .. Horizon]
  <2>1. scanned \in [Uids -> 0 .. Horizon]
    BY DEF TypeOK
  <2>2. [u \in Uids |-> Older(scanned[u], Horizon)] \in [Uids -> 0 .. Horizon]
    BY <2>1, <1>6, <1>7
  <2>3. \A u \in Uids : [scanned EXCEPT ![u] = 0] \in [Uids -> 0 .. Horizon]
    BY <2>1, <1>6, <1>7
  <2> QED BY <2>1, <2>2, <2>3, DataSteps
<1> QED BY <1>1, <1>2, <1>3, <1>4, <1>5, <1>8, <1>9, ControlTypes, Zenon DEF TypeOK

-----------------------------------------------------------------------------
(* No lost wake-up.                                                        *)

LEMMA AwakeStep ==
    ASSUME Awake, [Next]_vars
    PROVE  Awake'
<1> USE DEF Awake, Locked, Next, vars, waiting, Start, Signal, Stop, StopNotify, StopServer, Join,
         Nfc, ReaderReady, LookForCard, ReadCard, PushScan, NotifyWorker, Put, Notify,
         Worker, TakeScan, Loop, Test, Sleep, Query, Store, Finish, WakeUp, WakeSpuriously,
         Network, Listen, CloseServer, ServerFails, Tick, others, reader, work, clock
<1>1. (consumer = "tested" => queue = <<>>)'
  OBVIOUS
<1>2. (consumer = "asleep" /\ queue # <<>> => nfc = "notify")'
  OBVIOUS
<1> QED BY <1>1, <1>2

-----------------------------------------------------------------------------
(* The newest scan wins.                                                   *)

\* What the steps do to the queue, the job and the cache together.
LEMMA PipelineSteps ==
    ASSUME Order, [Next]_vars
    PROVE  \/ UNCHANGED <<queue, consumer, job, latest>>
           \/ UNCHANGED <<queue, job, latest>> /\ consumer # "busy" /\ consumer' # "busy"
           \/ /\ nfc = "push" /\ queue' = Append(queue, seen)
              /\ UNCHANGED <<consumer, job, latest, seen>>
           \/ /\ consumer # "busy" /\ consumer' = "busy"
              /\ queue # <<>> /\ job' = Head(queue) /\ queue' = Tail(queue)
              /\ UNCHANGED <<latest, nfc, seen>>
           \/ /\ consumer = "busy" /\ consumer' # "busy" /\ step = "store"
              /\ latest' = found
              /\ UNCHANGED <<queue, nfc, seen>>
<1>1. CASE Start
  BY <1>1 DEF Start, Order
<1>2. CASE StopNotify \/ NotifyWorker
  BY <1>2 DEF StopNotify, NotifyWorker, Notify
<1>3. CASE PushScan
  BY <1>3 DEF PushScan, Put
<1>4. CASE TakeScan \/ WakeUp
  BY <1>4 DEF TakeScan, WakeUp, Loop, Test, Sleep, WakeSpuriously, others, reader
<1>5. CASE Store
  BY <1>5 DEF Store, Finish, others, reader
<1>6. CASE \/ Signal \/ StopServer \/ Join \/ ReaderReady \/ LookForCard \/ ReadCard
           \/ Query \/ Network \/ Tick \/ UNCHANGED vars
  BY <1>6 DEF Signal, StopServer, Join, ReaderReady, LookForCard, ReadCard, Query,
              Network, Listen, CloseServer, ServerFails, Tick, vars, waiting
<1> QED BY <1>1, <1>2, <1>3, <1>4, <1>5, <1>6 DEF Next, Stop, Nfc, Worker

\* What the steps do to the scan the NFC thread holds.
LEMMA ScanSteps ==
    ASSUME Order, [Next]_vars
    PROVE  \/ nfc' = "push"
           \/ /\ nfc = "push" /\ nfc' = "notify"
              /\ UNCHANGED <<seen, last, consumer>> /\ queue' = Append(queue, seen)
           \/ nfc = "notify" /\ nfc' = "loop" /\ UNCHANGED seen /\ last' = seen
           \/ nfc = "notify" /\ nfc' = "notify" /\ UNCHANGED seen
           \/ nfc \notin {"push", "notify"} /\ UNCHANGED seen /\ last' \in {last, NoUid}
           \/ nfc = "read" /\ seen' = last /\ last' = last /\ last \in Uids
<1>1. CASE LookForCard
  BY <1>1 DEF LookForCard
<1>2. CASE ReadCard
  BY <1>2 DEF ReadCard
<1>3. CASE PushScan
  BY <1>3 DEF PushScan, Put
<1>4. CASE NotifyWorker \/ ReaderReady \/ Start
  BY <1>4 DEF NotifyWorker, ReaderReady, Start, Order
<1>5. CASE UNCHANGED <<nfc, seen, last>>
  BY <1>5
<1> QED
  BY <1>1, <1>2, <1>3, <1>4, <1>5 DEF Next, vars, waiting, Start, Signal, Stop, StopNotify, StopServer, Join,
         Nfc, ReaderReady, LookForCard, ReadCard, PushScan, NotifyWorker, Put, Notify,
         Worker, TakeScan, Loop, Test, Sleep, Query, Store, Finish, WakeUp, WakeSpuriously,
         Network, Listen, CloseServer, ServerFails, Tick, others, reader, work, clock

\* What the steps do to the worker's job.
LEMMA JobSteps ==
    ASSUME Order, [Next]_vars
    PROVE  \/ Query \/ Store
           \/ UNCHANGED <<step, found, consumer, job>>
           \/ UNCHANGED <<step, found>> /\ consumer # "busy"
<1>1. CASE Start
  BY <1>1 DEF Start, Order, work
<1>2. CASE StopNotify \/ NotifyWorker
  BY <1>2 DEF StopNotify, NotifyWorker, Notify, work
<1>3. CASE TakeScan \/ WakeUp
  BY <1>3 DEF TakeScan, WakeUp, Loop, Test, Sleep, WakeSpuriously, work
<1>4. CASE \/ Signal \/ StopServer \/ Join \/ ReaderReady \/ LookForCard \/ ReadCard
           \/ PushScan \/ Network \/ Tick \/ UNCHANGED vars
  BY <1>4 DEF Signal, StopServer, Join, ReaderReady, LookForCard, ReadCard, PushScan,
              Network, Listen, CloseServer, ServerFails, Tick, vars, waiting, work
<1> QED BY <1>1, <1>2, <1>3, <1>4 DEF Next, Stop, Nfc, Worker

LEMMA OrderStep ==
    ASSUME TypeOK, SeenInHand, Order, [Next]_vars
    PROVE  Order'
<1>1. (main = "start" => consumer = "off" /\ nfc = "off")'
  BY DEF Order, Next, vars, waiting, Start, Signal, Stop, StopNotify, StopServer, Join,
         Nfc, ReaderReady, LookForCard, ReadCard, PushScan, NotifyWorker, Put, Notify,
         Worker, TakeScan, Loop, Test, Sleep, Query, Store, Finish, WakeUp, WakeSpuriously,
         Network, Listen, CloseServer, ServerFails, Tick, others, reader, work, clock
<1>2. (nfc \notin {"push", "notify"} => last \in {NoUid, seen})'
  BY ScanSteps DEF Order
<1>3. (consumer = "busy" /\ step = "store" => found.card = job)'
  <2>1. CASE Query
    BY <2>1 DEF Query, waiting
  <2>2. CASE Store
    BY <2>2 DEF Store, Finish
  <2> QED BY <2>1, <2>2, JobSteps DEF Order
<1>4. (consumer # "busy" => step = "query")'
  <2>1. CASE Query
    BY <2>1 DEF Query, waiting
  <2>2. CASE Store
    BY <2>2 DEF Store, Finish
  <2> QED BY <2>1, <2>2, JobSteps DEF Order
<1>5. (nfc # "push" => Newest = seen)'
  <2> SUFFICES ASSUME nfc' # "push"
               PROVE  Newest' = seen'
    OBVIOUS
  <2>1. queue \in Seq(Uids)
    BY DEF TypeOK
  <2>2. CASE nfc = "push"
    <3>1. queue' = Append(queue, seen) /\ seen' = seen
      BY <2>2, ScanSteps
    <3>2. queue' # <<>> /\ queue'[Len(queue')] = seen
      BY <2>1, <2>2, <3>1 DEF SeenInHand
    <3> QED BY <3>1, <3>2 DEF Newest
  <2>3. CASE nfc # "push"
    <3>1. Newest = seen
      BY <2>3 DEF Order
    <3>2. seen' = seen
      BY <2>3, ScanSteps, UidsAssumption DEF Order
    <3>3. Newest' = Newest
      <4>1. CASE UNCHANGED <<queue, consumer, job, latest>>
        BY <4>1 DEF Newest
      <4>2. CASE UNCHANGED <<queue, job, latest>> /\ consumer # "busy" /\ consumer' # "busy"
        BY <4>2 DEF Newest
      <4>3. CASE /\ consumer # "busy" /\ consumer' = "busy"
                 /\ queue # <<>> /\ job' = Head(queue) /\ queue' = Tail(queue)
        <5>1. CASE Tail(queue) = <<>>
          <6>1. Len(queue) = 1
            <7>1. Len(Tail(queue)) = Len(queue) - 1 /\ Len(queue) \in Nat
              BY <2>1, <4>3
            <7>2. Len(Tail(queue)) = 0
              BY <2>1, <4>3, <5>1, Tail(queue) \in Seq(Uids), EmptySeq
            <7> QED BY <7>1, <7>2
          <6>2. Newest = Head(queue)
            BY <6>1, <4>3 DEF Newest
          <6>3. Newest' = job'
            BY <4>3, <5>1 DEF Newest
          <6> QED BY <6>2, <6>3, <4>3
        <5>2. CASE Tail(queue) # <<>>
          BY <2>1, <4>3, <5>2 DEF Newest
        <5> QED BY <5>1, <5>2
      <4>4. CASE /\ consumer = "busy" /\ consumer' # "busy" /\ step = "store"
                 /\ latest' = found /\ UNCHANGED queue
        BY <4>4 DEF Newest, Order
      <4> QED BY <2>3, <4>1, <4>2, <4>3, <4>4, PipelineSteps
    <3> QED BY <3>1, <3>2, <3>3
  <2> QED BY <2>2, <2>3
<1> QED BY <1>1, <1>2, <1>3, <1>4, <1>5 DEF Order

-----------------------------------------------------------------------------
(* The theorems.                                                           *)

IInv == TypeOK /\ SeenInHand /\ Awake /\ Order

LEMMA InitIInv == Init => IInv
<1> SUFFICES ASSUME Init
             PROVE  IInv
  OBVIOUS
<1> USE DEF Init
<1>1. TypeOK
  <2>1. NoAnswer \in Answers
    BY DEF NoAnswer, Answers
  <2>2. [u \in Uids |-> Horizon] \in [Uids -> 0 .. Horizon] /\ Window \in 0 .. Window
    BY SlackAssumption DEF Horizon, Window
  <2>3. queue \in Seq(Uids)
    OBVIOUS
  <2>4. running \in BOOLEAN /\ consumer \in ConsumerSteps
    BY DEF ConsumerSteps
  <2> QED BY <2>1, <2>2, <2>3, <2>4, Zenon DEF TypeOK
<1>2. SeenInHand /\ Awake
  BY DEF SeenInHand, Awake
<1>3. Order
  BY DEF Order, Newest, NoAnswer
<1> QED BY <1>1, <1>2, <1>3 DEF IInv

LEMMA Invariant == Spec => []IInv
<1>1. IInv /\ [Next]_vars => IInv'
  BY TypeStep, SeenInHandStep, AwakeStep, OrderStep DEF IInv
<1> QED BY InitIInv, <1>1, PTL DEF Spec

\* Types of every variable, for any UIDs and any queue (start, stop, the NFC,
\* worker and network threads of ApiController).
THEOREM TypeCorrect == Spec => []TypeOK
<1>1. IInv => TypeOK
  BY DEF IInv
<1> QED BY Invariant, <1>1, PTL

\* The worker never sleeps beside a scan nobody will wake it for.
THEOREM NoScanForgottenAlways == Spec => []NoScanForgotten
<1>1. IInv => NoScanForgotten
  BY DEF IInv, Awake, NoScanForgotten
<1> QED BY Invariant, <1>1, PTL

\* Once no scan is on its way, the cache holds the card scanned last.
THEOREM LatestIsLastScanAlways == Spec => []LatestIsLastScan
<1>1. IInv => LatestIsLastScan
  BY DEF IInv, Order, Newest, LatestIsLastScan, InFlight
<1> QED BY Invariant, <1>1, PTL

-----------------------------------------------------------------------------
(* Fresh answers, when no lookup takes longer than Slack.                  *)

Prompted(u) == u \in Uids /\ scanned[u] <= Slack

\* A scan on its way is at most Slack old; the cached one is no more than that
\* older than its entry says.
Recent ==
    /\ nfc = "push" => Prompted(seen)
    /\ \A i \in DOMAIN queue : Prompted(queue[i])
    /\ consumer = "busy" => Prompted(job)
    /\ latest.card \in Uids => scanned[latest.card] <= age + Slack

\* What the steps do to the clocks.
LEMMA ClockSteps ==
    ASSUME [Next]_vars
    PROVE  \/ Tick
           \/ UNCHANGED clock /\ latest' = latest /\ (nfc' = "push" => nfc = "push" /\ seen' = seen)
           \/ UNCHANGED <<scanned, nfc, seen>> /\ Store
           \/ ReadCard
<1>1. CASE Start \/ Signal \/ StopNotify \/ StopServer \/ Join \/ ReaderReady \/ LookForCard
           \/ PushScan \/ NotifyWorker \/ Network \/ UNCHANGED vars
  BY <1>1 DEF Start, Signal, StopNotify, StopServer, Join, ReaderReady, LookForCard, PushScan,
         NotifyWorker, Network, Listen, CloseServer, ServerFails, reader, vars
<1>2. CASE TakeScan \/ WakeUp \/ Query
  BY <1>2 DEF TakeScan, WakeUp, Query, others, reader, clock
<1>3. CASE Store
  BY <1>3 DEF Store, others, reader
<1> QED BY <1>1, <1>2, <1>3 DEF Next, Stop, Nfc, Worker

LEMMA RecentStep ==
    ASSUME Prompt = TRUE, IInv, Recent, [Next]_vars
    PROVE  Recent'
<1>1. /\ queue \in Seq(Uids)
      /\ scanned \in [Uids -> 0 .. Horizon]
      /\ age \in 0 .. Window
      /\ latest \in Answers /\ found \in Answers
      /\ Slack \in Nat
  BY SlackAssumption DEF IInv, TypeOK
<1>2. CASE Tick
  <2>1. UNCHANGED <<queue, consumer, nfc, latest, seen, job>>
    BY <1>2 DEF Tick, waiting, reader
  <2>2. /\ age' = Older(age, Window)
        /\ \A u \in Uids : scanned'[u] = Older(scanned[u], Horizon)
    BY <1>2 DEF Tick
  <2>3. ASSUME NEW u \in InFlight, Prompted(u)
        PROVE  Prompted(u)'
    <3>1. scanned[u] < Slack /\ scanned[u] \in Nat /\ u \in Uids
      BY <1>1, <1>2, <2>3 DEF Tick, Prompted
    <3>2. scanned'[u] <= Slack
      BY <1>1, <2>2, <3>1 DEF Older
    <3> QED BY <3>1, <3>2 DEF Prompted
  <2>4. (nfc = "push" => Prompted(seen))'
    BY <2>1, <2>3 DEF Recent, InFlight, Prompted
  <2>5. (\A i \in DOMAIN queue : Prompted(queue[i]))'
    <3> SUFFICES ASSUME NEW i \in DOMAIN queue
                 PROVE  Prompted(queue[i])'
      BY <2>1
    <3>1. queue[i] \in InFlight /\ Prompted(queue[i])
      BY DEF InFlight, Recent
    <3> QED BY <2>1, <2>3, <3>1 DEF Prompted
  <2>6. (consumer = "busy" => Prompted(job))'
    BY <2>1, <2>3 DEF Recent, InFlight, Prompted
  <2>7. (latest.card \in Uids => scanned[latest.card] <= age + Slack)'
    <3> SUFFICES ASSUME latest.card \in Uids
                 PROVE  scanned'[latest.card] <= age' + Slack
      BY <2>1
    <3>1. scanned[latest.card] \in 0 .. Horizon /\ scanned[latest.card] <= age + Slack
      BY <1>1 DEF Recent
    <3> QED BY <1>1, <2>2, <3>1 DEF Older, Horizon, Window
  <2> QED BY <2>4, <2>5, <2>6, <2>7 DEF Recent
<1>3. ASSUME ~Tick
      PROVE  Recent'
  <2>1. \A u \in Uids : scanned'[u] = scanned[u] \/ scanned'[u] = 0
    <3>1. CASE UNCHANGED scanned
      BY <3>1
    <3>2. CASE ReadCard
      BY <1>1, <3>2 DEF ReadCard
    <3> QED BY <1>3, <3>1, <3>2, ClockSteps DEF clock
  <2>2. \A u : Prompted(u) => Prompted(u)'
    BY <1>1, <2>1 DEF Prompted
  <2>3. (nfc = "push" => Prompted(seen))'
    <3>1. CASE ReadCard
      BY <1>1, <3>1 DEF ReadCard, Prompted
    <3>2. CASE nfc' = "push" => nfc = "push" /\ seen' = seen
      BY <2>2, <3>2 DEF Recent
    <3> QED BY <1>3, <3>1, <3>2, ClockSteps
  <2>4. (\A i \in DOMAIN queue : Prompted(queue[i]))'
    <3>1. CASE queue' = queue
      BY <2>2, <3>1 DEF Recent
    <3>2. CASE nfc = "push" /\ queue' = Append(queue, seen)
      BY <1>1, <2>2, <3>2 DEF Recent, IInv, SeenInHand
    <3>3. CASE queue # <<>> /\ queue' = Tail(queue)
      BY <1>1, <2>2, <3>3 DEF Recent
    <3> QED BY <3>1, <3>2, <3>3, DataSteps
  <2>5. (consumer = "busy" => Prompted(job))'
    <3>1. Order
      BY DEF IInv
    <3>2. CASE queue # <<>> /\ job' = Head(queue)
      BY <1>1, <2>2, <3>2 DEF Recent
    <3>3. CASE consumer' = "busy" => consumer = "busy" /\ job' = job
      BY <2>2, <3>3 DEF Recent
    <3> QED BY <3>1, <3>2, <3>3, PipelineSteps
  <2>6. (latest.card \in Uids => scanned[latest.card] <= age + Slack)'
    <3>1. CASE UNCHANGED clock /\ latest' = latest
      BY <3>1 DEF clock, Recent
    <3>2. CASE UNCHANGED scanned /\ Store
      <4>1. found.card = job /\ latest' = found /\ age' = 0 /\ Prompted(job)
        BY <3>2 DEF Store, IInv, Order, Recent
      <4> QED BY <1>1, <3>2, <4>1 DEF Prompted
    <3>3. CASE ReadCard
      <4>1. UNCHANGED <<age, latest>>
        BY <3>3 DEF ReadCard
      <4> QED BY <1>1, <2>1, <4>1 DEF Recent
    <3> QED BY <1>3, <3>1, <3>2, <3>3, ClockSteps
  <2> QED BY <2>3, <2>4, <2>5, <2>6 DEF Recent
<1> QED BY <1>2, <1>3

\* A card that /wait_card answers with was read less than three seconds, and what a
\* lookup may take, ago; for any bound on that time.
THEOREM FreshIsScannedWhenPrompt == Prompt = TRUE /\ Spec => []FreshIsScanned
<1> SUFFICES ASSUME Prompt = TRUE
             PROVE  Spec => []FreshIsScanned
  OBVIOUS
<1>1. Init => Recent
  BY UidsAssumption DEF Init, Recent, NoAnswer
<1>2. IInv /\ Recent /\ [Next]_vars => Recent'
  BY RecentStep
<1>3. IInv /\ Recent => FreshIsScanned
  <2> SUFFICES ASSUME IInv, Recent, Answer.card # NoUid
               PROVE  scanned[Answer.card] < Window + Slack
    BY DEF FreshIsScanned
  <2>1. age < Window /\ Answer = latest
    BY DEF Answer, NoAnswer
  <2>2. latest.card \in Uids
    BY <2>1 DEF IInv, TypeOK, Answers
  <2>3. /\ scanned[latest.card] <= age + Slack
        /\ scanned[latest.card] \in 0 .. Horizon /\ age \in 0 .. Window
    BY <2>2 DEF Recent, IInv, TypeOK
  <2> QED BY <2>1, <2>3, SlackAssumption DEF Window, Horizon
<1> QED BY <1>1, <1>2, <1>3, Invariant, PTL DEF Spec

-----------------------------------------------------------------------------
(* After stop.                                                             *)

\* A thread that has been joined has ended.
Joined ==
    /\ main \in {"join worker", "join network", "stopped"} => nfc = "done"
    /\ main \in {"join network", "stopped"} => consumer = "done"
    /\ main = "stopped" => net = "done"

\* And nothing starts it again.
LEMMA JoinedStep ==
    ASSUME Joined, [Next]_vars
    PROVE  Joined'
<1>1. CASE Start \/ Signal \/ StopServer \/ Join
  BY <1>1 DEF Joined, Start, Signal, StopServer, Join, waiting, reader
<1>2. CASE StopNotify \/ NotifyWorker
  BY <1>2 DEF Joined, StopNotify, NotifyWorker, Notify
<1>3. CASE ReaderReady \/ LookForCard \/ ReadCard \/ PushScan
  BY <1>3 DEF Joined, ReaderReady, LookForCard, ReadCard, PushScan, waiting
<1>4. CASE Worker \/ WakeUp
  BY <1>4 DEF Joined, Worker, TakeScan, Loop, Test, Sleep, Query, Store, Finish, WakeUp,
              WakeSpuriously, others, reader, waiting
<1>5. CASE Network \/ Tick \/ UNCHANGED vars
  BY <1>5 DEF Joined, Network, Listen, CloseServer, ServerFails, Tick, vars, waiting, reader
<1> QED BY <1>1, <1>2, <1>3, <1>4, <1>5 DEF Next, Stop, Nfc

\* Once stop has returned no thread of the controller does anything, so that main may
\* destroy the database, the service and the queue they shared.
THEOREM QuietAfterStopAlways == Spec => QuietAfterStop
<1>1. Init => Joined
  BY DEF Init, Joined
<1>2. Joined /\ [Next]_vars =>
        [main = "stopped" => UNCHANGED <<waiting, main, reader, work, net, latest>>]_vars
  <2> SUFFICES ASSUME Joined, Next, main = "stopped"
               PROVE  UNCHANGED <<waiting, main, reader, work, net, latest>>
    OBVIOUS
  <2>1. nfc = "done" /\ consumer = "done" /\ net = "done"
    BY DEF Joined
  <2>2. Tick
    BY <2>1 DEF Next, Start, Signal, Stop, StopNotify, StopServer, Join, Nfc, ReaderReady,
       LookForCard, ReadCard, PushScan, NotifyWorker, Worker, TakeScan, Loop, Test, Sleep,
       Query, Store, WakeUp, WakeSpuriously, Network, Listen, CloseServer, ServerFails
  <2> QED BY <2>2 DEF Tick
<1> QED BY <1>1, <1>2, JoinedStep, PTL DEF Spec, QuietAfterStop
=============================================================================
