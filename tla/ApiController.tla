---------------------------- MODULE ApiController ----------------------------
(***************************************************************************)
(* ApiController: the NFC thread reads cards and queues their UIDs, the    *)
(* worker thread looks them up and caches the last one, the network thread *)
(* serves the REST API and answers /wait_card from that cache, and main    *)
(* starts all three and, on a signal, stops them.                          *)
(*                                                                         *)
(* Time is counted in whole seconds, as /wait_card does, and only as far   *)
(* as that matters.  The card operations (CardService) change the table    *)
(* the worker reads at any time, so any status may be what it finds.       *)
(***************************************************************************)
EXTENDS WaitQueue, Naturals

CONSTANTS
    Cards,        \* UIDs with a row in opencard
    Strangers,    \* UIDs without
    NoUid,        \* the empty string
    MaxQueue,     \* bound: the reader reports no card to a queue this long
    Prompt,       \* TRUE: a scan is in the cache before it is more than Slack seconds old
    Slack,        \* how long the lookup of a prompt scan may take, the wait for it included
    EarlySignal   \* TRUE: a signal may come before the server listens

Uids == Cards \cup Strangers

ASSUME UidsAssumption == NoUid \notin Uids
ASSUME MaxQueueAssumption == MaxQueue \in Nat \ {0}
ASSUME SlackAssumption == Slack \in Nat
ASSUME SwitchesAssumption == Prompt \in BOOLEAN /\ EarlySignal \in BOOLEAN

VARIABLES
    main,      \* what the main thread does next
    nfc,       \* what the NFC thread does next
    seen,      \* uid
    last,      \* lastRawUid
    step,      \* where the worker is in its job
    found,     \* what getCardSummary gave it
    net,       \* the network thread and its server
    latest,    \* latestCardState_
    age,       \* seconds since latest.scan_time
    scanned    \* ghost: seconds since the reader last read each UID

reader == <<nfc, seen, last>>
work == <<step, found>>
clock == <<age, scanned>>
vars == <<waiting, main, reader, work, net, latest, clock>>

Window == 3      \* seconds a scan counts as fresh
Horizon == Window + Slack   \* seconds since a reading are counted this far

NoAnswer == [card |-> NoUid, valid |-> FALSE, status |-> "?"]

Init ==
    /\ running = FALSE /\ queue = <<>> /\ consumer = "off" /\ job = NoUid
    /\ main = "start"
    /\ nfc = "off" /\ seen = NoUid /\ last = NoUid
    /\ step = "query" /\ found = NoAnswer
    /\ net = "off"
    /\ latest = NoAnswer
    /\ age = Window
    /\ scanned = [u \in Uids |-> Horizon]

-----------------------------------------------------------------------------
(* main: start, the wait for a signal, stop.                               *)

Start ==
    /\ main = "start"
    /\ main' = "wait"
    /\ running' = TRUE
    /\ nfc' = "start" /\ consumer' = "loop" /\ net' = "setup"
    /\ UNCHANGED <<queue, job, seen, last, work, latest, clock>>

\* main reads SIGINT or SIGTERM from the signalfd and calls stop.
Signal ==
    /\ main = "wait"
    /\ EarlySignal \/ net # "setup"
    /\ main' = "notify"
    /\ running' = FALSE
    /\ UNCHANGED <<queue, consumer, job, reader, work, net, latest, clock>>

StopNotify ==
    /\ main = "notify"
    /\ main' = "stop server"
    /\ Notify
    /\ UNCHANGED <<running, queue, job, reader, work, net, latest, clock>>

\* Server::stop does nothing to a server that does not listen yet.
StopServer ==
    /\ main = "stop server"
    /\ main' = "join nfc"
    /\ net' = IF net = "listening" THEN "closing" ELSE net
    /\ UNCHANGED <<waiting, reader, work, latest, clock>>

Join ==
    /\ \/ main = "join nfc" /\ nfc = "done" /\ main' = "join worker"
       \/ main = "join worker" /\ consumer = "done" /\ main' = "join network"
       \/ main = "join network" /\ net = "done" /\ main' = "stopped"
    /\ UNCHANGED <<waiting, reader, work, net, latest, clock>>

-----------------------------------------------------------------------------
(* The NFC thread.                                                         *)

\* The SPI device opens or does not.
ReaderReady ==
    /\ nfc = "start"
    /\ nfc' \in {"loop", "done"}
    /\ UNCHANGED <<waiting, main, seen, last, work, net, latest, clock>>

\* isCardPresent: whether a card answers.  One that lies on the reader may fail
\* to, as one that was just read does, since it waits to be selected.
LookForCard ==
    /\ nfc = "loop"
    /\ \/ ~running /\ nfc' = "done" /\ UNCHANGED last
       \/ running /\ Len(queue) < MaxQueue /\ nfc' = "read" /\ UNCHANGED last
       \/ running /\ nfc' = "loop" /\ last' = NoUid
    /\ UNCHANGED <<waiting, main, seen, work, net, latest, clock>>

\* readCardUID: the card may have gone, or the answer may not check.
ReadCard ==
    /\ nfc = "read"
    /\ \/ /\ nfc' = "loop"
          /\ UNCHANGED <<seen, scanned>>
       \/ \E u \in Uids :
             /\ seen' = u
             /\ scanned' = [scanned EXCEPT ![u] = 0]
             /\ nfc' = IF u # last THEN "push" ELSE "loop"
    /\ UNCHANGED <<waiting, main, last, work, net, latest, age>>

PushScan ==
    /\ nfc = "push"
    /\ Put(seen)
    /\ nfc' = "notify"
    /\ UNCHANGED <<running, consumer, job, main, seen, last, work, net, latest, clock>>

\* Mutant of NotifyWorker: no notify_one.
NotifyNobody ==
    /\ nfc = "notify"
    /\ nfc' = "loop"
    /\ last' = seen
    /\ UNCHANGED <<waiting, main, seen, work, net, latest, clock>>

NotifyWorker ==
    /\ nfc = "notify"
    /\ Notify
    /\ nfc' = "loop"
    /\ last' = seen
    /\ UNCHANGED <<running, queue, job, main, seen, work, net, latest, clock>>

-----------------------------------------------------------------------------
(* The worker thread.                                                      *)

others == <<main, reader, net, scanned>>

TakeScan == (Loop \/ Test \/ Sleep) /\ UNCHANGED <<others, work, latest, age>>

WakeUp == WakeSpuriously /\ UNCHANGED <<others, work, latest, age>>

\* getCardSummary: the row as it is now, or any of its failures.
Query ==
    /\ consumer = "busy" /\ step = "query"
    /\ step' = "store"
    /\ \/ /\ job \in Cards
          /\ \E s \in {"A", "D"} : found' = [card |-> job, valid |-> TRUE, status |-> s]
       \/ found' = [card |-> job, valid |-> FALSE, status |-> "?"]
    /\ UNCHANGED <<waiting, others, latest, age>>

\* Mutant of Store: a result that is not valid leaves the old entry in place.
StoreFoundOnly ==
    /\ consumer = "busy" /\ step = "store"
    /\ latest' = IF found.valid THEN found ELSE latest
    /\ age' = 0
    /\ step' = "query" /\ found' = NoAnswer
    /\ Finish(NoUid)
    /\ UNCHANGED <<running, queue, others>>

\* scan_time is taken here, when the query is over.
Store ==
    /\ consumer = "busy" /\ step = "store"
    /\ latest' = found
    /\ age' = 0
    /\ step' = "query" /\ found' = NoAnswer
    /\ Finish(NoUid)
    /\ UNCHANGED <<running, queue, others>>

-----------------------------------------------------------------------------
(* The network thread.                                                     *)

\* listen: the port is free or taken.
Listen ==
    /\ net = "setup"
    /\ net' \in {"listening", "done"}
    /\ UNCHANGED <<waiting, main, reader, work, latest, clock>>

\* The listening socket is closed; the pool finishes its requests and ends.
CloseServer ==
    /\ net = "closing"
    /\ net' = "done"
    /\ UNCHANGED <<waiting, main, reader, work, latest, clock>>

\* accept fails for a reason that is not that of a moment: the server ends, and
\* the rest of the program runs on without it.
ServerFails ==
    /\ net = "listening"
    /\ net' = "closing"
    /\ UNCHANGED <<waiting, main, reader, work, latest, clock>>

\* Mutant of Answer: at most three seconds.
AnswerForLonger == IF age <= Window /\ latest.card # NoUid THEN latest ELSE NoAnswer

\* What /wait_card answers in this state.
Answer == IF age < Window /\ latest.card # NoUid THEN latest ELSE NoAnswer

-----------------------------------------------------------------------------
(* The world outside.                                                      *)

\* The cards whose scans are on their way from the reader to the cache.
InFlight == (IF nfc = "push" THEN {seen} ELSE {})
            \cup {queue[i] : i \in DOMAIN queue}
            \cup (IF consumer = "busy" THEN {job} ELSE {})

\* A second more; most stands for as many and more.
Older(s, most) == IF s = most THEN most ELSE s + 1

Tick ==
    /\ Prompt => \A u \in InFlight : scanned[u] < Slack
    /\ age' = Older(age, Window)
    /\ scanned' = [u \in Uids |-> Older(scanned[u], Horizon)]
    /\ UNCHANGED <<waiting, main, reader, work, net, latest>>

-----------------------------------------------------------------------------
Stop == StopNotify \/ StopServer \/ Join
Nfc == ReaderReady \/ LookForCard \/ ReadCard \/ PushScan \/ NotifyWorker
Worker == TakeScan \/ Query \/ Store
Network == Listen \/ CloseServer \/ ServerFails

Next == Start \/ Signal \/ Stop \/ Nfc \/ Worker \/ WakeUp \/ Network \/ Tick

\* Every thread is scheduled and every call it makes returns; nobody has to
\* scan a card, send a signal or wake the worker for nothing.  A mutex that is
\* free again and again is granted in the end.
Fairness == WF_vars(Start) /\ WF_vars(Stop) /\ WF_vars(Nfc) /\ SF_vars(PushScan)
            /\ WF_vars(Worker) /\ WF_vars(Listen \/ CloseServer)

Spec == Init /\ [][Next]_vars /\ Fairness

-----------------------------------------------------------------------------
(* Properties.                                                             *)

Answers == [card : Uids \cup {NoUid}, valid : {TRUE}, status : {"A", "D"}]
           \cup [card : Uids \cup {NoUid}, valid : {FALSE}, status : {"?"}]

TypeOK ==
    /\ running \in BOOLEAN
    /\ queue \in Seq(Uids)
    /\ consumer \in ConsumerSteps
    /\ job \in Uids \cup {NoUid}
    /\ main \in {"start", "wait", "notify", "stop server", "join nfc", "join worker",
                 "join network", "stopped"}
    /\ seen \in Uids \cup {NoUid}
    /\ last \in Uids \cup {NoUid}
    /\ nfc \in {"off", "start", "loop", "read", "push", "notify", "done"}
    /\ step \in {"query", "store"}
    /\ found \in Answers
    /\ latest \in Answers
    /\ net \in {"off", "setup", "listening", "closing", "done"}
    /\ age \in 0 .. Window
    /\ scanned \in [Uids -> 0 .. Horizon]

\* The worker never sleeps beside a queued scan, unless the NFC thread is about
\* to wake it: pushing under the mutex closes the gap before wait.
NoScanForgotten == consumer = "asleep" /\ queue # <<>> => nfc = "notify"

\* A card /wait_card answers with was on the reader within the last 3 seconds, and as
\* many more as its lookup may take: scan_time is the end of the lookup.
FreshIsScanned == Answer.card # NoUid => scanned[Answer.card] < Window + Slack

\* When no scan is on its way, the entry /wait_card answers from is that of the
\* card the reader has read last, whether the lookup found it or not.
LatestIsLastScan == InFlight = {} => latest.card = seen

\* A scanned card reaches the cache, whatever else is scanned, unless the
\* program is stopped.
ScanReachesCache ==
    \A u \in Uids : (nfc = "push" /\ seen = u) ~> (latest.card = u \/ ~running)

\* stop returns if its notification found the worker awake, and not about to
\* sleep, and its Server::stop found the server listening.
StopCompletes ==
    (main = "join nfc" /\ consumer \notin {"tested", "asleep"} /\ net \in {"closing", "done"})
        ~> main = "stopped"

\* When stop has returned, and main goes on to destroy what the threads worked on,
\* none of them takes another step: only time passes.
QuietAfterStop == [][main = "stopped" => UNCHANGED <<waiting, main, reader, work, net, latest>>]_vars

\* A shutdown that was asked for completes.
ShutdownCompletes == main = "notify" ~> main = "stopped"
=============================================================================
