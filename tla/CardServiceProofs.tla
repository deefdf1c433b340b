-------------------------- MODULE CardServiceProofs --------------------------
(***************************************************************************)
(* Theorems about the card operations, for any number of cards, lines,     *)
(* handlers and requests.                                                  *)
(***************************************************************************)
EXTENDS CardService, TLAPS

-----------------------------------------------------------------------------
(* Typing.                                                                 *)

DbOK ==
    /\ disk \in Tables
    /\ work \in Tables
    /\ tx \in {"idle", "open", "aborted"}
    /\ link \in BOOLEAN

\* The statements keep the tables well formed.
LEMMA StatementTypes ==
    ASSUME NEW t \in Tables, NEW c \in Cards
    PROVE  /\ \A p \in Phones \cup {NoPhone} : Activated(t, c, p) \in Tables
           /\ \A l \in Lines, p \in Products : Inserted(t, c, l, p) \in Tables
           /\ Totalled(t, c) \in Tables
           /\ Aggregated(t, c) \in Tables
           /\ Deleted(t, c) \in Tables
           /\ Deactivated(t, c) \in Tables
  <1>1. \A p \in Phones \cup {NoPhone} : Activated(t, c, p) \in Tables
    BY DEF Activated, Tables
  <1>2. \A l \in Lines, p \in Products : Inserted(t, c, l, p) \in Tables
    BY DEF Inserted, Tables
  <1>3. Totalled(t, c) \in Tables
    <2>1. RowsOf(t, c) \in SUBSET Lines
      BY DEF RowsOf
    <2> QED
      BY <2>1 DEF Totalled, Tables
  <1>4. Aggregated(t, c) \in Tables
    BY DEF Aggregated, Tables
  <1>5. Deleted(t, c) \in Tables
    BY DEF Deleted, Tables
  <1>6. Deactivated(t, c) \in Tables
    BY DEF Deactivated, Tables
  <1> QED
    BY <1>1, <1>2, <1>3, <1>4, <1>5, <1>6

\* So does every outcome of a call.
LEMMA CallTypes ==
    ASSUME DbOK, NEW t \in Tables, NEW b \in BOOLEAN,
           \/ Execute(t) \/ ExecuteFails(t, b)
           \/ Begin \/ BeginFails(b)
           \/ Commit \/ CommitFails(b)
           \/ Rollback(b)
           \/ Reconnect
    PROVE  DbOK'
  <1>1. CASE Execute(t) \/ ExecuteFails(t, b)
    BY <1>1 DEF DbOK, Execute, ExecuteFails, Acts, Rejected, Dropped, Raced, OnDeadLink,
                Persisted, db
  <1>2. CASE Begin \/ BeginFails(b)
    BY <1>2 DEF DbOK, Begin, BeginFails, Acts, Dropped, Raced, OnDeadLink, db
  <1>3. CASE Commit \/ CommitFails(b)
    BY <1>3 DEF DbOK, Commit, CommitFails, Acts, Dropped, Raced, OnDeadLink, Outcome, db
  <1>4. CASE Rollback(b)
    BY <1>4 DEF DbOK, Rollback, Acts, Dropped, Raced, OnDeadLink, db
  <1>5. CASE Reconnect
    BY <1>5 DEF DbOK, Reconnect
  <1> QED
    BY <1>1, <1>2, <1>3, <1>4, <1>5

Closing == {"aggregate", "delete", "deactivate", "commit", "rollback"}

\* What a handler at step p knows of its request r.
HandlerOK(p, r) ==
    /\ p = "idle" <=> r.op = "none"
    /\ r.op = "register" => r.line \in Lines
    /\ p = "query" => r.op = "report"
    /\ p = "check" => ~Refused(r) /\ r.op # "report"
    /\ p = "activate" => r.op = "activate" /\ r.uid \in Cards /\ r.phone \in Phones
    /\ p \in {"insert", "total"} =>
           r.op = "register" /\ r.uid \in Cards /\ r.product \in Products
    /\ p \in Closing \cup {"begin"} => r.op = "close" /\ r.uid \in Cards
    /\ p \in {"lines", "lines closed", "reply closed"} =>
           r.op \in {"summary", "exit"} /\ r.uid \in Cards

TypeInv == TypeOK /\ \A h \in Handlers : HandlerOK(pc[h], req[h])

\* The handlers' own variables stay well formed whatever the database does.
LocalOK ==
    /\ pc \in [Handlers -> Steps \cup Outside]
    /\ req \in [Handlers -> Request \cup {NoRequest}]
    /\ result \in [Handlers -> Results]
    /\ used \subseteq Lines
    /\ acked \subseteq Lines
    /\ \A h \in Handlers : HandlerOK(pc[h], req[h])

\* The type invariant splits into the database's part and the handlers' part.
LEMMA TypeInvParts == TypeInv <=> DbOK /\ LocalOK
  BY DEF TypeInv, TypeOK, DbOK, LocalOK

\* A handler that moves to step p and keeps its request.
LEMMA MoveLocal ==
    ASSUME LocalOK, NEW h \in Handlers, NEW p \in Steps \cup Outside,
           HandlerOK(p, req[h]), pc' = [pc EXCEPT ![h] = p],
           result' = result \/ \E r \in Results : result' = [result EXCEPT ![h] = r],
           UNCHANGED <<req, used, acked>>
    PROVE  LocalOK'
  BY DEF LocalOK, HandlerOK, Refused

\* A handler that goes on to step p, which fits its request, stays well formed.
LEMMA GotoLocal ==
    ASSUME LocalOK, NEW h \in Handlers, NEW p \in Steps \cup Outside,
           HandlerOK(p, req[h]), Goto(h, p)
    PROVE  LocalOK'
  BY MoveLocal DEF Goto

\* So does one that returns from the Database function.
LEMMA ReturnLocal ==
    ASSUME LocalOK, NEW h \in Handlers, NEW r \in Results, pc[h] # "idle",
           Return(h, r)
    PROVE  LocalOK'
  <1>1. HandlerOK("reply", req[h])
    BY DEF LocalOK, HandlerOK, Closing
  <1> QED
    BY <1>1, MoveLocal DEF Return, Outside

\* So does a closeCard that goes on to its ROLLBACK.
LEMMA GiveUpLocal ==
    ASSUME LocalOK, NEW h \in Handlers, NEW r \in Results, pc[h] \in Closing,
           GiveUp(h, r)
    PROVE  LocalOK'
  <1>1. HandlerOK("rollback", req[h])
    BY DEF LocalOK, HandlerOK, Closing
  <1> QED
    BY <1>1, MoveLocal DEF GiveUp, Steps

\* Where taking a request leads.
LEMMA StartStep ==
    ASSUME NEW h, NEW r, Start(h, r)
    PROVE  \E p \in {"reply", "query", "check"} :
              /\ pc' = [pc EXCEPT ![h] = p]
              /\ p = "check" => ~Refused(r) /\ r.op # "report"
              /\ p = "query" => r.op = "report"
  BY DEF Start

\* HandlerOK and the types survive every step of a handler.
LEMMA StartLocal ==
    ASSUME LocalOK, NEW h \in Handlers, NEW r \in Request,
           r.op = "register" => r.line \in Lines, Start(h, r)
    PROVE  LocalOK'
  <1>2. PICK p \in {"reply", "query", "check"} :
            /\ pc' = [pc EXCEPT ![h] = p]
            /\ p = "check" => ~Refused(r) /\ r.op # "report"
            /\ p = "query" => r.op = "report"
    BY StartStep
  <1>3. HandlerOK(p, r)
    BY <1>2 DEF HandlerOK, Request, Ops, Closing
  <1>4. /\ req' = [req EXCEPT ![h] = r]
        /\ \E x \in Results : result' = [result EXCEPT ![h] = x]
        /\ used' \subseteq Lines
        /\ acked' = acked
    BY DEF Start, LocalOK, Request, Results
  <1> QED
    BY <1>2, <1>3, <1>4 DEF LocalOK, Steps, Outside

\* The requests the terminals send are well formed.
LEMMA RequestTypes ==
    /\ \A u \in Uids, p \in Phones \cup {NoPhone} :
         [NoRequest EXCEPT !.op = "activate", !.uid = u, !.phone = p]
           \in {r \in Request : r.op # "register"}
    /\ \A u \in Uids, l \in Lines, p \in Products \cup {NoProduct} :
         [NoRequest EXCEPT !.op = "register", !.uid = u, !.line = l, !.product = p]
           \in {r \in Request : r.line \in Lines}
    /\ \A u \in Uids, o \in {"close", "summary", "exit"} :
         [NoRequest EXCEPT !.op = o, !.uid = u]
           \in {r \in Request : r.op # "register"}
    /\ [NoRequest EXCEPT !.op = "report"] \in {r \in Request : r.op # "register"}
  BY DEF NoRequest, Request, Ops

\* A handler at its SELECT status works on a request CardService let through.
LEMMA CheckedRequest ==
    ASSUME LocalOK, NEW h \in Handlers, Check(h)
    PROVE  pc[h] = "check" /\ req[h] \in Request /\ ~Refused(req[h]) /\ req[h].op # "report"
  <1>1. pc[h] = "check" /\ HandlerOK(pc[h], req[h])
    BY DEF LocalOK, Check
  <1>2. req[h] # NoRequest
    BY <1>1 DEF HandlerOK, NoRequest
  <1> QED
    BY <1>1, <1>2 DEF LocalOK, HandlerOK

\* SELECT status leads to a step that fits the request, whatever the row says.
LEMMA CheckLocal ==
    ASSUME LocalOK, NEW h \in Handlers, Check(h)
    PROVE  LocalOK'
  <1> USE DEF Check
  <1>1. CASE Return(h, "UnknownError") \/ Return(h, "NotFound") \/ Return(h, "InvalidState")
    BY <1>1, ReturnLocal DEF Results
  <1>2. CASE \E p \in Steps : Goto(h, p) /\ HandlerOK(p, req[h])
    BY <1>2, GotoLocal
  <1>3. ASSUME AfterCheck(h, req[h].op, work.status[req[h].uid]), req[h].uid \in Cards
        PROVE  \/ Return(h, "InvalidState")
               \/ \E p \in Steps : Goto(h, p) /\ HandlerOK(p, req[h])
    <2>1. req[h] \in Request /\ ~Refused(req[h]) /\ req[h].op # "report"
      BY CheckedRequest
    <2>2. CASE req[h].op = "activate"
      <3>1. HandlerOK("activate", req[h])
        BY <1>3, <2>1, <2>2 DEF HandlerOK, Refused, Request, Closing
      <3> QED
        BY <1>3, <2>2, <3>1 DEF AfterCheck, Steps
    <2>3. CASE req[h].op = "close"
      <3>1. HandlerOK("begin", req[h])
        BY <1>3, <2>1, <2>3 DEF HandlerOK, Closing
      <3> QED
        BY <1>3, <2>3, <3>1 DEF AfterCheck, Steps
    <2>4. CASE req[h].op = "register"
      <3>1. HandlerOK("insert", req[h])
        BY <1>3, <2>1, <2>4 DEF HandlerOK, Refused, Request, Closing, LocalOK
      <3> QED
        BY <1>3, <2>4, <3>1 DEF AfterCheck, Steps
    <2>5. CASE req[h].op \in {"summary", "exit"}
      <3>1. HandlerOK("lines", req[h]) /\ HandlerOK("lines closed", req[h])
        BY <1>3, <2>1, <2>5 DEF HandlerOK, Closing
      <3> QED
        BY <1>3, <2>5, <3>1 DEF AfterCheck, Steps
    <2> QED
      BY <2>1, <2>2, <2>3, <2>4, <2>5 DEF Request, Ops
  <1> QED
    BY <1>1, <1>2, <1>3

\* The next step a writing handler moves to is one its request allows.
LEMMA WriterLocal ==
    ASSUME LocalOK, NEW h \in Handlers,
           \/ Activate(h) \/ Insert(h) \/ UpdateTotal(h)
           \/ BeginClose(h) \/ Aggregate(h) \/ Delete(h) \/ Deactivate(h)
           \/ CommitClose(h) \/ RollbackClose(h)
    PROVE  LocalOK'
  <1>0. HandlerOK(pc[h], req[h]) /\ pc[h] # "idle"
    BY DEF LocalOK, Activate, Insert, UpdateTotal, BeginClose, Aggregate, Delete,
           Deactivate, CommitClose, RollbackClose
  <1>1. CASE Return(h, "Ok") \/ Return(h, "UnknownError") \/ Return(h, "TxError")
    BY <1>0, <1>1, ReturnLocal DEF Results
  <1>2. CASE GiveUp(h, "UnknownError") /\ (Aggregate(h) \/ Delete(h) \/ Deactivate(h))
    BY <1>2, GiveUpLocal DEF Aggregate, Delete, Deactivate, Closing, Results
  <1>3. CASE Insert(h) /\ Goto(h, "total")
    <2>1. HandlerOK("total", req[h])
      BY <1>0, <1>3 DEF Insert, HandlerOK, Closing
    <2> QED
      BY <1>3, <2>1, GotoLocal DEF Steps
  <1>4. ASSUME NEW p \in Closing, Goto(h, p), pc[h] \in Closing \cup {"begin"}
        PROVE  LocalOK'
    <2>1. HandlerOK(p, req[h]) /\ p \in Steps
      BY <1>0, <1>4 DEF HandlerOK, Closing, Steps
    <2> QED
      BY <1>4, <2>1, GotoLocal
  <1>5. CASE RollbackClose(h)
    <2>1. HandlerOK("reply", req[h])
      BY <1>0, <1>5 DEF RollbackClose, HandlerOK, Closing
    <2> QED
      BY <1>5, <2>1, GotoLocal DEF RollbackClose, Outside
  <1>6. CASE Activate(h) \/ Insert(h) \/ UpdateTotal(h)
    BY <1>1, <1>3, <1>6 DEF Activate, Insert, UpdateTotal
  <1>7. CASE BeginClose(h) \/ Aggregate(h) \/ Delete(h) \/ Deactivate(h) \/ CommitClose(h)
    BY <1>1, <1>2, <1>4, <1>7 DEF BeginClose, Aggregate, Delete, Deactivate, CommitClose,
                                  Closing
  <1> QED
    BY <1>5, <1>6, <1>7

\* getCardSummary's second SELECT leaves the handlers well formed.
LEMMA ReaderLocal ==
    ASSUME LocalOK, NEW h \in Handlers, ReadLines(h)
    PROVE  LocalOK'
  <1>0. HandlerOK(pc[h], req[h]) /\ pc[h] \in {"lines", "lines closed"}
    BY DEF LocalOK, ReadLines
  <1>1. HandlerOK("reply", req[h]) /\ HandlerOK("reply closed", req[h])
    BY <1>0 DEF HandlerOK, Closing
  <1>2. CASE Return(h, "UnknownError")
    BY <1>0, <1>2, ReturnLocal DEF Results
  <1>3. CASE Goto(h, "reply") \/ Goto(h, "reply closed")
    BY <1>1, <1>3, GotoLocal DEF Outside
  <1> QED
    BY <1>2, <1>3 DEF ReadLines

\* So does a report's only SELECT.
LEMMA QueryLocal ==
    ASSUME LocalOK, NEW h \in Handlers, Query(h)
    PROVE  LocalOK'
  <1>1. PICK r \in Results : Return(h, r)
    BY DEF Query, Results
  <1>2. pc[h] # "idle"
    BY DEF Query
  <1> QED
    BY <1>1, <1>2, ReturnLocal

\* A reply leaves them well formed.
LEMMA ReplyLocal ==
    ASSUME LocalOK, NEW h \in Handlers, Reply(h)
    PROVE  LocalOK'
  <1>1. HandlerOK("idle", NoRequest)
    BY DEF HandlerOK, NoRequest, Closing
  <1>2. acked' \subseteq Lines
    BY DEF Reply, LocalOK, HandlerOK
  <1> QED
    BY <1>1, <1>2 DEF Reply, LocalOK, Outside, Results

\* So does a restart.
LEMMA RestartLocal ==
    ASSUME LocalOK, Restart
    PROVE  LocalOK'
  <1>1. HandlerOK("idle", NoRequest)
    BY DEF HandlerOK, NoRequest, Closing
  <1> QED
    BY <1>1 DEF Restart, LocalOK, Outside, Results

\* Every step leaves the handlers' own variables well formed.
LEMMA StepLocal ==
    ASSUME LocalOK, [Next]_vars
    PROVE  LocalOK'
  <1>1. ASSUME NEW h \in Handlers,
               StartActivate(h) \/ StartRegister(h) \/ StartOther(h)
        PROVE  LocalOK'
    BY <1>1, StartLocal, RequestTypes DEF StartActivate, StartRegister, StartOther
  <1>2. CASE UNCHANGED vars
    BY <1>2 DEF vars, handling, LocalOK
  <1> QED
    BY <1>1, <1>2, CheckLocal, WriterLocal, ReaderLocal, QueryLocal, ReplyLocal, RestartLocal
       DEF Next, Handle

\* The tables stay well formed because each statement is issued for a card and a
\* line that exist.
LEMMA StepDb ==
    ASSUME DbOK, LocalOK, [Next]_vars
    PROVE  DbOK'
  <1>1. ASSUME NEW h \in Handlers,
               \/ StartActivate(h) \/ StartRegister(h) \/ StartOther(h) \/ Reply(h)
        PROVE  DbOK'
    <2>1. UNCHANGED db
      BY <1>1 DEF StartActivate, StartRegister, StartOther, Start, Reply
    <2> QED
      BY <2>1 DEF db, DbOK
  <1>2. ASSUME NEW h \in Handlers,
               \/ Check(h) \/ Activate(h) \/ Insert(h) \/ UpdateTotal(h)
               \/ BeginClose(h) \/ Aggregate(h) \/ Delete(h) \/ Deactivate(h)
               \/ CommitClose(h) \/ RollbackClose(h) \/ ReadLines(h) \/ Query(h)
        PROVE  DbOK'
    <2>1. Contended(h) \in BOOLEAN
      BY DEF Contended
    <2>2. work \in Tables /\ HandlerOK(pc[h], req[h])
      BY DEF DbOK, LocalOK
    <2>3. CASE Check(h) \/ ReadLines(h) \/ Query(h)
      BY <2>1, <2>2, <2>3, CallTypes DEF Check, ReadLines, Query
    <2>4. CASE BeginClose(h) \/ CommitClose(h) \/ RollbackClose(h)
      BY <2>1, <2>2, <2>4, CallTypes DEF BeginClose, CommitClose, RollbackClose
    <2>5. CASE Activate(h)
      <3>1. Activated(work, req[h].uid, req[h].phone) \in Tables
        BY <2>2, <2>5, StatementTypes DEF Activate, HandlerOK
      <3> QED
        BY <2>1, <2>5, <3>1, CallTypes DEF Activate
    <2>6. CASE Insert(h)
      <3>1. Inserted(work, req[h].uid, req[h].line, req[h].product) \in Tables
        BY <2>2, <2>6, StatementTypes DEF Insert, HandlerOK
      <3> QED
        BY <2>1, <2>6, <3>1, CallTypes DEF Insert
    <2>7. CASE UpdateTotal(h)
      <3>1. Totalled(work, req[h].uid) \in Tables
        BY <2>2, <2>7, StatementTypes DEF UpdateTotal, HandlerOK
      <3> QED
        BY <2>1, <2>7, <3>1, CallTypes DEF UpdateTotal
    <2>8. CASE Aggregate(h) \/ Delete(h) \/ Deactivate(h)
      <3>1. /\ Aggregated(work, req[h].uid) \in Tables
            /\ Deleted(work, req[h].uid) \in Tables
            /\ Deactivated(work, req[h].uid) \in Tables
        BY <2>2, <2>8, StatementTypes DEF Aggregate, Delete, Deactivate, HandlerOK, Closing
      <3> QED
        BY <2>1, <2>8, <3>1, CallTypes DEF Aggregate, Delete, Deactivate
    <2> QED
      BY <1>2, <2>3, <2>4, <2>5, <2>6, <2>7, <2>8
  <1>3. CASE Restart
    BY <1>3, CallTypes DEF Restart, DbOK
  <1>4. CASE UNCHANGED vars
    BY <1>4 DEF vars, db, DbOK
  <1> QED
    BY <1>1, <1>2, <1>3, <1>4 DEF Next, Handle

\* Every step keeps the type invariant.
LEMMA StepTypes ==
    ASSUME TypeInv, [Next]_vars
    PROVE  TypeInv'
  <1>1. DbOK /\ LocalOK
    BY TypeInvParts
  <1>2. DbOK' /\ LocalOK'
    BY <1>1, StepDb, StepLocal
  <1> QED
    BY <1>2 DEF TypeInv, TypeOK, DbOK, LocalOK

\* Every variable keeps its type, and every handler works on a request that fits
\* the step it is at, under every interleaving and every fault.
THEOREM Typing == Spec => []TypeInv
  <1>1. Init => TypeInv
    <2> SUFFICES ASSUME Init PROVE TypeInv
      OBVIOUS
    <2>1. EmptyTables \in Tables
      BY DEF EmptyTables, Tables
    <2>2. HandlerOK("idle", NoRequest)
      BY DEF HandlerOK, NoRequest, Closing
    <2> QED
      BY <2>1, <2>2 DEF Init, Connect, TypeInv, TypeOK, Outside, Results
  <1>2. TypeInv /\ [Next]_vars => TypeInv'
    BY StepTypes
  <1> QED
    BY <1>1, <1>2, PTL DEF Spec

\* The type invariant the runs check, for every instance and every fault: each
\* handler is at a known step with a request of the right shape, and the tables,
\* as committed and as the connection sees them, keep their columns' domains.
THEOREM TypeCorrect == Spec => []TypeOK
  <1>1. TypeInv => TypeOK
    BY DEF TypeInv
  <1> QED
    BY <1>1, Typing, PTL

-----------------------------------------------------------------------------
(* What holds under every interleaving, with every fault.                  *)

\* Tables t are what some statement of the program makes of work.
StatementOf(t) ==
    \/ t = work
    \/ \E c \in Cards :
         \/ \E p \in Phones : t = Activated(work, c, p)
         \/ \E l \in Lines, p \in Products : t = Inserted(work, c, l, p)
         \/ t \in {Totalled(work, c), Aggregated(work, c), Deleted(work, c),
                   Deactivated(work, c)}

\* A call that sends the statement for t leaves these tables behind.
Effect(t) ==
    \/ disk' = disk /\ work' \in {disk, work, t}
    \/ disk' = work /\ work' = work
    \/ disk' = t /\ work' = t

\* Every call on the connection leaves the tables as some Effect says.
LEMMA CallEffect ==
    ASSUME DbOK, NEW t, NEW b \in BOOLEAN,
           \/ Execute(t) \/ ExecuteFails(t, b)
           \/ Begin \/ BeginFails(b)
           \/ Commit \/ CommitFails(b)
           \/ Rollback(b)
           \/ Reconnect
    PROVE  Effect(t)
  <1>1. CASE Execute(t) \/ ExecuteFails(t, b)
    BY <1>1 DEF Effect, Execute, ExecuteFails, Acts, Rejected, Dropped, Raced, OnDeadLink,
                Persisted, db
  <1>2. CASE Begin \/ BeginFails(b)
    BY <1>2 DEF Effect, Begin, BeginFails, Acts, Dropped, Raced, OnDeadLink, db
  <1>3. CASE Commit \/ CommitFails(b)
    BY <1>3 DEF Effect, Commit, CommitFails, Acts, Dropped, Raced, OnDeadLink, Outcome, db
  <1>4. CASE Rollback(b)
    BY <1>4 DEF Effect, Rollback, Acts, Dropped, Raced, OnDeadLink, db
  <1>5. CASE Reconnect
    BY <1>5 DEF Effect, Reconnect
  <1> QED
    BY <1>1, <1>2, <1>3, <1>4, <1>5

\* Every step of the program has such an effect, for a statement of the program.
LEMMA StepEffect ==
    ASSUME TypeInv, [Next]_vars
    PROVE  \E t : StatementOf(t) /\ Effect(t)
  <1>0. DbOK /\ LocalOK
    BY TypeInvParts
  <1>a. StatementOf(work)
    BY DEF StatementOf
  <1>1. ASSUME NEW h \in Handlers,
               \/ StartActivate(h) \/ StartRegister(h) \/ StartOther(h) \/ Reply(h)
        PROVE  Effect(work)
    <2>1. UNCHANGED db
      BY <1>1 DEF StartActivate, StartRegister, StartOther, Start, Reply
    <2> QED
      BY <2>1 DEF db, Effect
  <1>2. ASSUME NEW h \in Handlers,
               \/ Check(h) \/ Activate(h) \/ Insert(h) \/ UpdateTotal(h)
               \/ BeginClose(h) \/ Aggregate(h) \/ Delete(h) \/ Deactivate(h)
               \/ CommitClose(h) \/ RollbackClose(h) \/ ReadLines(h) \/ Query(h)
        PROVE  \E t : StatementOf(t) /\ Effect(t)
    <2>1. Contended(h) \in BOOLEAN
      BY DEF Contended
    <2>2. HandlerOK(pc[h], req[h])
      BY <1>0 DEF LocalOK
    <2>3. CASE Check(h) \/ ReadLines(h) \/ Query(h)
      BY <1>0, <1>a, <2>1, <2>3, CallEffect DEF Check, ReadLines, Query
    <2>4. CASE BeginClose(h) \/ CommitClose(h) \/ RollbackClose(h)
      BY <1>0, <1>a, <2>1, <2>4, CallEffect DEF BeginClose, CommitClose, RollbackClose
    <2>5. CASE Activate(h)
      <3>1. StatementOf(Activated(work, req[h].uid, req[h].phone))
        BY <2>2, <2>5 DEF Activate, HandlerOK, StatementOf
      <3> QED
        BY <1>0, <2>1, <2>5, <3>1, CallEffect DEF Activate
    <2>6. CASE Insert(h)
      <3>1. StatementOf(Inserted(work, req[h].uid, req[h].line, req[h].product))
        BY <2>2, <2>6 DEF Insert, HandlerOK, StatementOf
      <3> QED
        BY <1>0, <2>1, <2>6, <3>1, CallEffect DEF Insert
    <2>7. CASE UpdateTotal(h)
      <3>1. StatementOf(Totalled(work, req[h].uid))
        BY <2>2, <2>7 DEF UpdateTotal, HandlerOK, StatementOf
      <3> QED
        BY <1>0, <2>1, <2>7, <3>1, CallEffect DEF UpdateTotal
    <2>8. CASE Aggregate(h) \/ Delete(h) \/ Deactivate(h)
      <3>1. /\ StatementOf(Aggregated(work, req[h].uid))
            /\ StatementOf(Deleted(work, req[h].uid))
            /\ StatementOf(Deactivated(work, req[h].uid))
        BY <2>2, <2>8 DEF Aggregate, Delete, Deactivate, HandlerOK, Closing, StatementOf
      <3> QED
        BY <1>0, <2>1, <2>8, <3>1, CallEffect DEF Aggregate, Delete, Deactivate
    <2> QED
      BY <1>2, <2>3, <2>4, <2>5, <2>6, <2>7, <2>8
  <1>3. CASE Restart
    BY <1>0, <1>3, <1>a, CallEffect DEF Restart
  <1>4. CASE UNCHANGED vars
    BY <1>4, <1>a DEF vars, db, Effect
  <1> QED
    BY <1>1, <1>a, <1>2, <1>3, <1>4 DEF Next, Handle

\* No statement sets a card's phone without its status, or the other way round.
PhoneMatches(t) == \A c \in Cards : t.status[c] = "A" <=> t.phone[c] # NoPhone

\* A card has a customer's phone exactly while it is active, whatever interleaves,
\* races or fails: activateCard and closeCard write status and phone in one UPDATE.
THEOREM PhoneIffActiveAlways == Spec => []PhoneIffActive
  <1> DEFINE Inv == PhoneMatches(disk) /\ PhoneMatches(work)
  <1>1. Init => Inv
    BY DEF Init, Connect, EmptyTables, PhoneMatches
  <1>2. TypeInv /\ Inv /\ [Next]_vars => Inv'
    <2> SUFFICES ASSUME TypeInv, Inv, [Next]_vars PROVE Inv'
      OBVIOUS
    <2>1. PICK t : StatementOf(t) /\ Effect(t)
      BY StepEffect
    <2>2. PhoneMatches(t)
      <3>1. work \in Tables /\ PhoneMatches(work)
        BY DEF TypeInv, TypeOK
      <3>2. \A c \in Cards, p \in Phones : PhoneMatches(Activated(work, c, p))
        BY <3>1, PhonesAssumption DEF Activated, PhoneMatches, Tables
      <3>3. \A c \in Cards, l \in Lines, p \in Products :
               PhoneMatches(Inserted(work, c, l, p))
        BY <3>1 DEF Inserted, PhoneMatches, Tables
      <3>4. \A c \in Cards : /\ PhoneMatches(Totalled(work, c))
                             /\ PhoneMatches(Aggregated(work, c))
                             /\ PhoneMatches(Deleted(work, c))
        BY <3>1 DEF Totalled, Aggregated, Deleted, PhoneMatches, Tables
      <3>5. \A c \in Cards : PhoneMatches(Deactivated(work, c))
        BY <3>1 DEF Deactivated, PhoneMatches, Tables
      <3> QED
        BY <2>1, <3>1, <3>2, <3>3, <3>4, <3>5 DEF StatementOf
    <2> QED
      BY <2>1, <2>2 DEF Effect, PhoneMatches
  <1>3. Inv => PhoneIffActive
    BY DEF PhoneMatches, PhoneIffActive
  <1> QED
    BY <1>1, <1>2, <1>3, Typing, PTL DEF Spec

\* Tables u have counted every line at least as often as tables t.
CountedIn(t, u) == \A l \in Lines : t.counted[l] <= u.counted[l]

\* What producttotals has recorded is never taken back, whatever is rolled back:
\* closeCard only ever adds to what the transaction started from.
THEOREM TotalsNeverShrinkAlways == Spec => TotalsNeverShrink
  <1> DEFINE Inv == CountedIn(disk, work)
  <1>1. Init => Inv
    BY DEF Init, Connect, EmptyTables, CountedIn
  <1>2. TypeInv /\ Inv /\ [Next]_vars => Inv' /\ CountedIn(disk, disk')
    <2> SUFFICES ASSUME TypeInv, Inv, [Next]_vars PROVE Inv' /\ CountedIn(disk, disk')
      OBVIOUS
    <2>1. PICK t : StatementOf(t) /\ Effect(t)
      BY StepEffect
    <2>2. disk \in Tables /\ work \in Tables /\ t \in Tables
      BY <2>1, StatementTypes DEF TypeInv, TypeOK, StatementOf
    <2>3. CountedIn(work, t)
      <3>1. \A c \in Cards : CountedIn(work, Aggregated(work, c))
        BY <2>2 DEF Aggregated, CountedIn, Tables
      <3>2. \A c \in Cards : /\ \A p \in Phones : CountedIn(work, Activated(work, c, p))
                             /\ CountedIn(work, Totalled(work, c))
                             /\ CountedIn(work, Deleted(work, c))
                             /\ CountedIn(work, Deactivated(work, c))
        BY <2>2 DEF Activated, Totalled, Deleted, Deactivated, CountedIn, Tables
      <3>3. \A c \in Cards, l \in Lines, p \in Products :
               CountedIn(work, Inserted(work, c, l, p))
        BY <2>2 DEF Inserted, CountedIn, Tables
      <3>4. CountedIn(work, work)
        BY <2>2 DEF CountedIn, Tables
      <3> QED
        BY <2>1, <3>1, <3>2, <3>3, <3>4 DEF StatementOf
    <2>4. \A l \in Lines : /\ disk.counted[l] \in Nat /\ work.counted[l] \in Nat
                           /\ t.counted[l] \in Nat
      BY <2>2 DEF Tables
    <2> QED
      BY <2>1, <2>3, <2>4 DEF Effect, CountedIn
  <1>3. CountedIn(disk, disk') => \A l \in Lines : disk.counted[l] <= disk'.counted[l]
    BY DEF CountedIn
  <1> QED
    BY <1>1, <1>2, <1>3, Typing, PTL DEF Spec, TotalsNeverShrink

-----------------------------------------------------------------------------
(* What holds when the terminals are disciplined, whatever fails and       *)
(* whichever threads race inside libpq: a checkout overlaps no other       *)
(* writing request, and no two activations of one card overlap.  A race    *)
(* can leave a transaction open behind the program's back, in which other  *)
(* requests then work; these facts are true of the committed tables and of *)
(* those the connection sees, so a late commit of such a transaction, or   *)
(* its loss, keeps them.                                                   *)

\* Requests in progress do not clash, and each registration has a line of its own.
Apart ==
    /\ \A h \in Handlers : req[h].op = "register" => req[h].line \in used
    /\ \A g, h \in Handlers : g # h =>
           /\ ~Clash(req[g], req[h])
           /\ req[g].op = "register" /\ req[h].op = "register" => req[g].line # req[h].line

ConnInv == tx # "open" => work = disk

\* Inactive cards of tables t carry nothing over.
Clean(t) ==
    \A c \in Cards : t.status[c] = "D" =>
        RowsOf(t, c) = {} /\ t.total[c] = {} /\ t.phone[c] = NoPhone

\* Tables u are later than t: a line that has left its card has been counted once more.
Follows(t, u) ==
    /\ CountedIn(t, u)
    /\ \A l \in Lines : t.row[l] # NoCard /\ u.row[l] = NoCard => t.counted[l] < u.counted[l]

InTx == {"aggregate", "delete", "deactivate", "commit"}

\* What a handler at step p with request r has seen to, for committed tables d, visible
\* tables w and transaction status x, while the server still takes its statements.
Sees(p, r, d, w, x) ==
    /\ p = "insert" => w.status[r.uid] = "A"
    /\ p \in InTx => x = "open"
    /\ p = "delete" => \A l \in RowsOf(w, r.uid) : d.counted[l] < w.counted[l]
    /\ p \in {"deactivate", "commit"} => RowsOf(w, r.uid) = {}
    /\ p = "commit" => w.status[r.uid] = "D"

Listening == link /\ tx # "aborted"

ViewInv ==
    /\ ConnInv
    /\ Apart
    /\ Clean(disk) /\ Clean(work) /\ Follows(disk, work)
    /\ Listening => \A h \in Handlers : Sees(pc[h], req[h], disk, work, tx)

View == TypeInv /\ ViewInv

\* A step of one handler leaves the others where they are.
LEMMA OthersKeep ==
    ASSUME TypeInv, NEW h \in Handlers, NEW g \in Handlers, g # h, Handle(g)
    PROVE  pc'[h] = pc[h] /\ req'[h] = req[h] /\ result'[h] = result[h]
  <1>0. /\ LocalOK
        /\ pc \in [Handlers -> Steps \cup Outside]
        /\ req \in [Handlers -> Request \cup {NoRequest}]
        /\ result \in [Handlers -> Results]
    BY TypeInvParts DEF LocalOK
  <1>1. CASE StartActivate(g) \/ StartRegister(g) \/ StartOther(g)
    BY <1>0, <1>1 DEF StartActivate, StartRegister, StartOther, Start
  <1>2. CASE Check(g)
    <2>1. req[g].op \in Ops \ {"report"}
      BY <1>0, <1>2, CheckedRequest DEF Request
    <2>2. \/ \E p : Goto(g, p)
          \/ \E r : Return(g, r)
      BY <1>2, <2>1 DEF Check, AfterCheck, Ops
    <2> QED
      BY <1>0, <2>2 DEF Goto, Return
  <1>3. CASE Activate(g) \/ Insert(g) \/ UpdateTotal(g)
    BY <1>0, <1>3 DEF Activate, Insert, UpdateTotal, Goto, Return
  <1>4. CASE BeginClose(g) \/ Aggregate(g) \/ Delete(g) \/ Deactivate(g)
    BY <1>0, <1>4 DEF BeginClose, Aggregate, Delete, Deactivate, Goto, Return, GiveUp
  <1>5. CASE CommitClose(g) \/ RollbackClose(g) \/ ReadLines(g) \/ Query(g)
    BY <1>0, <1>5 DEF CommitClose, RollbackClose, ReadLines, Query, Goto, Return
  <1>6. CASE Reply(g)
    BY <1>0, <1>6 DEF Reply
  <1> QED
    BY <1>1, <1>2, <1>3, <1>4, <1>5, <1>6 DEF Handle

\* A request is taken whole, a registration with a line nobody has asked for yet.
LEMMA RequestStarts ==
    ASSUME NEW h \in Handlers, StartActivate(h) \/ StartRegister(h) \/ StartOther(h)
    PROVE  \E r \in Request : /\ r.op = "register" => r.line \in Lines \ used
                              /\ Start(h, r)
  <1>1. CASE StartActivate(h) \/ StartOther(h)
    BY <1>1, RequestTypes DEF StartActivate, StartOther
  <1>2. CASE StartRegister(h)
    <2>1. PICK u \in Uids, l \in Lines \ used, p \in Products \cup {NoProduct} :
            Start(h, [NoRequest EXCEPT !.op = "register", !.uid = u, !.line = l,
                                       !.product = p])
      BY <1>2 DEF StartRegister
    <2>2. [NoRequest EXCEPT !.op = "register", !.uid = u, !.line = l, !.product = p].line = l
      BY DEF NoRequest
    <2> QED
      BY <2>1, <2>2, RequestTypes
  <1> QED
    BY <1>1, <1>2

\* A disciplined terminal's request clashes with none in progress.
LEMMA StartApart ==
    ASSUME Disciplined, LocalOK, Apart, NEW h \in Handlers, NEW r \in Request,
           r.op = "register" => r.line \in Lines \ used, Start(h, r)
    PROVE  Apart'
  <1>1. /\ req' = [req EXCEPT ![h] = r]
        /\ used' = used \cup ({r.line} \ {NoLine})
        /\ req \in [Handlers -> Request \cup {NoRequest}]
    BY DEF Start, LocalOK
  <1>2. \A g \in Handlers : ~Clash(r, req[g]) /\ ~Clash(req[g], r)
    BY DEF Start, Clash
  <1>3. r.op = "register" => r.line \in used' \ used
    BY <1>1, LinesAssumption
  <1>4. used \subseteq used' /\ \A g \in Handlers : req'[g] = IF g = h THEN r ELSE req[g]
    BY <1>1
  <1> QED
    BY <1>2, <1>3, <1>4 DEF Apart, Clash

\* A reply, or a restart, leaves fewer in progress.
LEMMA FewerApart ==
    ASSUME LocalOK, Apart, UNCHANGED used, NEW S \in SUBSET Handlers,
           req' = [h \in Handlers |-> IF h \in S THEN NoRequest ELSE req[h]]
    PROVE  Apart'
  BY DEF Apart, Clash, NoRequest, Writing

\* What the statements do to cleanliness and to the lines.
LEMMA StatementClean ==
    ASSUME NEW t \in Tables, Clean(t), NEW c \in Cards
    PROVE  /\ \A p \in Phones : /\ Clean(Activated(t, c, p))
                                /\ Follows(t, Activated(t, c, p))
           /\ \A l \in Lines, p \in Products : /\ t.status[c] = "A" => Clean(Inserted(t, c, l, p))
                                               /\ Follows(t, Inserted(t, c, l, p))
           /\ Clean(Totalled(t, c)) /\ Follows(t, Totalled(t, c))
           /\ Clean(Aggregated(t, c)) /\ Follows(t, Aggregated(t, c))
           /\ Clean(Deleted(t, c))
           /\ RowsOf(t, c) = {} => Clean(Deactivated(t, c))
           /\ Follows(t, Deactivated(t, c))
           /\ Follows(t, t)
  <1>0. c # NoCard /\ \A l \in Lines : t.counted[l] \in Nat
    BY CardsAssumption DEF Tables
  <1>1. ASSUME NEW p \in Phones
        PROVE  Clean(Activated(t, c, p)) /\ Follows(t, Activated(t, c, p))
    BY <1>0 DEF Activated, Clean, RowsOf, Follows, CountedIn, Tables
  <1>2. ASSUME NEW l \in Lines, NEW p \in Products
        PROVE  /\ t.status[c] = "A" => Clean(Inserted(t, c, l, p))
               /\ Follows(t, Inserted(t, c, l, p))
    BY <1>0 DEF Inserted, Clean, RowsOf, Follows, CountedIn, Tables
  <1>3. Clean(Totalled(t, c)) /\ Follows(t, Totalled(t, c))
    BY <1>0 DEF Totalled, Clean, RowsOf, Follows, CountedIn, Tables
  <1>4. Clean(Aggregated(t, c)) /\ Follows(t, Aggregated(t, c))
    BY <1>0 DEF Aggregated, Clean, RowsOf, Follows, CountedIn, Tables
  <1>5. Clean(Deleted(t, c))
    BY <1>0, CardsAssumption DEF Deleted, Clean, RowsOf, Tables
  <1>6. (RowsOf(t, c) = {} => Clean(Deactivated(t, c))) /\ Follows(t, Deactivated(t, c))
    BY <1>0 DEF Deactivated, Clean, RowsOf, Follows, CountedIn, Tables
  <1>7. Follows(t, t)
    BY <1>0 DEF Follows, CountedIn
  <1> QED
    BY <1>1, <1>2, <1>3, <1>4, <1>5, <1>6, <1>7

\* Later tables than later tables are later.
LEMMA FollowsOn ==
    ASSUME NEW t \in Tables, NEW u \in Tables, NEW v \in Tables, Follows(t, u), Follows(u, v)
    PROVE  Follows(t, v)
  <1>1. \A l \in Lines : t.counted[l] \in Nat /\ u.counted[l] \in Nat /\ v.counted[l] \in Nat
    BY DEF Tables
  <1> QED
    BY <1>1 DEF Follows, CountedIn

\* A call that sends a statement fit for it leaves both tables clean, and later ones.
LEMMA EffectView ==
    ASSUME DbOK, Clean(disk), Clean(work), Follows(disk, work),
           NEW t \in Tables, Clean(t), Follows(disk, t), Effect(t)
    PROVE  Clean(disk') /\ Clean(work') /\ Follows(disk', work') /\ Follows(disk, disk')
  BY StatementClean DEF Effect, DbOK, Clean, Follows, CountedIn, Tables

\* After any call, what is not in an open transaction is committed.
LEMMA CallConn ==
    ASSUME DbOK, ConnInv, NEW t, NEW b \in BOOLEAN,
           \/ Execute(t) \/ ExecuteFails(t, b)
           \/ Begin \/ BeginFails(b)
           \/ Commit \/ CommitFails(b)
           \/ Rollback(b)
           \/ Reconnect
    PROVE  ConnInv'
  <1>1. CASE Execute(t) \/ ExecuteFails(t, b)
    BY <1>1 DEF ConnInv, DbOK, Execute, ExecuteFails, Acts, Rejected, Dropped, Raced,
                OnDeadLink, Persisted, db
  <1>2. CASE Begin \/ BeginFails(b)
    BY <1>2 DEF ConnInv, Begin, BeginFails, Acts, Dropped, Raced, OnDeadLink, db
  <1>3. CASE Commit \/ CommitFails(b)
    BY <1>3 DEF ConnInv, Commit, CommitFails, Acts, Dropped, Raced, OnDeadLink, db
  <1>4. CASE Rollback(b)
    BY <1>4 DEF ConnInv, Rollback, Acts, Dropped, Raced, OnDeadLink, db
  <1>5. CASE Reconnect
    BY <1>5 DEF ConnInv, Reconnect
  <1> QED
    BY <1>1, <1>2, <1>3, <1>4, <1>5

\* A statement on a broken connection, or in an aborted transaction, is not executed.
LEMMA DeadStatement ==
    ASSUME DbOK, ~Listening, NEW t, NEW b \in BOOLEAN, Execute(t) \/ ExecuteFails(t, b)
    PROVE  Effect(work) /\ ~Listening' /\ ~Execute(t)
  BY DEF DbOK, Listening, Effect, Execute, ExecuteFails, Acts, Rejected, Dropped, Raced,
         OnDeadLink, Persisted, db

\* A statement after which the server still listens was executed or not, and if it
\* reports success it was.  In a transaction the committed tables stay.
LEMMA LiveStatement ==
    ASSUME DbOK, ConnInv, NEW t, NEW b \in BOOLEAN, Execute(t) \/ ExecuteFails(t, b),
           Listening'
    PROVE  /\ Listening /\ tx' = tx
           /\ work' \in {work, t}
           /\ Execute(t) => work' = t
           /\ tx = "open" => disk' = disk
  BY DEF DbOK, ConnInv, Listening, Execute, ExecuteFails, Acts, Rejected, Dropped, Raced,
         OnDeadLink, Persisted, db

\* A SELECT never changes the committed tables.
LEMMA SelectKeepsDisk ==
    ASSUME DbOK, ConnInv, NEW b \in BOOLEAN, Execute(work) \/ ExecuteFails(work, b)
    PROVE  disk' = disk
  BY DEF DbOK, ConnInv, Execute, ExecuteFails, Acts, Rejected, Dropped, Raced, OnDeadLink,
         Persisted, db

\* A handler that does not write has nothing to see to.
LEMMA ReaderSees ==
    ASSUME NEW p, NEW r, HandlerOK(p, r), r.op \notin Writing, NEW d, NEW w, NEW x
    PROVE  Sees(p, r, d, w, x)
  BY DEF HandlerOK, Sees, Writing, InTx, Closing

\* Nor has one that is about to reply, or has replied.
LEMMA DoneSees ==
    ASSUME NEW p \in {"idle", "query", "check", "activate", "total", "begin", "lines",
                      "lines closed", "rollback", "reply", "reply closed"},
           NEW r, NEW d, NEW w, NEW x
    PROVE  Sees(p, r, d, w, x)
  BY DEF Sees, InTx

\* What View says of a handler, for the lemmas below.
LEMMA ViewKnown ==
    ASSUME View, NEW h \in Handlers
    PROVE  /\ DbOK /\ LocalOK /\ ConnInv /\ Apart
           /\ disk \in Tables /\ work \in Tables
           /\ Clean(disk) /\ Clean(work) /\ Follows(disk, work)
           /\ HandlerOK(pc[h], req[h])
           /\ Listening => Sees(pc[h], req[h], disk, work, tx)
           /\ Contended(h) \in BOOLEAN
  BY TypeInvParts DEF View, TypeInv, ViewInv, Contended, DbOK

\* Handler h moves to step p and makes a call for a statement fit to be sent.
LEMMA ViewMove ==
    ASSUME View, NEW h \in Handlers, NEW p,
           pc' = [pc EXCEPT ![h] = p], UNCHANGED <<req, used>>,
           NEW t \in Tables, Clean(t), Follows(disk, t), Effect(t), ConnInv',
           Listening' => /\ Sees(p, req[h], disk', work', tx')
                         /\ \A g \in Handlers \ {h} : Sees(pc[g], req[g], disk', work', tx')
    PROVE  ViewInv' /\ Follows(disk, disk')
  <1>1. Clean(disk') /\ Clean(work') /\ Follows(disk', work') /\ Follows(disk, disk')
    BY ViewKnown, EffectView
  <1>2. Apart'
    BY DEF View, ViewInv, Apart
  <1>3. pc \in [Handlers -> Steps \cup Outside]
    BY DEF View, TypeInv, TypeOK
  <1>4. Listening' => \A g \in Handlers : Sees(pc'[g], req'[g], disk', work', tx')
    BY <1>3
  <1> QED
    BY <1>1, <1>2, <1>4 DEF ViewInv, Clean, Follows, CountedIn, Sees

\* A checkout has no other writer beside it.
LEMMA CheckoutAlone ==
    ASSUME View, NEW h \in Handlers, req[h].op = "close", NEW d, NEW w, NEW x
    PROVE  \A g \in Handlers \ {h} : Sees(pc[g], req[g], d, w, x)
  <1> SUFFICES ASSUME NEW g \in Handlers \ {h}
               PROVE  Sees(pc[g], req[g], d, w, x)
    OBVIOUS
  <1>1. HandlerOK(pc[g], req[g])
    BY ViewKnown
  <1>2. req[g].op \notin Writing
    BY DEF View, ViewInv, Apart, Clash, Writing
  <1> QED
    BY <1>1, <1>2, ReaderSees

\* What an activation or a registration does takes no card away from another one.
LEMMA SaleLeaves ==
    ASSUME View, Listening, NEW h \in Handlers, req[h].op \in {"activate", "register"},
           NEW w, \A c \in Cards : work.status[c] = "A" => w.status[c] = "A",
           NEW d, NEW x
    PROVE  \A g \in Handlers \ {h} : Sees(pc[g], req[g], d, w, x)
  <1> SUFFICES ASSUME NEW g \in Handlers \ {h}
               PROVE  Sees(pc[g], req[g], d, w, x)
    OBVIOUS
  <1>1. HandlerOK(pc[g], req[g]) /\ Sees(pc[g], req[g], disk, work, tx)
    BY ViewKnown
  <1>2. req[g].op # "close"
    BY DEF View, ViewInv, Apart, Clash, Writing
  <1> QED
    BY <1>1, <1>2 DEF HandlerOK, Sees, InTx, Closing

\* A SELECT leaves everyone's view as it is.
LEMMA ReadLeaves ==
    ASSUME View, NEW b \in BOOLEAN, Execute(work) \/ ExecuteFails(work, b), Listening'
    PROVE  \A g \in Handlers : Sees(pc[g], req[g], disk', work', tx')
  <1> SUFFICES ASSUME NEW g \in Handlers
               PROVE  Sees(pc[g], req[g], disk', work', tx')
    OBVIOUS
  <1>1. Listening /\ work' = work /\ tx' = tx /\ disk' = disk
    BY ViewKnown, LiveStatement, SelectKeepsDisk
  <1> QED
    BY <1>1, ViewKnown

\* The SELECTs keep the view.
LEMMA ReadView ==
    ASSUME View, NEW h \in Handlers, Check(h) \/ ReadLines(h) \/ Query(h)
    PROVE  ViewInv' /\ Follows(disk, disk')
  <1>1. /\ Execute(work) \/ ExecuteFails(work, Contended(h))
        /\ UNCHANGED <<req, used>>
        /\ \E p \in (Steps \cup Outside) \ InTx :
              /\ pc' = [pc EXCEPT ![h] = p]
              /\ p = "insert" => work.status[req[h].uid] = "A"
    <2>1. CASE Check(h)
      <3>1. req[h].op \in Ops \ {"report"}
        BY <2>1, ViewKnown, CheckedRequest DEF Request
      <3> QED
        BY <2>1, <3>1 DEF Check, AfterCheck, Ops, Goto, Return, Steps, Outside, InTx
    <2>2. CASE ReadLines(h) \/ Query(h)
      BY <2>2 DEF ReadLines, Query, Goto, Return, Steps, Outside, InTx
    <2> QED
      BY <2>1, <2>2
  <1>2. Effect(work) /\ ConnInv'
    BY <1>1, ViewKnown, CallEffect, CallConn
  <1>3. PICK p \in (Steps \cup Outside) \ InTx :
              /\ pc' = [pc EXCEPT ![h] = p]
              /\ p = "insert" => work.status[req[h].uid] = "A"
    BY <1>1
  <1>4. ASSUME Listening'
        PROVE  Sees(p, req[h], disk', work', tx')
    <2>1. work' = work
      BY <1>1, <1>4, ViewKnown, LiveStatement
    <2> QED
      BY <1>3, <2>1 DEF Sees, InTx
  <1> QED
    BY <1>1, <1>2, <1>3, <1>4, ViewKnown, ReadLeaves, ViewMove

\* So do the statements of activateCard and registerConsumption.
LEMMA SaleView ==
    ASSUME View, NEW h \in Handlers, Activate(h) \/ Insert(h) \/ UpdateTotal(h)
    PROVE  ViewInv' /\ Follows(disk, disk')
  <1>1. PICK t \in {Activated(work, req[h].uid, req[h].phone),
                    Inserted(work, req[h].uid, req[h].line, req[h].product),
                    Totalled(work, req[h].uid)} :
            /\ Execute(t) \/ ExecuteFails(t, Contended(h))
            /\ UNCHANGED <<req, used>>
            /\ \E p \in {"reply", "total"} : pc' = [pc EXCEPT ![h] = p]
            /\ \/ /\ pc[h] = "activate"
                  /\ t = Activated(work, req[h].uid, req[h].phone)
               \/ /\ pc[h] = "insert"
                  /\ t = Inserted(work, req[h].uid, req[h].line, req[h].product)
               \/ /\ pc[h] = "total"
                  /\ t = Totalled(work, req[h].uid)
    BY DEF Activate, Insert, UpdateTotal, Goto, Return
  <1>2. /\ req[h].uid \in Cards /\ req[h].op \in {"activate", "register"}
        /\ pc[h] = "activate" => req[h].phone \in Phones
        /\ pc[h] = "insert" => req[h].line \in Lines /\ req[h].product \in Products
        /\ pc[h] = "insert" /\ Listening => work.status[req[h].uid] = "A"
    BY <1>1, ViewKnown DEF HandlerOK, Sees
  <1>3. /\ t \in Tables /\ Follows(work, t)
        /\ \A c \in Cards : work.status[c] = "A" => t.status[c] = "A"
    <2>1. t \in Tables /\ Follows(work, t)
      <3>1. work \in Tables /\ Clean(work)
        BY ViewKnown
      <3>2. CASE pc[h] = "activate" /\ t = Activated(work, req[h].uid, req[h].phone)
        BY <1>2, <3>1, <3>2, StatementTypes, StatementClean
      <3>3. CASE /\ pc[h] = "insert"
                 /\ t = Inserted(work, req[h].uid, req[h].line, req[h].product)
        BY <1>2, <3>1, <3>3, StatementTypes, StatementClean
      <3>4. CASE t = Totalled(work, req[h].uid)
        BY <1>2, <3>1, <3>4, StatementTypes, StatementClean
      <3> QED
        BY <1>1, <3>2, <3>3, <3>4
    <2>2. \A c \in Cards : work.status[c] = "A" => t.status[c] = "A"
      <3>1. work \in Tables
        BY ViewKnown
      <3>2. CASE t = Activated(work, req[h].uid, req[h].phone)
        BY <3>1, <3>2 DEF Activated, Tables
      <3>3. CASE t = Inserted(work, req[h].uid, req[h].line, req[h].product)
        BY <3>1, <3>3 DEF Inserted, Tables
      <3>4. CASE t = Totalled(work, req[h].uid)
        BY <3>1, <3>4 DEF Totalled, Tables
      <3> QED
        BY <1>1, <3>2, <3>3, <3>4
    <2> QED
      BY <2>1, <2>2
  <1>4. Follows(disk, t) /\ Effect(t) /\ ConnInv'
    BY <1>1, <1>3, ViewKnown, FollowsOn, CallEffect, CallConn
  <1>5. PICK p \in {"reply", "total"} : pc' = [pc EXCEPT ![h] = p]
    BY <1>1
  <1>6. CASE Listening
    <2>1. Clean(t)
      BY <1>1, <1>2, <1>6, ViewKnown, StatementClean
    <2>2. ASSUME Listening'
          PROVE  \A g \in Handlers \ {h} : Sees(pc[g], req[g], disk', work', tx')
      <3>1. \A c \in Cards : work.status[c] = "A" => work'.status[c] = "A"
        <4>1. work' \in {work, t}
          BY <1>1, <2>2, ViewKnown, LiveStatement
        <4> QED
          BY <1>3, <4>1
      <3> QED
        BY <1>2, <1>6, <3>1, SaleLeaves
    <2>3. Sees(p, req[h], disk', work', tx')
      BY DoneSees
    <2> QED
      BY <1>1, <1>3, <1>4, <1>5, <2>1, <2>2, <2>3, ViewMove
  <1>7. CASE ~Listening
    <2>1. Effect(work) /\ ~Listening'
      BY <1>1, <1>7, ViewKnown, DeadStatement
    <2> QED
      BY <1>1, <1>4, <1>5, <2>1, ViewKnown, ViewMove
  <1> QED
    BY <1>6, <1>7

\* So do BEGIN, COMMIT and ROLLBACK, whichever transaction they find open.
LEMMA TxView ==
    ASSUME View, NEW h \in Handlers, BeginClose(h) \/ CommitClose(h) \/ RollbackClose(h)
    PROVE  ViewInv' /\ Follows(disk, disk')
  <1>1. /\ req[h].op = "close"
        /\ \/ Begin \/ BeginFails(Contended(h)) \/ Commit \/ CommitFails(Contended(h))
           \/ Rollback(Contended(h))
        /\ UNCHANGED <<req, used>>
        /\ \E p \in {"aggregate", "reply"} : /\ pc' = [pc EXCEPT ![h] = p]
                                             /\ p = "aggregate" => Begin
    BY ViewKnown DEF BeginClose, CommitClose, RollbackClose, Goto, Return, HandlerOK, Closing
  <1>2. Effect(work) /\ ConnInv'
    BY <1>1, ViewKnown, CallEffect, CallConn
  <1>3. PICK p \in {"aggregate", "reply"} : /\ pc' = [pc EXCEPT ![h] = p]
                                            /\ p = "aggregate" => Begin
    BY <1>1
  <1>4. Sees(p, req[h], disk', work', tx')
    BY <1>3 DEF Begin, Acts, Sees, InTx
  <1> QED
    BY <1>1, <1>2, <1>3, <1>4, ViewKnown, CheckoutAlone, ViewMove

\* So do the three statements of closeCard's transaction: each is fit to be sent
\* because of what those before it have done.
LEMMA CheckoutView ==
    ASSUME View, NEW h \in Handlers, Aggregate(h) \/ Delete(h) \/ Deactivate(h)
    PROVE  ViewInv' /\ Follows(disk, disk')
  <1> DEFINE c == req[h].uid
  <1>1. PICK t \in {Aggregated(work, c), Deleted(work, c), Deactivated(work, c)}, q \in InTx :
            /\ Execute(t) \/ ExecuteFails(t, Contended(h))
            /\ UNCHANGED <<req, used>>
            /\ \E p \in {q, "rollback"} : /\ pc' = [pc EXCEPT ![h] = p]
                                          /\ p = q => Execute(t)
            /\ \/ t = Aggregated(work, c) /\ pc[h] = "aggregate" /\ q = "delete"
               \/ t = Deleted(work, c) /\ pc[h] = "delete" /\ q = "deactivate"
               \/ t = Deactivated(work, c) /\ pc[h] = "deactivate" /\ q = "commit"
    BY DEF Aggregate, Delete, Deactivate, Goto, GiveUp, InTx
  <1>2. c \in Cards /\ req[h].op = "close"
    BY <1>1, ViewKnown DEF HandlerOK, Closing
  <1>3. t \in Tables
    BY <1>1, <1>2, ViewKnown, StatementTypes
  <1>4. Effect(t) /\ ConnInv'
    BY <1>1, ViewKnown, CallEffect, CallConn
  <1>5. PICK p \in {q, "rollback"} : /\ pc' = [pc EXCEPT ![h] = p]
                                     /\ p = q => Execute(t)
    BY <1>1
  <1>6. CASE Listening
    <2>1. /\ tx = "open"
          /\ pc[h] = "delete" => \A l \in RowsOf(work, c) : disk.counted[l] < work.counted[l]
          /\ pc[h] = "deactivate" => RowsOf(work, c) = {}
      BY <1>1, <1>6, ViewKnown DEF Sees, InTx
    <2>2. Clean(t)
      BY <1>1, <1>2, <2>1, ViewKnown, StatementClean
    <2>3. Follows(disk, t)
      <3>1. CASE t = Aggregated(work, c) \/ t = Deactivated(work, c)
        BY <1>2, <1>3, <3>1, ViewKnown, StatementClean, FollowsOn
      <3>2. CASE t = Deleted(work, c) /\ pc[h] = "delete"
        <4>1. /\ t.counted = work.counted
              /\ t.row = [l \in Lines |-> IF work.row[l] = c THEN NoCard ELSE work.row[l]]
          BY <3>2, ViewKnown DEF Deleted, Tables
        <4> QED
          BY <2>1, <3>2, <4>1, ViewKnown DEF Follows, CountedIn, RowsOf
      <3> QED
        BY <1>1, <3>1, <3>2
    <2>4. ASSUME Listening'
          PROVE  Sees(p, req[h], disk', work', tx')
      <3>1. CASE p = "rollback"
        BY <3>1, DoneSees
      <3>2. CASE p = q /\ Execute(t)
        <4>1. work' = t /\ disk' = disk /\ tx' = "open"
          BY <2>1, <2>4, <3>2, ViewKnown, LiveStatement
        <4>2. CASE t = Aggregated(work, c) /\ q = "delete"
          <5>1. \A l \in RowsOf(t, c) : disk.counted[l] < t.counted[l]
            BY <4>2, ViewKnown DEF Aggregated, RowsOf, Follows, CountedIn, Tables
          <5> QED
            BY <3>2, <4>1, <4>2, <5>1 DEF Sees, InTx
        <4>3. CASE t = Deleted(work, c) /\ q = "deactivate"
          <5>1. RowsOf(t, c) = {}
            BY <1>2, <4>3, ViewKnown, CardsAssumption DEF Deleted, RowsOf, Tables
          <5> QED
            BY <3>2, <4>1, <4>3, <5>1 DEF Sees, InTx
        <4>4. CASE t = Deactivated(work, c) /\ pc[h] = "deactivate" /\ q = "commit"
          <5>1. t.row = work.row /\ t.status[c] = "D"
            BY <1>2, <4>4, ViewKnown DEF Deactivated, Tables
          <5>2. RowsOf(t, c) = {}
            BY <2>1, <4>4, <5>1 DEF RowsOf
          <5> QED
            BY <3>2, <4>1, <4>4, <5>1, <5>2 DEF Sees, InTx
        <4> QED
          BY <1>1, <4>2, <4>3, <4>4
      <3> QED
        BY <1>5, <3>1, <3>2
    <2> QED
      BY <1>1, <1>2, <1>3, <1>4, <1>5, <2>2, <2>3, <2>4, CheckoutAlone, ViewMove
  <1>7. CASE ~Listening
    <2>1. Effect(work) /\ ~Listening'
      BY <1>1, <1>7, ViewKnown, DeadStatement
    <2> QED
      BY <1>1, <1>4, <1>5, <2>1, ViewKnown, ViewMove
  <1> QED
    BY <1>6, <1>7

\* Taking a request and replying touch no table.
LEMMA OutsideView ==
    ASSUME Disciplined, View, NEW h \in Handlers,
           StartActivate(h) \/ StartRegister(h) \/ StartOther(h) \/ Reply(h)
    PROVE  ViewInv' /\ Follows(disk, disk')
  <1>1. /\ disk' = disk /\ work' = work /\ tx' = tx /\ link' = link
        /\ \E p \in {"reply", "query", "check", "idle"} : pc' = [pc EXCEPT ![h] = p]
        /\ \E r : req' = [req EXCEPT ![h] = r]
    <2>1. CASE StartActivate(h) \/ StartRegister(h) \/ StartOther(h)
      <3>1. PICK r : Start(h, r)
        BY <2>1 DEF StartActivate, StartRegister, StartOther
      <3> QED
        BY <3>1, StartStep DEF Start, db
    <2>2. CASE Reply(h)
      BY <2>2 DEF Reply, db
    <2> QED
      BY <2>1, <2>2
  <1>2. Apart'
    <2>1. CASE StartActivate(h) \/ StartRegister(h) \/ StartOther(h)
      BY <2>1, ViewKnown, RequestStarts, StartApart
    <2>2. CASE Reply(h)
      <3>1. /\ req' = [g \in Handlers |-> IF g \in {h} THEN NoRequest ELSE req[g]]
            /\ UNCHANGED used
        BY <2>2, ViewKnown DEF Reply, LocalOK
      <3> QED
        BY <3>1, ViewKnown, FewerApart
    <2> QED
      BY <2>1, <2>2
  <1>3. pc \in [Handlers -> Steps \cup Outside] /\ req \in [Handlers -> Request \cup {NoRequest}]
    BY ViewKnown DEF LocalOK
  <1>4. PICK p \in {"reply", "query", "check", "idle"} : pc' = [pc EXCEPT ![h] = p]
    BY <1>1
  <1>5. ASSUME Listening', NEW g \in Handlers
        PROVE  Sees(pc'[g], req'[g], disk', work', tx')
    <2>1. CASE g = h
      BY <1>3, <1>4, <2>1, DoneSees
    <2>2. CASE g # h
      BY <1>1, <1>3, <1>5, <2>2, ViewKnown DEF Listening
    <2> QED
      BY <2>1, <2>2
  <1>6. Follows(disk, disk)
    BY ViewKnown DEF Follows, CountedIn, Tables
  <1> QED
    BY <1>1, <1>2, <1>5, <1>6, ViewKnown
       DEF ViewInv, ConnInv, Clean, RowsOf, Follows, CountedIn, Sees

\* Every step keeps the view, and what it commits is later than what was committed.
LEMMA StepView ==
    ASSUME Disciplined, View, [Next]_vars
    PROVE  View' /\ Follows(disk, disk')
  <1>1. TypeInv'
    BY StepTypes DEF View
  <1>2. CASE Restart
    <2>1. /\ disk' = disk /\ work' = disk' /\ used' = used
          /\ pc' = [h \in Handlers |-> "idle"]
          /\ req' = [h \in Handlers |-> IF h \in Handlers THEN NoRequest ELSE req[h]]
      BY <1>2 DEF Restart, Reconnect
    <2>2. ConnInv' /\ Clean(disk) /\ Follows(disk, disk)
      BY <2>1 DEF View, ViewInv, ConnInv, Follows, CountedIn, TypeInv, TypeOK, Tables
    <2>3. Apart'
      BY <2>1, TypeInvParts, FewerApart DEF View, ViewInv
    <2>4. \A h \in Handlers : Sees(pc'[h], req'[h], disk', work', tx')
      BY <2>1, DoneSees
    <2> QED
      BY <1>1, <2>1, <2>2, <2>3, <2>4 DEF View, ViewInv, Clean, RowsOf, Follows, CountedIn, Sees
  <1>3. CASE UNCHANGED vars
    <2>1. /\ disk' = disk /\ work' = work /\ tx' = tx /\ link' = link /\ used' = used
          /\ req' = req /\ pc' = pc
      BY <1>3 DEF vars, handling, db
    <2>2. Follows(disk, disk)
      BY DEF View, TypeInv, TypeOK, Follows, CountedIn, Tables
    <2> QED
      BY <1>1, <2>1, <2>2 DEF View, ViewInv, ConnInv, Apart, Clash, Clean, RowsOf, Follows,
         CountedIn, Listening, Sees
  <1>4. ASSUME NEW h \in Handlers, Handle(h)
        PROVE  ViewInv' /\ Follows(disk, disk')
    BY <1>4, OutsideView, ReadView, SaleView, TxView, CheckoutView DEF Handle
  <1> QED
    BY <1>1, <1>2, <1>3, <1>4 DEF Next, View

\* The inductive invariant of this section.
LEMMA ViewInvariant ==
    ASSUME Disciplined
    PROVE  Spec => []View
  <1>1. Init => ViewInv
    <2> SUFFICES ASSUME Init PROVE ViewInv
      OBVIOUS
    <2>1. Clean(EmptyTables) /\ Follows(EmptyTables, EmptyTables)
      BY CardsAssumption DEF EmptyTables, Clean, RowsOf, Follows, CountedIn
    <2>2. Apart /\ \A h \in Handlers : Sees(pc[h], req[h], disk, work, tx)
      BY DoneSees DEF Init, Apart, Clash, NoRequest, Writing
    <2> QED
      BY <2>1, <2>2 DEF Init, Connect, ViewInv, ConnInv
  <1>2. View /\ [Next]_vars => View'
    BY StepView
  <1> QED
    BY <1>1, <1>2, Typing, PTL DEF Spec, View

\* A card that is inactive carries no line, amount or phone over to its next
\* customer, whatever fails or races.
THEOREM InactiveIsCleanWhenDisciplined ==
    ASSUME Disciplined
    PROVE  Spec => []InactiveIsClean
  <1>1. View => InactiveIsClean
    BY DEF View, ViewInv, Clean, InactiveIsClean
  <1> QED
    BY <1>1, ViewInvariant, PTL

\* No line leaves a card without being added to producttotals in the same commit,
\* whatever fails or races.
THEOREM NoLineVanishesWhenDisciplined ==
    ASSUME Disciplined
    PROVE  Spec => NoLineVanishes
  <1>1. View /\ [Next]_vars => \A l \in Lines : disk.row[l] # NoCard /\ disk'.row[l] = NoCard
                                  => disk.counted[l] < disk'.counted[l]
    BY StepView DEF Follows
  <1> QED
    BY <1>1, ViewInvariant, PTL DEF Spec, NoLineVanishes

\* An ok that closeCard returns is true: its COMMIT settled the card, unless a failed
\* statement had aborted the transaction, which COMMIT does not report.
LEMMA CommitSettles ==
    ASSUME View, [Next]_vars, NEW h \in Handlers,
           pc[h] = "commit", pc'[h] = "reply", result'[h] = "Ok", tx # "aborted"
    PROVE  disk'.status[req[h].uid] = "D" /\ RowsOf(disk', req[h].uid) = {}
  <1>1. Commit
    <2>1. ~Restart /\ ~UNCHANGED vars
      BY DEF Restart, vars, handling
    <2>2. ASSUME NEW g \in Handlers, Handle(g)
          PROVE  CommitClose(h)
      <3>1. g = h
        BY <2>2, OthersKeep DEF View
      <3> QED
        BY <2>2, <3>1 DEF Handle, StartActivate, StartRegister, StartOther, Start,
           Query, Check, Activate, Insert, UpdateTotal, BeginClose, Aggregate, Delete,
           Deactivate, RollbackClose, ReadLines, Reply, Outside
    <2>3. CommitClose(h)
      BY <2>1, <2>2 DEF Next
    <2>4. ~Return(h, "TxError")
      BY ViewKnown DEF Return, LocalOK
    <2> QED
      BY <2>3, <2>4 DEF CommitClose
  <1>2. /\ tx = "open"
        /\ work.status[req[h].uid] = "D" /\ RowsOf(work, req[h].uid) = {}
    BY <1>1, ViewKnown DEF Commit, Acts, Listening, Sees, InTx
  <1>3. disk' = work
    BY <1>1, <1>2 DEF Commit, Acts, Outcome
  <1> QED
    BY <1>2, <1>3

\* The ok of close_card, for every closeCard whose transaction no failed statement aborted.
THEOREM CheckoutCommitsWhenDisciplined ==
    ASSUME Disciplined
    PROVE  Spec => CheckoutCommits
  <1>1. View /\ [Next]_vars =>
          \A h \in Handlers :
            pc[h] = "commit" /\ pc'[h] = "reply" /\ result'[h] = "Ok" /\ tx # "aborted"
            => disk'.status[req[h].uid] = "D" /\ RowsOf(disk', req[h].uid) = {}
    BY CommitSettles
  <1> QED
    BY <1>1, ViewInvariant, PTL DEF Spec, CheckoutCommits

\* Only activateCard, registerConsumption and closeCard change the committed tables.
LEMMA OnlyWritersWrite ==
    ASSUME View, NEW h \in Handlers, Handle(h), req[h].op \notin Writing
    PROVE  disk' = disk
  <1>1. CASE StartActivate(h) \/ StartRegister(h) \/ StartOther(h) \/ Reply(h)
    BY <1>1 DEF StartActivate, StartRegister, StartOther, Start, Reply, db
  <1>2. CASE Query(h) \/ Check(h) \/ ReadLines(h)
    <2>1. Execute(work) \/ ExecuteFails(work, Contended(h))
      BY <1>2 DEF Query, Check, ReadLines
    <2> QED
      BY <2>1, ViewKnown, SelectKeepsDisk
  <1>3. ~(\/ Activate(h) \/ Insert(h) \/ UpdateTotal(h) \/ BeginClose(h) \/ Aggregate(h)
          \/ Delete(h) \/ Deactivate(h) \/ CommitClose(h) \/ RollbackClose(h))
    BY ViewKnown DEF HandlerOK, Closing, Writing, Activate, Insert, UpdateTotal, BeginClose,
       Aggregate, Delete, Deactivate, CommitClose, RollbackClose
  <1> QED
    BY <1>1, <1>2, <1>3 DEF Handle

\* Nothing aborts a transaction but a statement that the server rejects.
LEMMA NothingAborts ==
    ASSUME "error" \notin Faults, tx # "aborted", [Next]_vars
    PROVE  tx' # "aborted"
  <1>1. ASSUME NEW h \in Handlers,
               \/ StartActivate(h) \/ StartRegister(h) \/ StartOther(h) \/ Reply(h)
        PROVE  tx' # "aborted"
    BY <1>1 DEF StartActivate, StartRegister, StartOther, Start, Reply, db
  <1>2. ASSUME NEW h \in Handlers, NEW t, Execute(t) \/ ExecuteFails(t, Contended(h))
        PROVE  tx' # "aborted"
    BY <1>2 DEF Execute, ExecuteFails, Acts, Rejected, Dropped, Raced, OnDeadLink, db
  <1>3. ASSUME NEW h \in Handlers, BeginClose(h) \/ CommitClose(h) \/ RollbackClose(h)
        PROVE  tx' # "aborted"
    BY <1>3 DEF BeginClose, CommitClose, RollbackClose, Begin, BeginFails, Commit,
       CommitFails, Rollback, Acts, Dropped, Raced, OnDeadLink, db
  <1>4. CASE Restart \/ UNCHANGED vars
    BY <1>4 DEF Restart, Reconnect, vars, db
  <1> QED
    BY <1>1, <1>2, <1>3, <1>4 DEF Next, Handle, Query, Check, Activate, Insert,
       UpdateTotal, Aggregate, Delete, Deactivate, ReadLines

\* A handler at step p with request r and result x, about to reply ok to close_card,
\* finds the card closed in tables t.
ClosedIn(p, r, x, t) ==
    p = "reply" /\ r.op = "close" /\ x = "Ok" => t.status[r.uid] = "D" /\ RowsOf(t, r.uid) = {}

CloseInv ==
    /\ tx # "aborted"
    /\ \A h \in Handlers : pc[h] = "rollback" => result[h] # "Ok"
    /\ \A h \in Handlers : ClosedIn(pc[h], req[h], result[h], disk)

\* The handler that takes a step: only its own COMMIT lets closeCard return Ok.
LEMMA CloseOwnStep ==
    ASSUME View, CloseInv, NEW h \in Handlers, Handle(h)
    PROVE  /\ pc'[h] = "rollback" => result'[h] # "Ok"
           /\ ClosedIn(pc'[h], req'[h], result'[h], disk')
  <1>0. /\ pc \in [Handlers -> Steps \cup Outside]
        /\ req \in [Handlers -> Request \cup {NoRequest}]
        /\ result \in [Handlers -> Results]
        /\ HandlerOK(pc[h], req[h])
    BY ViewKnown DEF LocalOK
  <1>1. CASE StartActivate(h) \/ StartRegister(h) \/ StartOther(h)
    <2>1. PICK r : Start(h, r)
      BY <1>1 DEF StartActivate, StartRegister, StartOther
    <2>2. pc'[h] # "rollback" /\ (pc'[h] = "reply" => result'[h] # "Ok")
      BY <1>0, <2>1 DEF Start
    <2> QED
      BY <2>2 DEF ClosedIn
  <1>2. CASE Check(h)
    <2>1. req[h].op \in Ops \ {"report"}
      BY <1>2, ViewKnown, CheckedRequest DEF Request
    <2>2. pc'[h] # "rollback" /\ (pc'[h] = "reply" => result'[h] # "Ok")
      BY <1>0, <1>2, <2>1 DEF Check, AfterCheck, Goto, Return, Ops
    <2> QED
      BY <2>2 DEF ClosedIn
  <1>3. CASE Query(h) \/ Activate(h) \/ Insert(h) \/ UpdateTotal(h) \/ ReadLines(h)
    <2>1. req[h].op # "close" /\ req' = req
      BY <1>0, <1>3 DEF Query, Activate, Insert, UpdateTotal, ReadLines, Goto, Return, HandlerOK
    <2>2. pc'[h] # "rollback"
      BY <1>0, <1>3 DEF Query, Activate, Insert, UpdateTotal, ReadLines, Goto, Return
    <2> QED
      BY <2>1, <2>2 DEF ClosedIn
  <1>4. CASE BeginClose(h) \/ Aggregate(h) \/ Delete(h) \/ Deactivate(h)
    <2>1. /\ pc'[h] = "rollback" => result'[h] # "Ok"
          /\ pc'[h] = "reply" => result'[h] # "Ok"
      BY <1>0, <1>4 DEF BeginClose, Aggregate, Delete, Deactivate, Goto, Return, GiveUp
    <2> QED
      BY <2>1 DEF ClosedIn
  <1>5. CASE CommitClose(h)
    <2>1. pc[h] = "commit" /\ pc'[h] = "reply" /\ req'[h] = req[h]
      BY <1>0, <1>5 DEF CommitClose, Return
    <2>2. result'[h] = "Ok" => disk'.status[req[h].uid] = "D" /\ RowsOf(disk', req[h].uid) = {}
      BY <2>1, CommitSettles DEF CloseInv, Next
    <2> QED
      BY <2>1, <2>2 DEF ClosedIn
  <1>6. CASE RollbackClose(h)
    BY <1>0, <1>6 DEF RollbackClose, Goto, CloseInv, ClosedIn
  <1>7. CASE Reply(h)
    BY <1>0, <1>7 DEF Reply, ClosedIn
  <1> QED
    BY <1>1, <1>2, <1>3, <1>4, <1>5, <1>6, <1>7 DEF Handle

\* Where no statement is rejected the checkout signal is true: the card is closed on
\* disk and stays so until the reply is out.  What makes it lie is thus a rejected
\* statement and nothing else: no lost connection, no restart and no race inside libpq does.
THEOREM CheckoutIsDurableWithoutRejection ==
    ASSUME "error" \notin Faults, Disciplined
    PROVE  Spec => []CheckoutIsDurable
  <1>1. Init => CloseInv
    BY DEF Init, Connect, CloseInv, ClosedIn
  <1>2. View /\ CloseInv /\ [Next]_vars => CloseInv'
    <2> SUFFICES ASSUME View, CloseInv, [Next]_vars PROVE CloseInv'
      OBVIOUS
    <2>1. tx' # "aborted"
      BY NothingAborts DEF CloseInv
    <2>2. CASE Restart
      BY <2>1, <2>2 DEF Restart, CloseInv, ClosedIn
    <2>3. CASE UNCHANGED vars
      BY <2>1, <2>3 DEF vars, db, handling, CloseInv, ClosedIn
    <2>4. ASSUME NEW g \in Handlers, Handle(g)
          PROVE  CloseInv'
      <3>1. ASSUME NEW h \in Handlers, h # g
            PROVE  /\ pc'[h] = "rollback" => result'[h] # "Ok"
                   /\ ClosedIn(pc'[h], req'[h], result'[h], disk')
        <4>1. pc'[h] = pc[h] /\ req'[h] = req[h] /\ result'[h] = result[h]
          BY <2>4, <3>1, OthersKeep DEF View
        <4>2. req[h].op = "close" => req[g].op \notin Writing
          BY <3>1 DEF View, ViewInv, Apart, Clash, Writing
        <4>3. req[h].op = "close" => disk' = disk
          BY <2>4, <4>2, OnlyWritersWrite
        <4> QED
          BY <4>1, <4>3 DEF CloseInv, ClosedIn
      <3> QED
        BY <2>1, <2>4, <3>1, CloseOwnStep DEF CloseInv, ClosedIn
    <2> QED
      BY <2>2, <2>3, <2>4 DEF Next
  <1>3. CloseInv => CheckoutIsDurable
    BY DEF CloseInv, ClosedIn, CheckoutIsDurable, FeedbackFor
  <1> QED
    BY <1>1, <1>2, <1>3, ViewInvariant, PTL DEF Spec

-----------------------------------------------------------------------------
(* What holds when no two threads are inside libpq at once.                *)

\* A broken connection has no transaction, and an open one has a closeCard that
\* will end it.
TxInv ==
    /\ ~link => tx = "idle"
    /\ tx # "idle" => \E h \in Handlers : pc[h] \in Closing

\* Only BEGIN opens a transaction; the other calls keep or end it.
LEMMA CallTx ==
    ASSUME "race" \notin Faults, DbOK, ~link => tx = "idle",
           NEW t, NEW b \in BOOLEAN,
           \/ Execute(t) \/ ExecuteFails(t, b)
           \/ BeginFails(b)
           \/ Commit \/ CommitFails(b)
           \/ Rollback(b)
           \/ Reconnect
    PROVE  /\ ~link' => tx' = "idle"
           /\ tx' # "idle" => tx # "idle"
           /\ Commit \/ CommitFails(b) \/ Rollback(b) => tx' = "idle"
  <1>1. CASE Execute(t) \/ ExecuteFails(t, b)
    <2>1. ~(Commit \/ CommitFails(b) \/ Rollback(b)) \/ tx' = "idle"
      BY <1>1 DEF Commit, CommitFails, Rollback, Acts, Dropped, Raced, OnDeadLink, db, DbOK
    <2> QED
      BY <1>1, <2>1 DEF DbOK, Execute, ExecuteFails, Acts, Rejected, Dropped, Raced,
                        OnDeadLink, db
  <1>2. CASE BeginFails(b)
    <2>1. ~(Commit \/ CommitFails(b) \/ Rollback(b)) \/ tx' = "idle"
      BY <1>2 DEF Commit, CommitFails, Rollback, Acts, Dropped, Raced, OnDeadLink, db, DbOK
    <2> QED
      BY <1>2, <2>1 DEF DbOK, BeginFails, Acts, Dropped, Raced, OnDeadLink, db
  <1>3. CASE Commit \/ CommitFails(b) \/ Rollback(b)
    BY <1>3 DEF DbOK, Commit, CommitFails, Rollback, Acts, Dropped, Raced, OnDeadLink, db
  <1>4. CASE Reconnect
    BY <1>4 DEF Reconnect
  <1> QED
    BY <1>1, <1>2, <1>3, <1>4

\* Every step keeps the link between an open transaction and a closeCard.
LEMMA StepTx ==
    ASSUME "race" \notin Faults, TypeInv, TxInv, [Next]_vars
    PROVE  TxInv'
  <1>0. DbOK /\ LocalOK /\ pc \in [Handlers -> Steps \cup Outside]
    BY TypeInvParts DEF LocalOK
  <1>1. ASSUME NEW h \in Handlers,
               \/ StartActivate(h) \/ StartRegister(h) \/ StartOther(h) \/ Reply(h)
        PROVE  TxInv'
    <2>1. UNCHANGED db
      BY <1>1 DEF StartActivate, StartRegister, StartOther, Start, Reply
    <2>2. \A g \in Handlers : pc[g] \in Closing => pc'[g] = pc[g]
      <3>1. pc[h] \notin Closing /\ \E p : pc' = [pc EXCEPT ![h] = p]
        BY <1>1 DEF StartActivate, StartRegister, StartOther, Start, Reply, Closing, Outside
      <3> QED
        BY <1>0, <3>1
    <2> QED
      BY <2>1, <2>2 DEF TxInv, db
  \* A call that leaves the caller where it was with respect to Closing.
  <1>2. ASSUME NEW h \in Handlers, NEW t,
               \/ Execute(t) \/ ExecuteFails(t, Contended(h)) \/ BeginFails(Contended(h)),
               \A g \in Handlers : pc[g] \in Closing => pc'[g] \in Closing
        PROVE  TxInv'
    <2>1. Contended(h) \in BOOLEAN
      BY DEF Contended
    <2> QED
      BY <1>0, <1>2, <2>1, CallTx DEF TxInv
  <1>3. ASSUME NEW h \in Handlers, Check(h) \/ Activate(h) \/ Insert(h) \/ UpdateTotal(h)
                                   \/ ReadLines(h) \/ Query(h)
        PROVE  TxInv'
    <2>1. pc[h] \notin Closing /\ \E p : pc' = [pc EXCEPT ![h] = p]
      <3>1. CASE Check(h)
        <4>1. pc[h] = "check" /\ req[h].op \in Ops \ {"report"}
          BY <1>0, <3>1, CheckedRequest DEF Request
        <4> QED
          BY <3>1, <4>1 DEF Check, AfterCheck, Goto, Return, Closing, Ops
      <3>2. CASE Activate(h) \/ Insert(h) \/ UpdateTotal(h) \/ ReadLines(h) \/ Query(h)
        BY <3>2 DEF Activate, Insert, UpdateTotal, ReadLines, Query, Goto, Return, Closing
      <3> QED
        BY <1>3, <3>1, <3>2
    <2>2. \A g \in Handlers : pc[g] \in Closing => pc'[g] \in Closing
      BY <1>0, <2>1
    <2>3. \E t : Execute(t) \/ ExecuteFails(t, Contended(h))
      BY <1>3 DEF Check, Activate, Insert, UpdateTotal, ReadLines, Query
    <2> QED
      BY <1>2, <2>2, <2>3
  <1>4. ASSUME NEW h \in Handlers, Aggregate(h) \/ Delete(h) \/ Deactivate(h)
        PROVE  TxInv'
    <2>1. \E p \in Closing : pc' = [pc EXCEPT ![h] = p]
      BY <1>4 DEF Aggregate, Delete, Deactivate, Goto, GiveUp, Closing
    <2>2. \A g \in Handlers : pc[g] \in Closing => pc'[g] \in Closing
      BY <1>0, <2>1
    <2>3. \E t : Execute(t) \/ ExecuteFails(t, Contended(h))
      BY <1>4 DEF Aggregate, Delete, Deactivate
    <2> QED
      BY <1>2, <2>2, <2>3
  <1>5. ASSUME NEW h \in Handlers, BeginClose(h)
        PROVE  TxInv'
    <2>1. CASE Begin /\ Goto(h, "aggregate")
      <3>1. pc'[h] \in Closing
        BY <1>0, <2>1 DEF Goto, Closing
      <3> QED
        BY <2>1, <3>1 DEF Begin, Acts, TxInv
    <2>2. CASE BeginFails(Contended(h)) /\ Return(h, "TxError")
      <3>1. \A g \in Handlers : pc[g] \in Closing => pc'[g] \in Closing
        BY <1>0, <1>5, <2>2 DEF BeginClose, Return, Closing
      <3> QED
        BY <1>2, <2>2, <3>1
    <2> QED
      BY <1>5, <2>1, <2>2 DEF BeginClose
  <1>6. ASSUME NEW h \in Handlers, CommitClose(h) \/ RollbackClose(h)
        PROVE  TxInv'
    <2>1. Contended(h) \in BOOLEAN
      BY DEF Contended
    <2>2. Commit \/ CommitFails(Contended(h)) \/ Rollback(Contended(h))
      BY <1>6 DEF CommitClose, RollbackClose
    <2>3. tx' = "idle"
      BY <1>0, <2>1, <2>2, CallTx DEF TxInv
    <2> QED
      BY <2>3 DEF TxInv
  <1>7. CASE Restart
    BY <1>7 DEF Restart, Reconnect, TxInv
  <1>8. CASE UNCHANGED vars
    BY <1>8 DEF vars, handling, db, TxInv
  <1> QED
    BY <1>1, <1>3, <1>4, <1>5, <1>6, <1>7, <1>8 DEF Next, Handle

\* Whatever fails and however the handlers interleave, a transaction is open only
\* while a closeCard is on its way to COMMIT or ROLLBACK.
THEOREM NoOrphanWithoutRace ==
    ASSUME "race" \notin Faults
    PROVE  Spec => []NoOrphanTransaction
  <1>1. Init => TxInv
    BY DEF Init, Connect, TxInv
  <1>2. TypeInv /\ TxInv /\ [Next]_vars => TxInv'
    BY StepTx
  <1>3. TxInv => NoOrphanTransaction
    BY DEF TxInv, NoOrphanTransaction, Closing
  <1> QED
    BY <1>1, <1>2, <1>3, Typing, PTL DEF Spec

-----------------------------------------------------------------------------
(* What holds when, besides, the terminals are disciplined as above: then  *)
(* the committed tables change by whole operations.  Any number of         *)
(* activations, registrations and readers may interleave, registrations on *)
(* one card and readers of a checkout included, and every call of each may *)
(* fail, lose the connection, or be the last before a restart.             *)

Fresh(t, l) == t.row[l] = NoCard /\ t.counted[l] = 0

\* The tables between two writing requests.
DiskOK(t) ==
    /\ \A l \in Lines : t.counted[l] <= 1 /\ (t.row[l] # NoCard => t.counted[l] = 0)
    /\ Clean(t)
    /\ \A c \in Cards : t.total[c] \subseteq RowsOf(t, c)

\* All that closeCard does, at once.
Settled(t, c) == Deactivated(Deleted(Aggregated(t, c), c), c)

\* The ways the committed tables may change.
Change(t, u) ==
    \/ u = t
    \/ \E c \in Cards :
         \/ t.status[c] = "D" /\ \E p \in Phones : u = Activated(t, c, p)
         \/ t.status[c] = "A" /\ \E l \in used, p \in Products :
                                   Fresh(t, l) /\ u = Inserted(t, c, l, p)
         \/ t.status[c] = "A" /\ u = Totalled(t, c)
         \/ t.status[c] = "A" /\ u = Settled(t, c)

\* What the three statements of a checkout come to, column by column.
LEMMA SettledTables ==
    ASSUME NEW t \in Tables, NEW c \in Cards
    PROVE  /\ Settled(t, c) \in Tables
           /\ Settled(t, c).status = [t.status EXCEPT ![c] = "D"]
           /\ Settled(t, c).phone = [t.phone EXCEPT ![c] = NoPhone]
           /\ Settled(t, c).total = [t.total EXCEPT ![c] = {}]
           /\ Settled(t, c).row = [l \in Lines |-> IF t.row[l] = c THEN NoCard ELSE t.row[l]]
           /\ Settled(t, c).counted =
                [l \in Lines |-> IF t.row[l] = c THEN t.counted[l] + 1 ELSE t.counted[l]]
  <1> DEFINE a == Aggregated(t, c)
             d == Deleted(a, c)
  <1>1. /\ a \in Tables /\ a.status = t.status /\ a.phone = t.phone /\ a.total = t.total
        /\ a.row = t.row
        /\ a.counted =
             [l \in Lines |-> IF t.row[l] = c THEN t.counted[l] + 1 ELSE t.counted[l]]
    BY StatementTypes DEF Aggregated, Tables
  <1>2. /\ d \in Tables /\ d.status = a.status /\ d.phone = a.phone /\ d.total = a.total
        /\ d.row = [l \in Lines |-> IF a.row[l] = c THEN NoCard ELSE a.row[l]]
        /\ d.counted = a.counted
    <2> HIDE DEF a
    <2> QED
      BY <1>1, StatementTypes DEF Deleted, Tables
  <1>3. /\ Deactivated(d, c) \in Tables
        /\ Deactivated(d, c).status = [d.status EXCEPT ![c] = "D"]
        /\ Deactivated(d, c).phone = [d.phone EXCEPT ![c] = NoPhone]
        /\ Deactivated(d, c).total = [d.total EXCEPT ![c] = {}]
        /\ Deactivated(d, c).row = d.row
        /\ Deactivated(d, c).counted = d.counted
    <2> HIDE DEF d
    <2> QED
      BY <1>2, StatementTypes DEF Deactivated, Tables
  <1>4. Settled(t, c) = Deactivated(d, c)
    BY DEF Settled
  <1> HIDE DEF a, d
  <1> QED
    BY <1>1, <1>2, <1>3, <1>4

\* Every change of the committed tables preserves DiskOK.
LEMMA ChangeKeepsDiskOK ==
    ASSUME NEW t \in Tables, NEW u \in Tables, DiskOK(t), used \subseteq Lines, Change(t, u)
    PROVE  DiskOK(u)
  <1>1. ASSUME NEW c \in Cards, NEW p \in Phones, t.status[c] = "D", u = Activated(t, c, p)
        PROVE  DiskOK(u)
    BY <1>1 DEF Activated, DiskOK, Clean, RowsOf, Tables
  <1>2. ASSUME NEW c \in Cards, NEW l \in Lines, NEW p \in Products, t.status[c] = "A",
               Fresh(t, l), u = Inserted(t, c, l, p)
        PROVE  DiskOK(u)
    <2>1. CASE p \notin Catalog
      BY <1>2, <2>1 DEF Inserted
    <2>2. CASE p \in Catalog
      <3>1. /\ u.status = t.status /\ u.phone = t.phone /\ u.total = t.total
            /\ u.counted = t.counted /\ u.row = [t.row EXCEPT ![l] = c]
        BY <1>2, <2>2 DEF Inserted, Tables
      <3>2. \A b \in Cards : RowsOf(u, b) = IF b = c THEN RowsOf(t, b) \cup {l}
                                                   ELSE RowsOf(t, b)
        BY <1>2, <3>1, CardsAssumption DEF RowsOf, Fresh, Tables
      <3> QED
        BY <1>2, <3>1, <3>2 DEF DiskOK, Clean, Fresh, Tables
    <2> QED
      BY <2>1, <2>2
  <1>3. ASSUME NEW c \in Cards, t.status[c] = "A", u = Totalled(t, c)
        PROVE  DiskOK(u)
    <2>1. /\ u.status = t.status /\ u.phone = t.phone /\ u.row = t.row
          /\ u.counted = t.counted /\ u.total = [t.total EXCEPT ![c] = RowsOf(t, c)]
      BY <1>3 DEF Totalled, Tables
    <2>2. \A b \in Cards : RowsOf(u, b) = RowsOf(t, b)
      BY <2>1 DEF RowsOf
    <2> QED
      BY <1>3, <2>1, <2>2 DEF DiskOK, Clean, Tables
  <1>4. ASSUME NEW c \in Cards, t.status[c] = "A", u = Settled(t, c)
        PROVE  DiskOK(u)
    <2>0. /\ u.status = [t.status EXCEPT ![c] = "D"]
          /\ u.phone = [t.phone EXCEPT ![c] = NoPhone]
          /\ u.total = [t.total EXCEPT ![c] = {}]
          /\ u.row = [l \in Lines |-> IF t.row[l] = c THEN NoCard ELSE t.row[l]]
          /\ u.counted = [l \in Lines |-> IF t.row[l] = c THEN t.counted[l] + 1 ELSE t.counted[l]]
      BY <1>4, SettledTables
    <2>1. \A b \in Cards : RowsOf(u, b) = IF b = c THEN {} ELSE RowsOf(t, b)
      BY <2>0, CardsAssumption DEF RowsOf, Tables
    <2>2. \A l \in Lines : u.counted[l] <= 1 /\ (u.row[l] # NoCard => u.counted[l] = 0)
      BY <2>0, CardsAssumption DEF DiskOK, Clean, Tables
    <2> QED
      BY <2>0, <2>1, <2>2 DEF DiskOK, Clean, Tables
  <1> QED
    BY <1>1, <1>2, <1>3, <1>4 DEF Change

\* Nor does a change touch a line nobody has asked for.
LEMMA ChangeKeepsFresh ==
    ASSUME NEW t \in Tables, NEW u \in Tables, used \subseteq Lines, Change(t, u),
           NEW l \in Lines \ used, Fresh(t, l)
    PROVE  Fresh(u, l)
  <1>1. ASSUME NEW c \in Cards, NEW p \in Phones, u = Activated(t, c, p)
        PROVE  Fresh(u, l)
    BY <1>1 DEF Activated, Fresh, Tables
  <1>2. ASSUME NEW c \in Cards, NEW k \in used, NEW p \in Products,
               u = Inserted(t, c, k, p)
        PROVE  Fresh(u, l)
    BY <1>2 DEF Inserted, Fresh, Tables
  <1>3. ASSUME NEW c \in Cards, u = Totalled(t, c)
        PROVE  Fresh(u, l)
    BY <1>3 DEF Totalled, Fresh, Tables
  <1>4. ASSUME NEW c \in Cards, u = Settled(t, c)
        PROVE  Fresh(u, l)
    <2>1. /\ u.row = [k \in Lines |-> IF t.row[k] = c THEN NoCard ELSE t.row[k]]
          /\ u.counted = [k \in Lines |-> IF t.row[k] = c THEN t.counted[k] + 1
                                                         ELSE t.counted[k]]
      BY <1>4, SettledTables
    <2> QED
      BY <2>1, CardsAssumption DEF Fresh, Tables
  <1> QED
    BY <1>1, <1>2, <1>3, <1>4 DEF Change

\* The tables of closeCard's transaction when its next statement is p.
Pending(p, d, c) ==
    CASE p = "aggregate"  -> d
      [] p = "delete"     -> Aggregated(d, c)
      [] p = "deactivate" -> Deleted(Aggregated(d, c), c)
      [] p = "commit"     -> Settled(d, c)

\* What a writing handler at step p with request r relies on, for committed
\* tables d, visible tables w, transaction status x and link k.
WriterOK(p, r, d, w, x, k) ==
    /\ p = "activate" => d.status[r.uid] = "D"
    /\ p \in {"insert", "total", "begin"} \cup InTx => d.status[r.uid] = "A"
    /\ r.op = "register" /\ p \in {"check", "insert"} => r.line \in used /\ Fresh(d, r.line)
    /\ p = "total" /\ r.product \in Catalog => d.row[r.line] = r.uid
    /\ p \in InTx => /\ k => x # "idle"
                     /\ x = "open" => w = Pending(p, d, r.uid)

StoreInv ==
    /\ ConnInv
    /\ Apart
    /\ DiskOK(disk)
    /\ \A l \in Lines \ used : Fresh(disk, l)
    /\ \A h \in Handlers : WriterOK(pc[h], req[h], disk, work, tx, link)

Inv == TypeInv /\ TxInv /\ StoreInv

\* A handler that does not write relies on nothing.
LEMMA ReaderRelies ==
    ASSUME NEW p, NEW r, HandlerOK(p, r), r.op \notin Writing,
           NEW d, NEW w, NEW x, NEW k
    PROVE  WriterOK(p, r, d, w, x, k)
  BY DEF HandlerOK, WriterOK, Writing, InTx, Closing

\* A step of h takes away nothing the other handlers rely on.
Spares(h) == \A g \in Handlers \ {h} : WriterOK(pc[g], req[g], disk', work', tx', link')

\* A checkout has nobody to spare: no other handler writes.
LEMMA CheckoutSpares ==
    ASSUME Inv, NEW h \in Handlers, req[h].op = "close"
    PROVE  Spares(h)
  <1> SUFFICES ASSUME NEW g \in Handlers, g # h
               PROVE  WriterOK(pc[g], req[g], disk', work', tx', link')
    BY DEF Spares
  <1>1. HandlerOK(pc[g], req[g])
    BY DEF Inv, TypeInv
  <1>2. req[g].op \notin Writing
    BY DEF Inv, StoreInv, Apart, Clash, Writing
  <1> QED
    BY <1>1, <1>2, ReaderRelies

\* What an activation or a registration under way relies on, of the committed
\* tables only.
LEMMA SaleRelies ==
    ASSUME NEW p, NEW r, HandlerOK(p, r), r.op \in {"activate", "register"},
           NEW d, NEW w, NEW x, NEW k, WriterOK(p, r, d, w, x, k),
           NEW e, NEW v, NEW y, NEW m,
           p = "activate" => e.status[r.uid] = "D",
           p \in {"insert", "total"} => e.status[r.uid] = "A",
           r.op = "register" /\ Fresh(d, r.line) => Fresh(e, r.line),
           p = "total" => e.row[r.line] = d.row[r.line]
    PROVE  WriterOK(p, r, e, v, y, m)
  BY DEF HandlerOK, WriterOK, InTx, Closing

\* The statements of an activation or a registration take nothing away from
\* requests that do not clash with it.
LEMMA SaleSpares ==
    ASSUME Inv, NEW h \in Handlers, req[h].uid \in Cards,
           \/ disk' = disk /\ req[h].op \in {"activate", "register"}
           \/ req[h].op = "activate" /\ disk' = Activated(disk, req[h].uid, req[h].phone)
           \/ /\ req[h].op = "register"
              /\ \/ disk' = Inserted(disk, req[h].uid, req[h].line, req[h].product)
                 \/ disk' = Totalled(disk, req[h].uid)
    PROVE  Spares(h)
  <1> SUFFICES ASSUME NEW g \in Handlers, g # h
               PROVE  WriterOK(pc[g], req[g], disk', work', tx', link')
    BY DEF Spares
  <1>1. HandlerOK(pc[g], req[g]) /\ WriterOK(pc[g], req[g], disk, work, tx, link)
    BY DEF Inv, TypeInv, StoreInv
  <1>2. CASE req[g].op \notin Writing
    BY <1>1, <1>2, ReaderRelies
  <1>3. CASE req[g].op \in Writing
    <2>1. /\ req[g].op \in {"activate", "register"}
          /\ req[g].op = "activate" /\ req[h].op = "activate" => req[g].uid # req[h].uid
          /\ req[g].op = "register" /\ req[h].op = "register" => req[g].line # req[h].line
      BY <1>3 DEF Inv, StoreInv, Apart, Clash, Writing
    <2>2. disk \in Tables
      BY DEF Inv, TypeInv, TypeOK
    <2>3. /\ pc[g] = "activate" => req[g].op = "activate" /\ req[g].uid \in Cards
          /\ pc[g] \in {"insert", "total"} => req[g].uid \in Cards /\ req[g].op = "register"
          /\ req[g].op = "register" => req[g].line \in Lines
      BY <1>1 DEF HandlerOK
    <2>4. /\ pc[g] = "activate" => disk.status[req[g].uid] = "D"
          /\ pc[g] \in {"insert", "total"} => disk.status[req[g].uid] = "A"
      BY <1>1 DEF WriterOK
    <2>5. CASE disk' = disk
      BY <1>1, <2>1, <2>4, <2>5, SaleRelies
    <2>6. CASE req[h].op = "activate" /\ disk' = Activated(disk, req[h].uid, req[h].phone)
      <3>1. /\ disk'.status = [disk.status EXCEPT ![req[h].uid] = "A"]
            /\ disk'.row = disk.row /\ disk'.counted = disk.counted
        BY <2>2, <2>6 DEF Activated, Tables
      <3>2. /\ pc[g] = "activate" => disk'.status[req[g].uid] = "D"
            /\ pc[g] \in {"insert", "total"} => disk'.status[req[g].uid] = "A"
            /\ \A l \in Lines : Fresh(disk, l) => Fresh(disk', l)
        BY <2>1, <2>2, <2>3, <2>4, <2>6, <3>1 DEF Fresh, Tables
      <3> QED
        BY <1>1, <2>1, <2>3, <3>1, <3>2, SaleRelies
    <2>7. CASE /\ req[h].op = "register"
               /\ disk' = Inserted(disk, req[h].uid, req[h].line, req[h].product)
      <3>1. /\ disk'.status = disk.status /\ disk'.counted = disk.counted
            /\ disk'.row \in {disk.row, [disk.row EXCEPT ![req[h].line] = req[h].uid]}
        BY <2>2, <2>7 DEF Inserted, Tables
      <3>2. req[g].op = "register" => disk'.row[req[g].line] = disk.row[req[g].line]
        BY <2>1, <2>2, <2>3, <2>7, <3>1 DEF Tables
      <3>3. req[g].op = "register" /\ Fresh(disk, req[g].line) => Fresh(disk', req[g].line)
        BY <3>1, <3>2 DEF Fresh
      <3> QED
        BY <1>1, <2>1, <2>3, <2>4, <3>1, <3>2, <3>3, SaleRelies
    <2>8. CASE disk' = Totalled(disk, req[h].uid)
      <3>1. /\ disk'.status = disk.status /\ disk'.counted = disk.counted
            /\ disk'.row = disk.row
        BY <2>2, <2>8 DEF Totalled, Tables
      <3>2. \A l \in Lines : Fresh(disk, l) => Fresh(disk', l)
        BY <3>1 DEF Fresh
      <3> QED
        BY <1>1, <2>1, <2>3, <2>4, <3>1, <3>2, SaleRelies
    <2> QED
      BY <2>5, <2>6, <2>7, <2>8
  <1> QED
    BY <1>2, <1>3

\* A step that changes the committed tables in one of the four ways and takes
\* away nothing that anyone relies on keeps the store invariant.
LEMMA WriterMove ==
    ASSUME Inv, TypeInv', NEW h \in Handlers,
           NEW p, pc' = [pc EXCEPT ![h] = p], UNCHANGED <<req, used>>,
           Change(disk, disk'), ConnInv', Spares(h),
           WriterOK(p, req[h], disk', work', tx', link')
    PROVE  StoreInv'
  <1>1. disk \in Tables /\ disk' \in Tables /\ used \subseteq Lines
    BY DEF Inv, TypeInv, TypeOK
  <1>2. DiskOK(disk')
    BY <1>1, ChangeKeepsDiskOK DEF Inv, StoreInv
  <1>3. \A l \in Lines \ used : Fresh(disk', l)
    BY <1>1, ChangeKeepsFresh DEF Inv, StoreInv
  <1>4. Apart'
    BY DEF Inv, StoreInv, Apart
  <1>5. ASSUME NEW g \in Handlers
        PROVE  WriterOK(pc'[g], req[g], disk', work', tx', link')
    <2>1. CASE g = h
      BY <2>1 DEF Inv, TypeInv, TypeOK
    <2>2. CASE g # h
      BY <2>2 DEF Inv, TypeInv, TypeOK, Spares
    <2> QED
      BY <2>1, <2>2
  <1>6. \A g \in Handlers : WriterOK(pc[g], req[g], disk, work, tx, link)'
    BY <1>5 DEF WriterOK
  <1> QED
    BY <1>2, <1>3, <1>4, <1>6 DEF StoreInv

\* A call of a reader disturbs a writer only by ending its transaction.
Undisturbed ==
    /\ disk' = disk
    /\ tx' = "open" => tx = "open" /\ work' = work
    /\ link' => link /\ (tx' = "idle" => tx = "idle")

\* What a writer relies on outlives an undisturbing call.
LEMMA UndisturbedRelies ==
    ASSUME NEW p, NEW r, WriterOK(p, r, disk, work, tx, link), Undisturbed
    PROVE  WriterOK(p, r, disk', work', tx', link')
  BY DEF WriterOK, Undisturbed

\* So it spares everyone.
LEMMA UndisturbedSpares ==
    ASSUME Inv, NEW h \in Handlers, Undisturbed
    PROVE  Spares(h)
  BY UndisturbedRelies DEF Inv, StoreInv, Spares

\* A reader's step that disturbs no writer keeps the store invariant.
LEMMA ReaderMove ==
    ASSUME Inv, TypeInv', NEW h \in Handlers, req[h].op \notin Writing,
           NEW p, pc' = [pc EXCEPT ![h] = p], UNCHANGED <<req, used>>,
           Undisturbed, ConnInv'
    PROVE  StoreInv'
  <1>1. HandlerOK(p, req[h])
    BY DEF Inv, TypeInv, TypeOK
  <1>2. WriterOK(p, req[h], disk', work', tx', link')
    BY <1>1, ReaderRelies
  <1>3. Change(disk, disk')
    BY DEF Undisturbed, Change
  <1> QED
    BY <1>2, <1>3, UndisturbedSpares, WriterMove

\* A SELECT leaves a writer undisturbed, whatever becomes of it.
LEMMA ReadEffect ==
    ASSUME "race" \notin Faults, DbOK, TxInv, ConnInv, NEW b \in BOOLEAN,
           Execute(work) \/ ExecuteFails(work, b)
    PROVE  Undisturbed /\ ConnInv'
  BY DEF DbOK, TxInv, ConnInv, Undisturbed, Execute, ExecuteFails, Acts, Rejected, Dropped,
         Raced, OnDeadLink, Persisted, db

\* A writer outside its transaction finds none open.
LEMMA WriterAlone ==
    ASSUME Inv, NEW h \in Handlers, req[h].op \in Writing, pc[h] \notin Closing
    PROVE  tx = "idle" /\ work = disk
  <1>1. \A g \in Handlers : pc[g] \in Closing => req[g].op = "close"
    BY DEF Inv, TypeInv, HandlerOK
  <1>2. \A g \in Handlers : g # h => req[g].op # "close"
    BY DEF Inv, StoreInv, Apart, Clash, Writing
  <1> QED
    BY <1>1, <1>2 DEF Inv, TxInv, StoreInv, ConnInv

\* A statement outside a transaction takes effect at once or not at all.
LEMMA PlainStatement ==
    ASSUME "race" \notin Faults, DbOK, tx = "idle", work = disk,
           NEW t, NEW b \in BOOLEAN
    PROVE  /\ Execute(t) => disk' = t /\ work' = t /\ tx' = "idle"
           /\ ExecuteFails(t, b) => /\ disk' \in {disk, t}
                                    /\ work' = disk'
                                    /\ tx' = "idle"
  BY DEF DbOK, Execute, ExecuteFails, Acts, Rejected, Dropped, Raced, OnDeadLink,
         Persisted, db

\* One inside a transaction leaves the committed tables alone; if it fails, the
\* transaction is over.
LEMMA TxStatement ==
    ASSUME "race" \notin Faults, DbOK, TxInv, ConnInv, link => tx # "idle",
           NEW t, NEW b \in BOOLEAN
    PROVE  /\ Execute(t) => /\ disk' = disk /\ work' = t
                            /\ tx = "open" /\ tx' = "open" /\ link'
           /\ ExecuteFails(t, b) => disk' = disk /\ ConnInv'
  BY DEF DbOK, TxInv, ConnInv, Execute, ExecuteFails, Acts, Rejected, Dropped, Raced,
         OnDeadLink, Persisted, db

\* A writer that is about to reply, or to roll back, relies on nothing.
LEMMA DoneRelies ==
    ASSUME NEW p \in {"reply", "reply closed", "rollback", "idle"}, NEW r,
           NEW d, NEW w, NEW x, NEW k
    PROVE  WriterOK(p, r, d, w, x, k)
  BY DEF WriterOK, InTx

\* What Inv says of a handler at a given step, for the lemmas below.
LEMMA Known ==
    ASSUME Inv, NEW h \in Handlers
    PROVE  /\ DbOK /\ LocalOK /\ TxInv /\ ConnInv
           /\ HandlerOK(pc[h], req[h])
           /\ WriterOK(pc[h], req[h], disk, work, tx, link)
           /\ Contended(h) \in BOOLEAN
           /\ disk \in Tables
           /\ Change(disk, disk)
  BY TypeInvParts DEF Inv, TypeInv, StoreInv, Contended, DbOK, Change

\* A writer that returns, or gives its transaction up, keeps the invariant.
LEMMA WriterReturn ==
    ASSUME Inv, TypeInv', NEW h \in Handlers,
           \E r : Return(h, r) \/ GiveUp(h, r),
           Change(disk, disk'), ConnInv', Spares(h)
    PROVE  StoreInv'
  <1>1. /\ UNCHANGED <<req, used>>
        /\ \E p \in {"reply", "rollback"} : pc' = [pc EXCEPT ![h] = p]
    BY DEF Return, GiveUp
  <1>2. PICK p \in {"reply", "rollback"} : pc' = [pc EXCEPT ![h] = p]
    BY <1>1
  <1>3. WriterOK(p, req[h], disk', work', tx', link')
    BY DoneRelies
  <1> QED
    BY <1>1, <1>2, <1>3, WriterMove

\* SELECT status changes nothing on disk and hands on what the next step relies on.
LEMMA CheckKeeps ==
    ASSUME "race" \notin Faults, Inv, TypeInv', NEW h \in Handlers, Check(h)
    PROVE  StoreInv' /\ disk' = disk
  <1>1. /\ pc[h] = "check" /\ req[h] \in Request /\ ~Refused(req[h])
        /\ req[h].op # "report"
    BY Known, CheckedRequest
  <1>2. Execute(work) \/ ExecuteFails(work, Contended(h))
    BY DEF Check
  <1>3. Undisturbed /\ ConnInv'
    BY <1>2, Known, ReadEffect
  <1>4. UNCHANGED <<req, used>> /\ \E p : pc' = [pc EXCEPT ![h] = p]
    BY <1>1 DEF Check, AfterCheck, Goto, Return, Request, Ops
  <1>5. CASE req[h].op \notin Writing
    BY <1>3, <1>4, <1>5, ReaderMove DEF Undisturbed
  <1>6. CASE req[h].op \in Writing
    <2>1. tx = "idle" /\ work = disk
      BY <1>1, <1>6, WriterAlone DEF Closing
    <2>2. disk' = disk /\ Change(disk, disk') /\ Spares(h)
      BY <1>3, UndisturbedSpares DEF Undisturbed, Change
    <2>3. CASE \E r : Return(h, r)
      BY <1>3, <1>6, <2>2, <2>3, WriterReturn
    <2>4. CASE Goto(h, "activate") /\ disk.status[req[h].uid] = "D"
      <3>1. WriterOK("activate", req[h], disk', work', tx', link')
        BY <2>2, <2>4 DEF WriterOK, InTx
      <3> QED
        BY <1>3, <1>6, <2>2, <2>4, <3>1, WriterMove DEF Goto
    <2>5. CASE Goto(h, "begin") /\ disk.status[req[h].uid] = "A"
      <3>1. WriterOK("begin", req[h], disk', work', tx', link')
        BY <2>2, <2>5 DEF WriterOK, InTx
      <3> QED
        BY <1>3, <1>6, <2>2, <2>5, <3>1, WriterMove DEF Goto
    <2>6. CASE Goto(h, "insert") /\ disk.status[req[h].uid] = "A" /\ req[h].op = "register"
      <3>1. req[h].line \in used /\ Fresh(disk, req[h].line)
        BY <1>1, <2>6, Known DEF WriterOK
      <3>2. WriterOK("insert", req[h], disk', work', tx', link')
        BY <2>2, <2>6, <3>1 DEF WriterOK, InTx
      <3> QED
        BY <1>3, <1>6, <2>2, <2>6, <3>2, WriterMove DEF Goto
    <2>7. req[h].uid \in Cards => disk.status[req[h].uid] \in {"A", "D"}
      BY Known DEF Tables
    <2> QED
      BY <1>6, <2>1, <2>2, <2>3, <2>4, <2>5, <2>6, <2>7 DEF Check, AfterCheck, Writing
  <1> QED
    BY <1>5, <1>6, <1>3 DEF Undisturbed

\* activateCard's UPDATE activates an inactive card, or nothing happens.
LEMMA ActivateKeeps ==
    ASSUME "race" \notin Faults, Inv, TypeInv', NEW h \in Handlers, Activate(h)
    PROVE  /\ StoreInv'
           /\ \/ disk' = disk
              \/ /\ disk.status[req[h].uid] = "D"
                 /\ disk' = Activated(disk, req[h].uid, req[h].phone)
  <1>1. /\ pc[h] = "activate" /\ req[h].op = "activate" /\ req[h].uid \in Cards
        /\ req[h].phone \in Phones /\ disk.status[req[h].uid] = "D"
    BY Known DEF Activate, HandlerOK, WriterOK
  <1>2. tx = "idle" /\ work = disk
    BY <1>1, WriterAlone DEF Closing, Writing
  <1>3. /\ disk' \in {disk, Activated(disk, req[h].uid, req[h].phone)}
        /\ work' = disk' /\ tx' = "idle"
    BY <1>2, Known, PlainStatement DEF Activate
  <1>4. Change(disk, disk') /\ ConnInv'
    BY <1>1, <1>3 DEF Change, ConnInv
  <1>5. \E r : Return(h, r)
    BY DEF Activate
  <1>6. Spares(h)
    BY <1>1, <1>3, SaleSpares
  <1>7. StoreInv'
    BY <1>4, <1>5, <1>6, WriterReturn
  <1> QED
    BY <1>1, <1>3, <1>7

\* registerConsumption's INSERT adds a fresh line to an active card, or nothing.
LEMMA InsertKeeps ==
    ASSUME "race" \notin Faults, Inv, TypeInv', NEW h \in Handlers, Insert(h)
    PROVE  /\ StoreInv'
           /\ \/ disk' = disk /\ \E r \in {"UnknownError"} : Return(h, r)
              \/ /\ disk.status[req[h].uid] = "A"
                 /\ Fresh(disk, req[h].line)
                 /\ disk' = Inserted(disk, req[h].uid, req[h].line, req[h].product)
  <1>1. /\ pc[h] = "insert" /\ req[h].op = "register" /\ req[h].uid \in Cards
        /\ req[h].product \in Products /\ disk.status[req[h].uid] = "A"
        /\ req[h].line \in used /\ Fresh(disk, req[h].line)
    BY Known DEF Insert, HandlerOK, WriterOK
  <1>2. tx = "idle" /\ work = disk
    BY <1>1, WriterAlone DEF Closing, Writing
  <1> DEFINE new == Inserted(disk, req[h].uid, req[h].line, req[h].product)
  <1>3. /\ disk' \in {disk, new}
        /\ Execute(new) => disk' = new
        /\ work' = disk' /\ tx' = "idle"
    BY <1>2, Known, PlainStatement DEF Insert
  <1>4. Change(disk, disk') /\ ConnInv' /\ Spares(h)
    BY <1>1, <1>3, SaleSpares DEF Change, ConnInv
  <1>5. CASE Return(h, "UnknownError")
    <2>1. StoreInv'
      BY <1>4, <1>5, WriterReturn
    <2> QED
      BY <1>1, <1>3, <1>5, <2>1
  <1>6. CASE Goto(h, "total") /\ Execute(new)
    <2>0. disk' = new /\ disk \in Tables /\ req[h].line \in Lines
      BY <1>1, <1>3, <1>6, Known DEF HandlerOK
    <2>1. /\ disk'.status[req[h].uid] = "A"
          /\ req[h].product \in Catalog => disk'.row[req[h].line] = req[h].uid
      BY <1>1, <2>0 DEF Inserted, Tables
    <2>2. WriterOK("total", req[h], disk', work', tx', link')
      BY <2>1 DEF WriterOK, InTx
    <2>3. StoreInv'
      BY <1>4, <1>6, <2>2, WriterMove DEF Goto
    <2> QED
      BY <1>1, <1>3, <1>6, <2>3
  <1> QED
    BY <1>2, <1>5, <1>6 DEF Insert

\* The UPDATE of the running total keeps the invariant.
LEMMA TotalKeeps ==
    ASSUME "race" \notin Faults, Inv, TypeInv', NEW h \in Handlers, UpdateTotal(h)
    PROVE  /\ StoreInv'
           /\ \/ disk' = disk
              \/ /\ disk.status[req[h].uid] = "A"
                 /\ disk' = Totalled(disk, req[h].uid)
  <1>1. /\ pc[h] = "total" /\ req[h].op = "register" /\ req[h].uid \in Cards
        /\ disk.status[req[h].uid] = "A"
    BY Known DEF UpdateTotal, HandlerOK, WriterOK
  <1>2. tx = "idle" /\ work = disk
    BY <1>1, WriterAlone DEF Closing, Writing
  <1>3. /\ disk' \in {disk, Totalled(disk, req[h].uid)}
        /\ work' = disk' /\ tx' = "idle"
    BY <1>2, Known, PlainStatement DEF UpdateTotal
  <1>4. Change(disk, disk') /\ ConnInv'
    BY <1>1, <1>3 DEF Change, ConnInv
  <1>5. \E r : Return(h, r)
    BY DEF UpdateTotal
  <1>6. Spares(h)
    BY <1>1, <1>3, SaleSpares
  <1>7. StoreInv'
    BY <1>4, <1>5, <1>6, WriterReturn
  <1> QED
    BY <1>1, <1>3, <1>7

\* BEGIN changes nothing on disk and opens the writer's own transaction.
LEMMA BeginKeeps ==
    ASSUME "race" \notin Faults, Inv, TypeInv', NEW h \in Handlers, BeginClose(h)
    PROVE  StoreInv' /\ disk' = disk
  <1>1. /\ pc[h] = "begin" /\ req[h].op = "close" /\ req[h].uid \in Cards
        /\ disk.status[req[h].uid] = "A"
    BY Known DEF BeginClose, HandlerOK, WriterOK
  <1>2. tx = "idle" /\ work = disk /\ Spares(h)
    BY <1>1, WriterAlone, CheckoutSpares DEF Closing, Writing
  <1>3. CASE Begin /\ Goto(h, "aggregate")
    <2>1. disk' = disk /\ work' = disk /\ tx' = "open"
      BY <1>2, <1>3 DEF Begin, Acts
    <2>2. Change(disk, disk') /\ ConnInv'
      BY <2>1 DEF Change, ConnInv
    <2>3. WriterOK("aggregate", req[h], disk', work', tx', link')
      BY <1>1, <2>1 DEF WriterOK, InTx, Pending
    <2> QED
      BY <1>2, <1>3, <2>1, <2>2, <2>3, WriterMove DEF Goto
  <1>4. CASE BeginFails(Contended(h)) /\ Return(h, "TxError")
    <2>1. disk' = disk /\ work' = disk
      BY <1>2, <1>4 DEF BeginFails, Dropped, Raced, OnDeadLink, db
    <2>2. Change(disk, disk') /\ ConnInv'
      BY <2>1 DEF Change, ConnInv
    <2> QED
      BY <1>2, <1>4, <2>1, <2>2, WriterReturn
  <1> QED
    BY <1>3, <1>4 DEF BeginClose

\* Aggregation, DELETE and UPDATE of a checkout leave the disk alone.
LEMMA TxStepKeeps ==
    ASSUME "race" \notin Faults, Inv, TypeInv', NEW h \in Handlers,
           Aggregate(h) \/ Delete(h) \/ Deactivate(h)
    PROVE  StoreInv' /\ disk' = disk
  <1>1. /\ pc[h] \in InTx /\ req[h].op = "close" /\ disk.status[req[h].uid] = "A"
        /\ link => tx # "idle"
        /\ tx = "open" => work = Pending(pc[h], disk, req[h].uid)
        /\ Spares(h)
    BY Known, CheckoutSpares DEF Aggregate, Delete, Deactivate, HandlerOK, WriterOK, InTx, Closing
  <1>2. ASSUME NEW new, NEW p \in InTx, Execute(new), Goto(h, p),
               new = Pending(p, disk, req[h].uid)
        PROVE  StoreInv' /\ disk' = disk
    <2>1. disk' = disk /\ work' = new /\ tx' = "open"
      BY <1>1, <1>2, Known, TxStatement
    <2>2. Change(disk, disk') /\ ConnInv'
      BY <2>1 DEF Change, ConnInv
    <2>3. WriterOK(p, req[h], disk', work', tx', link')
      BY <1>1, <1>2, <2>1 DEF WriterOK, InTx
    <2> QED
      BY <1>1, <1>2, <2>1, <2>2, <2>3, WriterMove DEF Goto
  <1>3. ASSUME NEW new, ExecuteFails(new, Contended(h)), GiveUp(h, "UnknownError")
        PROVE  StoreInv' /\ disk' = disk
    <2>1. disk' = disk /\ ConnInv'
      BY <1>1, <1>3, Known, TxStatement
    <2>2. Change(disk, disk')
      BY <2>1 DEF Change
    <2> QED
      BY <1>1, <1>3, <2>1, <2>2, WriterReturn
  <1>4. ASSUME NEW new, Execute(new)
        PROVE  tx = "open"
    BY <1>1, <1>4, Known, TxStatement
  <1>5. CASE Aggregate(h)
    <2>1. CASE Execute(Aggregated(work, req[h].uid)) /\ Goto(h, "delete")
      <3>1. Aggregated(work, req[h].uid) = Pending("delete", disk, req[h].uid)
        BY <1>1, <1>4, <1>5, <2>1 DEF Aggregate, Pending
      <3> QED
        BY <1>2, <2>1, <3>1 DEF InTx
    <2> QED
      BY <1>3, <1>5, <2>1 DEF Aggregate
  <1>6. CASE Delete(h)
    <2>1. CASE Execute(Deleted(work, req[h].uid)) /\ Goto(h, "deactivate")
      <3>1. Deleted(work, req[h].uid) = Pending("deactivate", disk, req[h].uid)
        BY <1>1, <1>4, <1>6, <2>1 DEF Delete, Pending
      <3> QED
        BY <1>2, <2>1, <3>1 DEF InTx
    <2> QED
      BY <1>3, <1>6, <2>1 DEF Delete
  <1>7. CASE Deactivate(h)
    <2>1. CASE Execute(Deactivated(work, req[h].uid)) /\ Goto(h, "commit")
      <3>1. Deactivated(work, req[h].uid) = Pending("commit", disk, req[h].uid)
        BY <1>1, <1>4, <1>7, <2>1 DEF Deactivate, Pending, Settled
      <3> QED
        BY <1>2, <2>1, <3>1 DEF InTx
    <2> QED
      BY <1>3, <1>7, <2>1 DEF Deactivate
  <1> QED
    BY <1>5, <1>6, <1>7

\* COMMIT settles the card as a whole or leaves the disk alone.
LEMMA CommitKeeps ==
    ASSUME "race" \notin Faults, Inv, TypeInv', NEW h \in Handlers, CommitClose(h)
    PROVE  /\ StoreInv'
           /\ \/ disk' = disk
              \/ /\ disk.status[req[h].uid] = "A"
                 /\ disk' = Settled(disk, req[h].uid)
  <1>1. /\ pc[h] = "commit" /\ req[h].op = "close" /\ req[h].uid \in Cards
        /\ disk.status[req[h].uid] = "A"
        /\ tx = "open" => work = Settled(disk, req[h].uid)
        /\ Spares(h)
    BY Known, CheckoutSpares DEF CommitClose, HandlerOK, WriterOK, InTx, Closing, Pending
  <1>2. Outcome \in {disk, Settled(disk, req[h].uid)}
    BY <1>1 DEF Outcome
  <1>3. disk' \in {disk, Outcome} /\ ConnInv'
    BY Known DEF CommitClose, Commit, CommitFails, Acts, Dropped, Raced, OnDeadLink, db,
                 ConnInv
  <1>4. Change(disk, disk')
    BY <1>1, <1>2, <1>3 DEF Change
  <1>5. StoreInv'
    BY <1>1, <1>3, <1>4, WriterReturn DEF CommitClose
  <1> QED
    BY <1>1, <1>2, <1>3, <1>5

\* ROLLBACK leaves the disk alone.
LEMMA RollbackKeeps ==
    ASSUME "race" \notin Faults, Inv, TypeInv', NEW h \in Handlers, RollbackClose(h)
    PROVE  StoreInv' /\ disk' = disk
  <1>1. pc[h] = "rollback" /\ Spares(h)
    BY Known, CheckoutSpares DEF RollbackClose, HandlerOK, Closing
  <1>2. disk' = disk /\ ConnInv'
    BY Known DEF RollbackClose, Rollback, Acts, Dropped, Raced, OnDeadLink, db, ConnInv,
                 TxInv
  <1>3. Change(disk, disk')
    BY <1>2 DEF Change
  <1>4. WriterOK("reply", req[h], disk', work', tx', link')
    BY DoneRelies
  <1> QED
    BY <1>1, <1>2, <1>3, <1>4, WriterMove DEF RollbackClose, Goto

\* getCardSummary's second SELECT leaves the disk alone.
LEMMA ReadLinesKeeps ==
    ASSUME "race" \notin Faults, Inv, TypeInv', NEW h \in Handlers, ReadLines(h)
    PROVE  StoreInv' /\ disk' = disk
  <1>1. req[h].op \notin Writing
    BY Known DEF ReadLines, HandlerOK, Writing
  <1>2. Undisturbed /\ ConnInv'
    BY Known, ReadEffect DEF ReadLines
  <1>3. UNCHANGED <<req, used>> /\ \E p : pc' = [pc EXCEPT ![h] = p]
    BY DEF ReadLines, Goto, Return
  <1> QED
    BY <1>1, <1>2, <1>3, ReaderMove DEF Undisturbed

\* So does the one SELECT of a report.
LEMMA QueryKeeps ==
    ASSUME "race" \notin Faults, Inv, TypeInv', NEW h \in Handlers, Query(h)
    PROVE  StoreInv' /\ disk' = disk
  <1>1. req[h].op \notin Writing
    BY Known DEF Query, HandlerOK, Writing
  <1>2. Undisturbed /\ ConnInv'
    BY Known, ReadEffect DEF Query
  <1>3. UNCHANGED <<req, used>> /\ pc' = [pc EXCEPT ![h] = "reply"]
    BY DEF Query, Return
  <1> QED
    BY <1>1, <1>2, <1>3, ReaderMove DEF Undisturbed

\* Taking a request keeps the invariant: it clashes with none, and its line is fresh.
LEMMA StartKeeps ==
    ASSUME Disciplined, Inv, NEW h \in Handlers, NEW r \in Request,
           r.op = "register" => r.line \in Lines \ used, Start(h, r)
    PROVE  StoreInv' /\ disk' = disk
  <1>1. /\ disk' = disk /\ work' = work /\ tx' = tx /\ link' = link
        /\ req' = [req EXCEPT ![h] = r]
        /\ used' = used \cup ({r.line} \ {NoLine})
        /\ \E p \in {"reply", "query", "check"} : pc' = [pc EXCEPT ![h] = p]
    BY StartStep DEF Start, db
  <1>2. /\ pc \in [Handlers -> Steps \cup Outside]
        /\ req \in [Handlers -> Request \cup {NoRequest}]
    BY Known DEF LocalOK
  <1>3. Apart'
    BY Known, StartApart DEF Inv, StoreInv
  <1>4. ASSUME NEW g \in Handlers
        PROVE  WriterOK(pc[g], req[g], disk, work, tx, link)'
    <2>1. CASE g # h
      <3>1. pc'[g] = pc[g] /\ req'[g] = req[g]
        BY <1>1, <1>2, <2>1
      <3> QED
        BY <1>1, <3>1, Known DEF WriterOK
    <2>2. CASE g = h
      <3>1. pc'[g] \in {"reply", "query", "check"} /\ req'[g] = r
        BY <1>1, <1>2, <2>2
      <3>2. r.op = "register" => r.line \in used' /\ Fresh(disk, r.line)
        BY <1>1, LinesAssumption DEF Inv, StoreInv
      <3> QED
        BY <1>1, <3>1, <3>2 DEF WriterOK, InTx
    <2> QED
      BY <2>1, <2>2
  <1>5. \A l \in Lines \ used' : Fresh(disk', l)
    BY <1>1 DEF Inv, StoreInv
  <1> QED
    BY <1>1, <1>3, <1>4, <1>5 DEF Inv, StoreInv, ConnInv

\* A reply keeps it.
LEMMA ReplyKeeps ==
    ASSUME Inv, NEW h \in Handlers, Reply(h)
    PROVE  StoreInv' /\ disk' = disk
  <1>1. /\ disk' = disk /\ work' = work /\ tx' = tx /\ link' = link /\ used' = used
        /\ req' = [req EXCEPT ![h] = NoRequest]
        /\ pc' = [pc EXCEPT ![h] = "idle"]
    BY DEF Reply, db
  <1>2. /\ pc \in [Handlers -> Steps \cup Outside]
        /\ req \in [Handlers -> Request \cup {NoRequest}]
    BY Known DEF LocalOK
  <1>3. Apart'
    <2>1. req' = [g \in Handlers |-> IF g \in {h} THEN NoRequest ELSE req[g]]
      BY <1>1, <1>2
    <2> QED
      BY <1>1, <2>1, Known, FewerApart DEF Inv, StoreInv
  <1>4. ASSUME NEW g \in Handlers
        PROVE  WriterOK(pc[g], req[g], disk, work, tx, link)'
    <2>1. CASE g # h
      <3>1. pc'[g] = pc[g] /\ req'[g] = req[g]
        BY <1>1, <1>2, <2>1
      <3> QED
        BY <1>1, <3>1, Known DEF WriterOK
    <2>2. CASE g = h
      <3>1. pc'[g] = "idle"
        BY <1>1, <1>2, <2>2
      <3> QED
        BY <3>1 DEF WriterOK, InTx
    <2> QED
      BY <2>1, <2>2
  <1> QED
    BY <1>1, <1>3, <1>4 DEF Inv, StoreInv, ConnInv

\* A restart leaves the disk alone, and no writer is left to rely on anything.
LEMMA RestartKeeps ==
    ASSUME Inv, Restart
    PROVE  StoreInv' /\ disk' = disk
  <1>1. /\ disk' = disk /\ work' = disk' /\ used' = used
        /\ req' = [h \in Handlers |-> NoRequest]
        /\ pc' = [h \in Handlers |-> "idle"]
    BY DEF Restart, Reconnect
  <1>2. Apart'
    BY <1>1 DEF Apart, Clash, NoRequest, Writing
  <1>3. \A h \in Handlers : WriterOK(pc[h], req[h], disk, work, tx, link)'
    BY <1>1 DEF WriterOK, InTx
  <1> QED
    BY <1>1, <1>2, <1>3 DEF Inv, StoreInv, ConnInv

\* Every step keeps the invariant, and changes the committed tables, if at all,
\* by one whole operation of the ledger or by writing a card's amount.
LEMMA StepStore ==
    ASSUME "race" \notin Faults, Disciplined, Inv, [Next]_vars
    PROVE  Inv' /\ Change(disk, disk')
  <1>1. TypeInv' /\ TxInv'
    BY StepTypes, StepTx DEF Inv
  <1>2. disk' = disk => Change(disk, disk')
    BY DEF Change
  <1>3. ASSUME NEW h \in Handlers,
               StartActivate(h) \/ StartRegister(h) \/ StartOther(h)
        PROVE  StoreInv' /\ Change(disk, disk')
    BY <1>2, <1>3, RequestStarts, StartKeeps
  <1>4. ASSUME NEW h \in Handlers, Activate(h)
        PROVE  StoreInv' /\ Change(disk, disk')
    <2>1. req[h].uid \in Cards /\ req[h].phone \in Phones
      BY <1>4, Known DEF Activate, HandlerOK
    <2> QED
      BY <1>1, <1>2, <1>4, <2>1, ActivateKeeps DEF Change
  <1>5. ASSUME NEW h \in Handlers, Insert(h)
        PROVE  StoreInv' /\ Change(disk, disk')
    <2>1. /\ req[h].uid \in Cards /\ req[h].product \in Products
          /\ req[h].line \in used
      BY <1>5, Known DEF Insert, HandlerOK, WriterOK
    <2> QED
      BY <1>1, <1>2, <1>5, <2>1, InsertKeeps DEF Change
  <1>6. ASSUME NEW h \in Handlers, UpdateTotal(h)
        PROVE  StoreInv' /\ Change(disk, disk')
    <2>1. req[h].uid \in Cards
      BY <1>6, Known DEF UpdateTotal, HandlerOK
    <2> QED
      BY <1>1, <1>2, <1>6, <2>1, TotalKeeps DEF Change
  <1>7. ASSUME NEW h \in Handlers, CommitClose(h)
        PROVE  StoreInv' /\ Change(disk, disk')
    <2>1. req[h].uid \in Cards
      BY <1>7, Known DEF CommitClose, HandlerOK, Closing
    <2> QED
      BY <1>1, <1>2, <1>7, <2>1, CommitKeeps DEF Change
  <1>8. ASSUME NEW h \in Handlers,
               \/ Check(h) \/ BeginClose(h) \/ Aggregate(h) \/ Delete(h) \/ Deactivate(h)
               \/ RollbackClose(h) \/ ReadLines(h) \/ Query(h) \/ Reply(h)
        PROVE  StoreInv' /\ Change(disk, disk')
    BY <1>1, <1>2, <1>8, CheckKeeps, BeginKeeps, TxStepKeeps, RollbackKeeps,
       ReadLinesKeeps, QueryKeeps, ReplyKeeps
  <1>9. CASE Restart
    BY <1>1, <1>2, <1>9, RestartKeeps DEF Inv
  <1>10. CASE UNCHANGED vars
    <2>1. /\ disk' = disk /\ work' = work /\ tx' = tx /\ link' = link /\ used' = used
          /\ req' = req /\ pc' = pc
      BY <1>10 DEF vars, handling, db
    <2>2. StoreInv'
      BY <2>1 DEF Inv, StoreInv, ConnInv, Apart, Clash, WriterOK
    <2> QED
      BY <1>1, <1>2, <2>1, <2>2 DEF Inv
  <1> QED
    BY <1>1, <1>3, <1>4, <1>5, <1>6, <1>7, <1>8, <1>9, <1>10 DEF Next, Handle, Inv

\* The initial state satisfies the invariant.
LEMMA InitStore ==
    ASSUME Init
    PROVE  Inv
  <1>1. EmptyTables \in Tables /\ DiskOK(EmptyTables)
        /\ \A l \in Lines : Fresh(EmptyTables, l)
    BY CardsAssumption DEF EmptyTables, Tables, DiskOK, Clean, RowsOf, Fresh
  <1>2. HandlerOK("idle", NoRequest)
    BY DEF HandlerOK, NoRequest, Closing
  <1>3. TypeInv
    BY <1>1, <1>2 DEF Init, Connect, TypeInv, TypeOK, Outside, Results
  <1>4. TxInv /\ ConnInv
    BY DEF Init, Connect, TxInv, ConnInv
  <1>5. Apart
    BY DEF Init, Apart, Clash, NoRequest, Writing
  <1>6. \A h \in Handlers : WriterOK(pc[h], req[h], disk, work, tx, link)
    BY DEF Init, WriterOK, InTx
  <1> QED
    BY <1>1, <1>3, <1>4, <1>5, <1>6 DEF Init, Connect, Inv, StoreInv

\* The inductive invariant behind the theorems that follow.
LEMMA StoreInvariant ==
    ASSUME "race" \notin Faults, Disciplined
    PROVE  Spec => []Inv
  <1>1. Init => Inv
    BY InitStore
  <1>2. Inv /\ [Next]_vars => Inv'
    BY StepStore
  <1> QED
    BY <1>1, <1>2, PTL DEF Spec

\* Every consumption line is added to producttotals exactly once: closeCard's
\* aggregation, DELETE and COMMIT take effect together or not at all.
THEOREM BilledExactlyOnceWhenDisciplined ==
    ASSUME "race" \notin Faults, Disciplined
    PROVE  Spec => []BilledExactlyOnce
  <1>1. Inv => BilledExactlyOnce
    BY DEF Inv, StoreInv, DiskOK, BilledExactlyOnce
  <1> QED
    BY <1>1, StoreInvariant, PTL

\* total_to_pay never includes anything that is not a line of the card, even
\* when registerConsumption stops between its two statements.
THEOREM AmountIsOfLinesWhenDisciplined ==
    ASSUME "race" \notin Faults, Disciplined
    PROVE  Spec => []AmountIsOfLines
  <1>1. Inv => AmountIsOfLines
    BY DEF Inv, StoreInv, DiskOK, AmountIsOfLines
  <1> QED
    BY <1>1, StoreInvariant, PTL

\* A line stays on its customer's card until one commit bills it and closes the card:
\* an activation finds no line on its card, and nothing but a whole checkout takes a line
\* or the customer away.
THEOREM LineKeepsCustomerWhenDisciplined ==
    ASSUME "race" \notin Faults, Disciplined
    PROVE  Spec => LineKeepsCustomer
  <1>1. Inv /\ [Next]_vars =>
          \A l \in Lines : disk.row[l] # NoCard =>
              \/ /\ disk'.row[l] = disk.row[l]
                 /\ disk'.phone[disk.row[l]] = disk.phone[disk.row[l]]
              \/ /\ disk'.row[l] = NoCard
                 /\ disk'.counted[l] = disk.counted[l] + 1
    <2> DEFINE Stays(l) == /\ disk'.row[l] = disk.row[l]
                           /\ disk'.phone[disk.row[l]] = disk.phone[disk.row[l]]
               IsBilled(l) == /\ disk'.row[l] = NoCard
                              /\ disk'.counted[l] = disk.counted[l] + 1
    <2> SUFFICES ASSUME Inv, [Next]_vars, NEW l \in Lines, disk.row[l] # NoCard
                 PROVE  Stays(l) \/ IsBilled(l)
      OBVIOUS
    <2>1. Change(disk, disk') /\ disk \in Tables /\ DiskOK(disk) /\ disk.row[l] \in Cards
      BY StepStore DEF Inv, TypeInv, TypeOK, StoreInv, Tables
    <2>2. ASSUME NEW b \in Cards, NEW p \in Phones, disk.status[b] = "D",
                 disk' = Activated(disk, b, p)
          PROVE  Stays(l)
      <3>1. disk.row[l] # b
        BY <2>1, <2>2 DEF DiskOK, Clean, RowsOf
      <3> QED
        BY <2>1, <2>2, <3>1 DEF Activated, Tables
    <2>3. ASSUME NEW b \in Cards, NEW k \in used, NEW p \in Products, Fresh(disk, k),
                 disk' = Inserted(disk, b, k, p)
          PROVE  Stays(l)
      <3>1. k # l
        BY <2>3 DEF Fresh
      <3> QED
        BY <2>1, <2>3, <3>1 DEF Inserted, Tables
    <2>4. ASSUME NEW b \in Cards, disk' = Totalled(disk, b)
          PROVE  Stays(l)
      BY <2>1, <2>4 DEF Totalled, Tables
    <2>5. ASSUME NEW b \in Cards, disk' = Settled(disk, b)
          PROVE  Stays(l) \/ IsBilled(l)
      <3>1. /\ disk'.phone = [disk.phone EXCEPT ![b] = NoPhone]
            /\ disk'.row = [k \in Lines |-> IF disk.row[k] = b THEN NoCard ELSE disk.row[k]]
            /\ disk'.counted = [k \in Lines |-> IF disk.row[k] = b THEN disk.counted[k] + 1
                                                                    ELSE disk.counted[k]]
        BY <2>1, <2>5, SettledTables
      <3> QED
        BY <2>1, <3>1 DEF Tables
    <2> QED
      BY <2>1, <2>2, <2>3, <2>4, <2>5 DEF Change
  <1> QED
    BY <1>1, StoreInvariant, PTL DEF Spec, LineKeepsCustomer

\* What is committed moves as CardLedger does: each step of the program is one
\* atomic activation, charge or settlement of the ledger, or none.
THEOREM RefinesLedgerWhenDisciplined ==
    ASSUME "race" \notin Faults, Disciplined
    PROVE  Spec => RefinesLedger
  <1>1. Init => Ledger!Init
    BY DEF Init, Connect, EmptyTables, Ledger!Init
  <1>2. Inv /\ [Next]_vars => [Ledger!Next]_(Ledger!ledger)
    <2> SUFFICES ASSUME Inv, [Next]_vars PROVE [Ledger!Next]_(Ledger!ledger)
      OBVIOUS
    <2>1. Change(disk, disk') /\ disk \in Tables /\ used \subseteq Lines
      BY StepStore DEF Inv, TypeInv, TypeOK
    <2>2. ASSUME NEW c \in Cards, NEW p \in Phones, disk.status[c] = "D",
                 disk' = Activated(disk, c, p)
          PROVE  Ledger!Activate(c, p)
      BY <2>1, <2>2 DEF Activated, Tables, Ledger!Activate
    <2>3. ASSUME NEW c \in Cards, NEW l \in used, NEW p \in Products, disk.status[c] = "A",
                 Fresh(disk, l), disk' = Inserted(disk, c, l, p)
          PROVE  Ledger!Charge(c, l) \/ disk' = disk
      BY <2>1, <2>3 DEF Inserted, Fresh, Tables, Ledger!Charge
    <2>4. ASSUME NEW c \in Cards, disk' = Totalled(disk, c)
          PROVE  UNCHANGED Ledger!ledger
      BY <2>1, <2>4 DEF Totalled, Tables, Ledger!ledger
    <2>5. ASSUME NEW c \in Cards, disk.status[c] = "A", disk' = Settled(disk, c)
          PROVE  Ledger!Settle(c)
      BY <2>1, <2>5, SettledTables DEF Ledger!Settle
    <2>6. disk' = disk => UNCHANGED Ledger!ledger
      BY DEF Ledger!ledger
    <2> QED
      BY <2>1, <2>2, <2>3, <2>4, <2>5, <2>6 DEF Change, Ledger!Next
  <1> QED
    BY <1>1, <1>2, StoreInvariant, PTL DEF Spec, RefinesLedger, Ledger!Spec

-----------------------------------------------------------------------------
(* An ok given for a consumption is kept.                                  *)

Charged(t, l) == t.row[l] # NoCard \/ t.counted[l] > 0

\* A request r for an existing product, whose handler is at step p with result x,
\* has written its line.
Wrote(p, r, x) ==
    /\ r.op = "register" /\ r.product \in Catalog
    /\ p = "total" \/ (p = "reply" /\ x = "Ok")

AckInv ==
    /\ \A l \in acked : Charged(disk, l)
    /\ \A h \in Handlers :
         Wrote(pc[h], req[h], result[h]) => Charged(disk, req[h].line)

\* A line that is on a card or in the totals stays so when the tables change.
LEMMA ChangeKeepsCharged ==
    ASSUME NEW t \in Tables, NEW u \in Tables, used \subseteq Lines, Change(t, u),
           NEW l \in Lines, Charged(t, l)
    PROVE  Charged(u, l)
  <1>1. ASSUME NEW c \in Cards, NEW p \in Phones, u = Activated(t, c, p)
        PROVE  Charged(u, l)
    BY <1>1 DEF Activated, Charged, Tables
  <1>2. ASSUME NEW c \in Cards, NEW k \in used, NEW p \in Products,
               u = Inserted(t, c, k, p)
        PROVE  Charged(u, l)
    BY <1>2, CardsAssumption DEF Inserted, Charged, Tables
  <1>3. ASSUME NEW c \in Cards, u = Totalled(t, c)
        PROVE  Charged(u, l)
    BY <1>3 DEF Totalled, Charged, Tables
  <1>4. ASSUME NEW c \in Cards, u = Settled(t, c)
        PROVE  Charged(u, l)
    <2>1. /\ u.row = [k \in Lines |-> IF t.row[k] = c THEN NoCard ELSE t.row[k]]
          /\ u.counted = [k \in Lines |-> IF t.row[k] = c THEN t.counted[k] + 1
                                                         ELSE t.counted[k]]
      BY <1>4, SettledTables
    <2> QED
      BY <2>1 DEF Charged, Tables
  <1> QED
    BY <1>1, <1>2, <1>3, <1>4 DEF Change

\* A handler comes to have written its line only by its own INSERT.
LEMMA StepWrote ==
    ASSUME Inv, [Next]_vars, NEW h \in Handlers,
           Wrote(pc[h], req[h], result[h])'
    PROVE  \/ Wrote(pc[h], req[h], result[h]) /\ req'[h] = req[h]
           \/ Insert(h) /\ Goto(h, "total")
  <1>0. /\ pc \in [Handlers -> Steps \cup Outside]
        /\ req \in [Handlers -> Request \cup {NoRequest}]
        /\ result \in [Handlers -> Results]
        /\ HandlerOK(pc[h], req[h])
    BY Known DEF LocalOK
  <1>1. ASSUME NEW g \in Handlers, g # h, Handle(g)
        PROVE  pc'[h] = pc[h] /\ req'[h] = req[h] /\ result'[h] = result[h]
    BY <1>1, OthersKeep DEF Inv
  <1>2. CASE StartActivate(h) \/ StartRegister(h) \/ StartOther(h)
    <2>1. PICK r : Start(h, r)
      BY <1>2 DEF StartActivate, StartRegister, StartOther
    <2>2. pc'[h] # "total" /\ (pc'[h] = "reply" => result'[h] # "Ok")
      BY <1>0, <2>1 DEF Start
    <2> QED
      BY <2>2 DEF Wrote
  <1>3. CASE Check(h)
    <2>1. pc[h] = "check" /\ req[h].op \in Ops \ {"report"}
      BY <1>3, Known, CheckedRequest DEF Request
    <2>2. pc'[h] # "total" /\ (pc'[h] = "reply" => result'[h] # "Ok")
      BY <1>0, <1>3, <2>1 DEF Check, AfterCheck, Goto, Return, Ops
    <2> QED
      BY <2>2 DEF Wrote
  <1>4. CASE UpdateTotal(h)
    <2>1. pc[h] = "total"
      BY <1>4 DEF UpdateTotal
    <2>2. req' = req
      BY <1>4 DEF UpdateTotal, Return
    <2>3. Wrote(pc[h], req[h], result[h])
      BY <2>1, <2>2 DEF Wrote
    <2> QED
      BY <2>2, <2>3
  <1>5. CASE Insert(h)
    BY <1>0, <1>5 DEF Insert, Goto, Return, HandlerOK, Wrote
  <1>6. CASE \/ Activate(h) \/ BeginClose(h) \/ Aggregate(h) \/ Delete(h) \/ Deactivate(h)
             \/ CommitClose(h) \/ RollbackClose(h) \/ ReadLines(h) \/ Query(h)
    <2>1. req[h].op # "register" /\ req' = req
      BY <1>0, <1>6 DEF Activate, BeginClose, Aggregate, Delete, Deactivate, CommitClose,
         RollbackClose, ReadLines, Query, Goto, Return, GiveUp, HandlerOK, Closing
    <2> QED
      BY <2>1 DEF Wrote
  <1>7. CASE Reply(h)
    BY <1>0, <1>7 DEF Reply, Wrote, NoRequest
  <1>8. CASE Restart
    BY <1>8 DEF Restart, Wrote, NoRequest
  <1>9. CASE UNCHANGED vars
    BY <1>9 DEF vars, handling, Wrote
  <1> QED
    BY <1>1, <1>2, <1>3, <1>4, <1>5, <1>6, <1>7, <1>8, <1>9 DEF Next, Handle, Wrote

\* A line counts as acknowledged only when the handler that wrote it replies.
LEMMA AckedBy ==
    ASSUME Inv, [Next]_vars, NEW l \in acked'
    PROVE  l \in acked \/ \E h \in Handlers : /\ Wrote(pc[h], req[h], result[h])
                                            /\ l = req[h].line
  <1>1. ASSUME NEW h \in Handlers, Handle(h), ~Reply(h)
        PROVE  acked' = acked
    <2>1. CASE StartActivate(h) \/ StartRegister(h) \/ StartOther(h)
      BY <2>1 DEF StartActivate, StartRegister, StartOther, Start
    <2>2. CASE Check(h)
      <3>1. req[h].op \in Ops \ {"report"}
        BY <2>2, Known, CheckedRequest DEF Request
      <3> QED
        BY <2>2, <3>1 DEF Check, AfterCheck, Ops, Goto, Return
    <2>3. CASE Activate(h) \/ Insert(h) \/ UpdateTotal(h)
      BY <2>3 DEF Activate, Insert, UpdateTotal, Goto, Return
    <2>4. CASE BeginClose(h) \/ Aggregate(h) \/ Delete(h) \/ Deactivate(h)
      BY <2>4 DEF BeginClose, Aggregate, Delete, Deactivate, Goto, Return, GiveUp
    <2>5. CASE CommitClose(h) \/ RollbackClose(h) \/ ReadLines(h) \/ Query(h)
      BY <2>5 DEF CommitClose, RollbackClose, ReadLines, Query, Goto, Return
    <2> QED
      BY <1>1, <2>1, <2>2, <2>3, <2>4, <2>5 DEF Handle
  <1>2. ASSUME NEW h \in Handlers, Reply(h)
        PROVE  \/ acked' = acked
               \/ Wrote(pc[h], req[h], result[h]) /\ acked' = acked \cup {req[h].line}
    <2>1. HandlerOK(pc[h], req[h])
      BY Known
    <2> QED
      BY <1>2, <2>1 DEF Reply, Wrote, Outside, HandlerOK
  <1>3. CASE Restart \/ UNCHANGED vars
    BY <1>3 DEF Restart, vars
  <1> QED
    BY <1>1, <1>2, <1>3 DEF Next

\* An add_consumption of an existing product that was answered ok stays on the card
\* or in the totals.
THEOREM AckedIsChargedWhenDisciplined ==
    ASSUME "race" \notin Faults, Disciplined
    PROVE  Spec => []AckedIsCharged
  <1>1. Init => AckInv
    BY DEF Init, AckInv, Wrote
  <1>2. Inv /\ AckInv /\ [Next]_vars => AckInv'
    <2> SUFFICES ASSUME Inv, AckInv, [Next]_vars PROVE AckInv'
      OBVIOUS
    <2>1. /\ Change(disk, disk') /\ disk \in Tables /\ disk' \in Tables
          /\ used \subseteq Lines /\ TypeInv /\ TypeInv'
      BY StepStore DEF Inv, TypeInv, TypeOK
    <2>2. \A l \in Lines : Charged(disk, l) => Charged(disk', l)
      BY <2>1, ChangeKeepsCharged
    <2>3. ASSUME NEW h \in Handlers, Wrote(pc[h], req[h], result[h])'
          PROVE  Charged(disk', req'[h].line)
      <3>1. CASE Wrote(pc[h], req[h], result[h]) /\ req'[h] = req[h]
        <4>1. req[h].line \in Lines
          BY <3>1, Known DEF HandlerOK, Wrote
        <4> QED
          BY <2>2, <3>1, <4>1 DEF AckInv
      <3>2. CASE Insert(h) /\ Goto(h, "total")
        <4>1. /\ req[h].line \in Lines /\ req[h].uid \in Cards /\ req[h].product \in Catalog
              /\ req' = req
          BY <2>3, <3>2, Known DEF Insert, Goto, HandlerOK, Wrote
        <4>2. \/ disk' = Inserted(disk, req[h].uid, req[h].line, req[h].product)
              \/ Return(h, "UnknownError")
          BY <2>1, <3>2, InsertKeeps
        <4>3. pc'[h] = "total"
          BY <2>1, <3>2 DEF Goto, TypeInv, TypeOK
        <4>4. ~Return(h, "UnknownError")
          BY <2>1, <4>3 DEF Return, TypeInv, TypeOK
        <4>5. disk'.row[req[h].line] = req[h].uid
          BY <2>1, <4>1, <4>2, <4>4 DEF Inserted, Tables
        <4> QED
          BY <4>1, <4>5, CardsAssumption DEF Charged
      <3> QED
        BY <2>3, <3>1, <3>2, StepWrote
    <2>4. ASSUME NEW l \in acked'
          PROVE  Charged(disk', l)
      <3>1. l \in acked \/ \E h \in Handlers : /\ Wrote(pc[h], req[h], result[h])
                                              /\ l = req[h].line
        BY <2>4, AckedBy
      <3> QED
        BY <2>1, <2>2, <2>4, <3>1 DEF AckInv, TypeInv, TypeOK
    <2> QED
      BY <2>3, <2>4 DEF AckInv
  <1>3. AckInv => AckedIsCharged
    BY DEF AckInv, Charged, AckedIsCharged
  <1> QED
    BY <1>1, <1>2, <1>3, StoreInvariant, PTL DEF Spec
-----------------------------------------------------------------------------
(* What the answers say.                                                   *)

\* A closeCard that is about to roll back has no transaction left to commit.
NothingToRollBack == \A g \in Handlers : pc[g] = "rollback" => tx # "open"

\* A step of one handler keeps it: what fails inside a transaction ends it.
LEMMA StepRollback ==
    ASSUME "race" \notin Faults, Inv, NothingToRollBack, NEW h \in Handlers, Handle(h)
    PROVE  NothingToRollBack'
  <1>0. DbOK /\ LocalOK /\ Contended(h) \in BOOLEAN /\ HandlerOK(pc[h], req[h])
    BY Known
  \* The other handlers: BEGIN is the only way to an open transaction.
  <1>1. ASSUME NEW g \in Handlers, g # h, pc'[g] = "rollback"
        PROVE  tx' # "open"
    <2>1. pc[g] = "rollback" /\ tx # "open" /\ req[g].op = "close"
      BY <1>1, OthersKeep, Known DEF Inv, NothingToRollBack, HandlerOK, Closing
    <2>2. CASE StartActivate(h) \/ StartRegister(h) \/ StartOther(h) \/ Reply(h)
      BY <2>1, <2>2 DEF StartActivate, StartRegister, StartOther, Start, Reply, db
    <2>3. CASE \E t : Execute(t) \/ ExecuteFails(t, Contended(h))
      BY <2>1, <2>3 DEF Execute, ExecuteFails, Acts, Rejected, Dropped, Raced, OnDeadLink, db
    <2>4. CASE BeginClose(h)
      <3>1. req[h].op = "close"
        BY <1>0, <2>4 DEF BeginClose, HandlerOK
      <3> QED
        BY <1>1, <2>1, <3>1 DEF Inv, StoreInv, Apart, Clash, Writing
    <2>5. CASE CommitClose(h) \/ RollbackClose(h)
      BY <2>1, <2>5 DEF CommitClose, RollbackClose, Commit, CommitFails, Rollback, Acts,
                        Dropped, Raced, OnDeadLink, db
    <2> QED
      BY <2>2, <2>3, <2>4, <2>5 DEF Handle, Query, Check, Activate, Insert, UpdateTotal,
         Aggregate, Delete, Deactivate, ReadLines
  <1>2. ASSUME pc'[h] = "rollback"
        PROVE  tx' # "open"
    <2>0. pc \in [Handlers -> Steps \cup Outside]
      BY <1>0 DEF LocalOK
    <2>1. CASE Aggregate(h) \/ Delete(h) \/ Deactivate(h)
      <3>1. PICK t : ExecuteFails(t, Contended(h))
        BY <1>2, <2>0, <2>1 DEF Aggregate, Delete, Deactivate, Goto
      <3> QED
        BY <3>1, Known DEF ExecuteFails, Rejected, Dropped, Raced, OnDeadLink, TxInv, db
    <2>2. CASE Check(h)
      <3>1. req[h].op \in Ops \ {"report"}
        BY <1>0, <2>2, CheckedRequest DEF Request
      <3> QED
        BY <1>2, <2>0, <2>2, <3>1 DEF Check, AfterCheck, Ops, Goto, Return
    <2>3. CASE StartActivate(h) \/ StartRegister(h) \/ StartOther(h) \/ Reply(h)
      <3>1. \E p \in {"reply", "query", "check", "idle"} : pc' = [pc EXCEPT ![h] = p]
        BY <2>3, StartStep DEF StartActivate, StartRegister, StartOther, Reply
      <3> QED
        BY <1>2, <2>0, <3>1
    <2>4. CASE Query(h) \/ Activate(h) \/ Insert(h) \/ UpdateTotal(h) \/ ReadLines(h)
      BY <1>2, <2>0, <2>4 DEF Query, Activate, Insert, UpdateTotal, ReadLines, Goto, Return
    <2>5. CASE BeginClose(h) \/ CommitClose(h) \/ RollbackClose(h)
      BY <1>2, <2>0, <2>5 DEF BeginClose, CommitClose, RollbackClose, Goto, Return
    <2> QED
      BY <2>1, <2>2, <2>3, <2>4, <2>5 DEF Handle
  <1> QED
    BY <1>1, <1>2 DEF NothingToRollBack

\* validate_exit reads 'D' only from the disk or from a checkout that has nothing
\* left to do but its COMMIT.
THEOREM ExitSeesCheckoutWhenDisciplined ==
    ASSUME "race" \notin Faults, Disciplined
    PROVE  Spec => ExitSeesCheckout
  <1>1. Init => NothingToRollBack
    BY DEF Init, NothingToRollBack
  <1>2. Inv /\ NothingToRollBack /\ [Next]_vars => NothingToRollBack'
    <2>1. CASE Restart
      BY <2>1 DEF Restart, NothingToRollBack
    <2>2. CASE UNCHANGED vars
      BY <2>2 DEF vars, db, handling, NothingToRollBack
    <2> QED
      BY <2>1, <2>2, StepRollback DEF Next
  <1>3. ASSUME Inv, NothingToRollBack, [Next]_vars, NEW h \in Handlers,
               pc[h] = "check", pc'[h] = "lines closed"
        PROVE  \/ disk.status[req[h].uid] = "D"
               \/ \E g \in Handlers : pc[g] = "commit" /\ req[g].uid = req[h].uid
    <2>1. Check(h)
      <3>1. ~Restart /\ ~UNCHANGED vars
        BY <1>3 DEF Restart, vars, handling
      <3>2. ASSUME NEW g \in Handlers, Handle(g)
            PROVE  Check(h)
        <4>1. g = h
          BY <1>3, <3>2, OthersKeep DEF Inv
        <4> QED
          BY <1>3, <3>2, <4>1 DEF Handle, StartActivate, StartRegister, StartOther, Start,
             Query, CommitClose, Activate, Insert, UpdateTotal, BeginClose, Aggregate, Delete,
             Deactivate, RollbackClose, ReadLines, Reply, Outside
      <3> QED
        BY <1>3, <3>1, <3>2 DEF Next
    <2>2. req[h].uid \in Cards /\ work.status[req[h].uid] = "D" /\ Execute(work)
      <3>1. req[h].op \in Ops \ {"report"} /\ pc \in [Handlers -> Steps \cup Outside]
        BY <1>3, <2>1, Known, CheckedRequest DEF Request, LocalOK
      <3> QED
        BY <1>3, <2>1, <3>1 DEF Check, AfterCheck, Ops, Goto, Return
    <2>3. CASE tx # "open"
      BY <1>3, <2>2, <2>3 DEF Inv, StoreInv, ConnInv
    <2>4. CASE tx = "open"
      <3>1. PICK g \in Handlers : pc[g] \in InTx
        BY <1>3, <2>4 DEF Inv, TxInv, NothingToRollBack, Closing, InTx
      <3>2. /\ work = Pending(pc[g], disk, req[g].uid) /\ req[g].uid \in Cards
            /\ disk \in Tables
        BY <1>3, <2>4, <3>1, Known DEF WriterOK, HandlerOK, InTx, Closing
      <3>3. CASE pc[g] = "commit"
        <4>1. work.status = [disk.status EXCEPT ![req[g].uid] = "D"]
          BY <3>2, <3>3, SettledTables DEF Pending
        <4> QED
          BY <2>2, <3>2, <3>3, <4>1 DEF Tables
      <3>4. CASE pc[g] # "commit"
        <4>1. work.status = disk.status
          BY <3>1, <3>2, <3>4, StatementTypes DEF Pending, Aggregated, Deleted, InTx, Tables
        <4> QED
          BY <2>2, <4>1
      <3> QED
        BY <3>3, <3>4
    <2> QED
      BY <2>3, <2>4
  <1>4. Inv /\ NothingToRollBack /\ [Next]_vars =>
          \A h \in Handlers :
            pc[h] = "check" /\ pc'[h] = "lines closed"
            => \/ disk.status[req[h].uid] = "D"
               \/ \E g \in Handlers : pc[g] = "commit" /\ req[g].uid = req[h].uid
    BY <1>3
  <1> QED
    BY <1>1, <1>2, <1>4, StoreInvariant, PTL DEF Spec, ExitSeesCheckout

\* An Ok of activateCard or registerConsumption is true on disk when it is returned,
\* whatever the other handlers do to other cards, or add to the same one, meanwhile.
THEOREM OkIsCommittedWhenDisciplined ==
    ASSUME "race" \notin Faults, Disciplined
    PROVE  Spec => OkIsCommitted
  <1>1. ASSUME Inv, [Next]_vars, NEW h \in Handlers,
               pc[h] # "reply", pc'[h] = "reply", result'[h] = "Ok"
        PROVE  Done(req[h], disk')
    <2>1. /\ pc \in [Handlers -> Steps \cup Outside] /\ result \in [Handlers -> Results]
          /\ HandlerOK(pc[h], req[h]) /\ WriterOK(pc[h], req[h], disk, work, tx, link)
          /\ disk \in Tables
      BY <1>1, Known DEF LocalOK
    <2>2. Handle(h)
      <3>1. ~Restart /\ ~UNCHANGED vars
        BY <1>1 DEF Restart, vars, handling
      <3>2. ASSUME NEW g \in Handlers, Handle(g)
            PROVE  g = h
        BY <1>1, <3>2, OthersKeep DEF Inv
      <3> QED
        BY <1>1, <3>1, <3>2 DEF Next
    <2>3. /\ req[h].op = "activate" => pc[h] \in {"check", "activate"}
          /\ req[h].op = "register" => pc[h] \in {"check", "insert", "total"}
      BY <1>1, <2>1 DEF HandlerOK, Steps, Outside, Closing
    <2>4. ~Return(h, "InvalidState") /\ ~Return(h, "NotFound") /\ ~Return(h, "UnknownError")
      BY <1>1, <2>1 DEF Return
    <2>5. CASE req[h].op = "activate"
      <3>1. Activate(h)
        <4>1. ~Check(h)
          BY <1>1, <2>1, <2>4, <2>5 DEF Check, AfterCheck, Goto
        <4> QED
          BY <2>2, <2>3, <2>5, <4>1 DEF Handle, StartActivate, StartRegister, StartOther,
             Start, Query, Insert, UpdateTotal, BeginClose, Aggregate, Delete, Deactivate,
             CommitClose, RollbackClose, ReadLines, Reply, Outside
      <3>2. Execute(Activated(work, req[h].uid, req[h].phone))
        BY <2>4, <3>1 DEF Activate
      <3>3. req[h].uid \in Cards /\ pc[h] = "activate"
        BY <2>1, <3>1 DEF Activate, HandlerOK
      <3>4. tx = "idle" /\ work = disk
        BY <1>1, <2>5, <3>3, WriterAlone DEF Closing, Writing
      <3>5. disk' = Activated(disk, req[h].uid, req[h].phone)
        BY <3>2, <3>4 DEF Execute, Acts, Persisted
      <3> QED
        BY <2>1, <2>5, <3>3, <3>5 DEF Done, Activated, Tables
    <2>6. CASE req[h].op = "register"
      <3>1. UpdateTotal(h)
        <4>1. ~Check(h)
          BY <1>1, <2>1, <2>4, <2>6 DEF Check, AfterCheck, Goto
        <4>2. ~Insert(h)
          BY <1>1, <2>1, <2>4 DEF Insert, Goto
        <4> QED
          BY <2>2, <2>3, <2>6, <4>1, <4>2 DEF Handle, StartActivate, StartRegister,
             StartOther, Start, Query, Activate, BeginClose, Aggregate, Delete, Deactivate,
             CommitClose, RollbackClose, ReadLines, Reply, Outside
      <3>2. Execute(Totalled(work, req[h].uid))
        BY <2>4, <3>1 DEF UpdateTotal
      <3>3. req[h].uid \in Cards /\ pc[h] = "total"
        BY <2>1, <3>1 DEF UpdateTotal, HandlerOK
      <3>4. req[h].product \in Catalog => disk.row[req[h].line] = req[h].uid
        BY <2>1, <3>3 DEF WriterOK
      <3>5. tx = "idle" /\ work = disk
        BY <1>1, <2>6, <3>3, WriterAlone DEF Closing, Writing
      <3>6. disk' = Totalled(disk, req[h].uid)
        BY <3>2, <3>5 DEF Execute, Acts, Persisted
      <3>7. /\ disk'.row = disk.row
            /\ disk'.total = [disk.total EXCEPT ![req[h].uid] = RowsOf(disk, req[h].uid)]
        BY <2>1, <3>6 DEF Totalled, Tables
      <3> QED
        BY <2>1, <2>6, <3>3, <3>4, <3>7 DEF Done, RowsOf, Tables
    <2>7. CASE req[h].op \notin {"activate", "register"}
      BY <2>7 DEF Done
    <2> QED
      BY <2>5, <2>6, <2>7
  <1>2. Inv /\ [Next]_vars =>
          \A h \in Handlers :
            pc[h] # "reply" /\ pc'[h] = "reply" /\ result'[h] = "Ok" => Done(req[h], disk')
    BY <1>1
  <1> QED
    BY <1>2, StoreInvariant, PTL DEF Spec, OkIsCommitted
=============================================================================
