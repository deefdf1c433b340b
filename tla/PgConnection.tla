---------------------------- MODULE PgConnection ----------------------------
(***************************************************************************)
(* The one PostgreSQL connection of the backend (Database::conn_) and the  *)
(* tables behind it.  Every thread of the program issues its statements    *)
(* through this PGconn; nothing in Database.cpp serialises them, so the    *)
(* transaction that one thread opens is the transaction of all of them.    *)
(*                                                                         *)
(* A statement is one atomic step of the server.  Outside a transaction it *)
(* commits by itself; inside one it changes only what the connection sees. *)
(* A statement the server rejects inside a transaction aborts it: until    *)
(* COMMIT or ROLLBACK every further statement is rejected, and COMMIT then *)
(* succeeds although it commits nothing.  BEGIN inside a transaction, and  *)
(* COMMIT or ROLLBACK outside one, only produce a warning.                 *)
(*                                                                         *)
(* Faults names what may go wrong with a call:                             *)
(*   "error"  the server rejects the statement                             *)
(*   "drop"   the connection breaks, before or after the server acted      *)
(*   "race"   another thread is inside libpq on the same PGconn: the call  *)
(*            is refused unsent, or its result is taken by the other       *)
(*            thread, so that it acted and is reported as failed           *)
(*   "restart" the process dies and is started again                       *)
(***************************************************************************)
CONSTANT Faults

ASSUME FaultsAssumption == Faults \subseteq {"error", "drop", "race", "restart"}

VARIABLES
    disk,   \* the committed tables
    work,   \* the tables as statements on this connection see them
    tx,     \* transaction status of the connection
    link    \* PQstatus(conn_) = CONNECTION_OK

db == <<disk, work, tx, link>>

\* Database::connect, called once by main before any thread starts.
Connect(tables) ==
    /\ disk = tables
    /\ work = tables
    /\ tx = "idle"
    /\ link = TRUE

IsAlive == link

\* What is on disk once the server has executed a statement that gives tables t.
Persisted(t) == IF tx = "idle" THEN t ELSE disk

-----------------------------------------------------------------------------
(* Outcomes of one call that takes the server to (d, w, x).                *)

\* PQresultStatus says the call worked.
Acts(d, w, x) ==
    /\ link
    /\ disk' = d
    /\ work' = w
    /\ tx' = x
    /\ UNCHANGED link

\* The server answers with an error.
Rejected ==
    /\ "error" \in Faults
    /\ link
    /\ tx' = IF tx = "idle" THEN "idle" ELSE "aborted"
    /\ work' = disk
    /\ UNCHANGED <<disk, link>>

\* The connection breaks; an open transaction is rolled back by the server.
Dropped(d) ==
    /\ "drop" \in Faults
    /\ link
    /\ disk' \in {disk, d}
    /\ work' = disk'
    /\ tx' = "idle"
    /\ link' = FALSE

\* Two threads are inside libpq at once.
Raced(d, w, x) ==
    /\ "race" \in Faults
    /\ \/ UNCHANGED db
       \/ Acts(d, w, x)

\* A call on a connection that is already known to be broken.
OnDeadLink == ~link /\ UNCHANGED db

-----------------------------------------------------------------------------
(* The calls.  t is what the tables become; a SELECT leaves them as work.  *)

Execute(t) == tx # "aborted" /\ Acts(Persisted(t), t, tx)

ExecuteFails(t, contended) ==
    \/ OnDeadLink
    \/ link /\ tx = "aborted" /\ UNCHANGED db
    \/ Rejected
    \/ Dropped(Persisted(t))
    \/ contended /\ tx # "aborted" /\ Raced(Persisted(t), t, tx)

Begin == tx # "aborted" /\ Acts(disk, work, "open")

BeginFails(contended) ==
    \/ OnDeadLink
    \/ link /\ tx = "aborted" /\ UNCHANGED db
    \/ Dropped(disk)
    \/ contended /\ tx # "aborted" /\ Raced(disk, work, "open")

\* What COMMIT makes durable: the open transaction, nothing of an aborted one.
Outcome == IF tx = "open" THEN work ELSE disk

Commit == Acts(Outcome, Outcome, "idle")

CommitFails(contended) ==
    \/ OnDeadLink
    \/ Dropped(Outcome)
    \/ contended /\ Raced(Outcome, Outcome, "idle")

\* The result of ROLLBACK is never looked at: one operator for all outcomes.
Rollback(contended) ==
    \/ Acts(disk, disk, "idle")
    \/ OnDeadLink
    \/ Dropped(disk)
    \/ contended /\ Raced(disk, disk, "idle")

\* The process ends and main connects again: the server forgets the
\* transaction of the old connection.
Reconnect ==
    /\ "restart" \in Faults
    /\ work' = disk
    /\ tx' = "idle"
    /\ link' = TRUE
    /\ UNCHANGED disk
=============================================================================
