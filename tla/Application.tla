----------------------------- MODULE Application ----------------------------
(***************************************************************************)
(* Processes built on ApplicationContainer: each connects, places one      *)
(* order and exits with what create_order has answered, as sqlx_app and    *)
(* sea_orm_app do, and may be killed anywhere.  A process that is gone     *)
(* takes no more steps: its connections close, and the server sees to its  *)
(* session.  Each process has a pool of its own.  The binaries order an    *)
(* item they have just invented, one of those without a row.               *)
(***************************************************************************)
EXTENDS OrderManagement

VARIABLE exit  \* where each process is

appVars == <<orderVars, exit>>

Dead == {"success", "failure", "killed"}

\* Every variable has its type; a process that has not connected has done nothing.
AppTypeOK ==
  /\ OrderTypeOK
  /\ exit \in [Call -> {"starting", "running"} \cup Dead]
  /\ \A t \in Call : exit[t] = "starting" => phase[t] = "idle"

AppInit == OrderInit /\ exit = [t \in Call |-> "starting"]

Becomes(t, e) == exit' = [exit EXCEPT ![t] = e]
-----------------------------------------------------------------------------
\* new_with_sqlx or new_with_sea_orm: the pool opens a connection, or the process exits.
Connect(t) ==
  /\ exit[t] = "starting"
  /\ Becomes(t, "running") \/ Becomes(t, "failure")
  /\ UNCHANGED orderVars

\* Mutant of PlaceOrder: the process does not wait for its connection.
PlaceOrderEarly(t) ==
  /\ exit[t] \in {"starting", "running"}
  /\ \E i \in Item, q \in Requests : CreateOrder(t, i, q)
  /\ UNCHANGED exit

PlaceOrder(t) ==
  /\ exit[t] = "running"
  /\ \E i \in Item, q \in Requests : CreateOrder(t, i, q)
  /\ UNCHANGED exit

RejectDemo(t) ==
  /\ exit[t] = "running"
  /\ \E q \in Requests : RejectOrder(t, q)
  /\ UNCHANGED exit

\* The process's own task runs create_order.
Runs(t) ==
  /\ exit[t] = "running"
  /\ \/ LockForStatement(t) \/ FindInventory(t) \/ UpdateInventory(t) \/ InsertOrder(t)
     \/ StatementFails(t) \/ OrderReturns(t)
     \/ /\ Begin(t) \/ BeginErr(t) \/ TryUnwrap(t) \/ CommitOk(t) \/ CommitErr(t) \/ Rollback(t)
        /\ UNCHANGED localVars
  /\ UNCHANGED exit

\* Mutant of Exit: main prints the error and returns Ok.
ExitOk(t) ==
  /\ exit[t] = "running"
  /\ phase[t] \in {"ok", "err"} \/ step[t] = "rejected"
  /\ Becomes(t, "success")
  /\ UNCHANGED orderVars

\* main returns what create_order has answered.
Exit(t) ==
  /\ exit[t] = "running"
  /\ \/ phase[t] = "ok" /\ Becomes(t, "success")
     \/ (phase[t] = "err" \/ step[t] = "rejected") /\ Becomes(t, "failure")
  /\ UNCHANGED orderVars

Kill(t) == exit[t] \in {"starting", "running"} /\ Becomes(t, "killed") /\ UNCHANGED orderVars

\* Mutant of Server: the connections of a process that is killed stay open.
ServerKeeps(t) ==
  /\ \/ CommitApplied(t) \/ SessionEnds(t)
     \/ exit[t] # "killed" /\ ConnectionLost(t)
  /\ UNCHANGED <<localVars, exit>>

\* The server, and the network between: a connection may break, that of a dead process does.
Server(t) ==
  /\ CommitApplied(t) \/ SessionEnds(t) \/ ConnectionLost(t)
  /\ UNCHANGED <<localVars, exit>>

AppNext ==
  \E t \in Call :
    Connect(t) \/ PlaceOrder(t) \/ RejectDemo(t) \/ Runs(t) \/ Exit(t) \/ Kill(t) \/ Server(t)

AppSafety == AppInit /\ [][AppNext]_appVars

\* A runtime polls the process's task and the server answers; the operating system closes
\* the sockets of a dead process, and the server notices.
AppFairness ==
  \A t \in Call :
    /\ WF_appVars(exit[t] = "running" /\ Proceed(t) /\ UNCHANGED exit)
    /\ WF_appVars(Exit(t))
    /\ WF_appVars(exit[t] \in Dead /\ Server(t))

AppSpec == AppSafety /\ AppFairness
-----------------------------------------------------------------------------
(***************************************************************************)
(* Properties.                                                             *)
(***************************************************************************)
\* The exit status tells whether the order was placed, in the tables and not only in what
\* create_order answered.
ExitTells ==
  \A t \in Call :
    /\ exit[t] = "success" => db[t] # NoRow
    /\ exit[t] = "failure" => db[t] = NoRow

\* A process that has started its order exits or is killed: it does not wait for ever for a
\* row that another had locked when it was killed.
OrderEnds == \A t \in Call : exit[t] = "running" /\ step[t] = "find" ~> exit[t] \in Dead
=============================================================================
