----------------------------- MODULE DBQueryWriter -----------------------------
(***************************************************************************)
(* A DBWriteThread whose OnWrite stores the packet with QueryFactory, as a *)
(* server would: it makes a query out of one or two MAKE_ calls in the     *)
(* writer's own BufInfo and executes it, while producers go on.            *)
(***************************************************************************)
EXTENDS DBWriteThread, QueryFactory

allVars == <<vars, queryVars>>

\* The calls that make a query of their own, and those that begin one.
Statements ==
    UNION { {MAKE_QUERY(n), MAKE_SELECT_FROM(1, n), MAKE_SELECT_FROM(n, 0),
             MAKE_INSERT_INTO(TRUE, 1, n), MAKE_UPDATE_SET(FALSE, 1, n)}
            : n \in Lengths }

Complete == made # <<>> /\ made[Len(made)] = ";"

MakeQuery ==
    /\ writer = "write"
    /\ \/ made = <<>> /\ \E parts \in Statements : Make(parts)
       \/ made # <<>> /\ ~Complete /\ \E n \in Lengths : Make(MAKE_WHERE(TRUE, n))
       \/ PrintPart
    /\ UNCHANGED vars

\* OnWrite returns when the query was executed.
Store == writer = "write" /\ Complete /\ Execute

QInit == Init /\ QueryInit

QNext ==
    \/ MakeQuery
    \/ Next /\ IF writer = "write" /\ writer' # "write" THEN Store ELSE UNCHANGED queryVars

QWriterStep ==
    \/ MakeQuery
    \/ WriterStep /\ IF writer = "write" THEN Store ELSE UNCHANGED queryVars

Alone(A) == A /\ UNCHANGED queryVars

\* As LiveSpec of DBWriteThread: threads that can run do run.
QSpec ==
    /\ QInit /\ [][QNext]_allVars
    /\ WF_allVars(QWriterStep) /\ WF_allVars(Alone(Start))
    /\ WF_allVars(Alone(WakeForShutDown)) /\ WF_allVars(Alone(WaitUntilDbWriteComplete))
    /\ \A p \in Producers : WF_allVars(Alone(RequestStep(p)))

===============================================================================
