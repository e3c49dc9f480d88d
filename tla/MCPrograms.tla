------------------------------ MODULE MCPrograms ------------------------------
(* The small threaded programs, for TLC: each behaviour runs one of them and *)
(* leaves the others where they begin.                                       *)
EXTENDS EventLoopThread, Log, SqlConnPool, ThreadPool

VARIABLE which    \* the program of this behaviour

mcVars == <<which, vars, logVars, sqlVars, poolVars>>

MCInit == /\ which \in {"loops", "log", "sql", "pool"}
          /\ Init /\ InitLog /\ InitSql /\ InitPool

MCNext ==
  \/ which = "loops" /\ Next /\ UNCHANGED <<which, logVars, sqlVars, poolVars>>
  \/ which = "log" /\ NextLog /\ UNCHANGED <<which, vars, sqlVars, poolVars>>
  \/ which = "sql" /\ NextSql /\ UNCHANGED <<which, vars, logVars, poolVars>>
  \/ which = "pool" /\ NextPool /\ UNCHANGED <<which, vars, logVars, sqlVars>>

\* Every thread of the program that runs is scheduled.
MCSpec ==
  /\ MCInit /\ [][MCNext]_mcVars
  /\ WF_vars(which = "loops" /\ MainStep)
  /\ \A t \in Threads : WF_vars(which = "loops" /\ ThreadStep(t))
  /\ WF_logVars(which = "log" /\ Writer)
  /\ \A t \in Loggers : WF_logVars(which = "log" /\ Logger(t))
  /\ WF_poolVars(which = "pool" /\ Caller)
  /\ \A w \in Workers : WF_poolVars(which = "pool" /\ WorkerStep(w))
===============================================================================
