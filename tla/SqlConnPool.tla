------------------------------ MODULE SqlConnPool ------------------------------
(* The pool of database connections of tinyWebServer (sqlconnpool.cpp) and   *)
(* its only client, HttpRequest::UserVerify on the worker threads. The       *)
(* SqlConnRAII object of UserVerify has no name: it is destroyed at the end  *)
(* of its statement, before the query.                                       *)
EXTENDS Naturals, Sequences, FiniteSets

CONSTANTS Conns, Verifiers     \* connections, and worker threads

ASSUME PoolAssumption == IsFiniteSet(Conns) /\ IsFiniteSet(Verifiers)

VARIABLES
  connQue_, semId_,
  step,        \* [Verifiers -> idle, sem, pop, free, query, answer; null: the program is aborted]
  sql,         \* [Verifiers -> the connection the thread uses, or {}]
  dbClosed     \* the pool is closed

sqlVars == <<connQue_, semId_, step, sql, dbClosed>>

\* Init: connections are alike, so their first order is any.
InitSql == /\ connQue_ = CHOOSE q \in [1..Cardinality(Conns) -> Conns] :
                           \A c \in Conns : \E i \in DOMAIN q : q[i] = c
           /\ semId_ = Cardinality(Conns) /\ dbClosed = FALSE
           /\ step = [t \in Verifiers |-> "idle"] /\ sql = [t \in Verifiers |-> {}]

Steps(t, from, to) == step[t] = from /\ step' = [step EXCEPT ![t] = to]

\* The test is made without the mutex; an empty queue gives a null pointer, on
\* which UserVerify asserts.
GetConn(t) ==
  /\ IF connQue_ = <<>> THEN Steps(t, "idle", "null") ELSE Steps(t, "idle", "sem")
  /\ ~dbClosed /\ UNCHANGED <<connQue_, semId_, sql, dbClosed>>

\* A bug: the test alone has to keep the threads out.
sem_wait_none(t) == Steps(t, "sem", "pop") /\ UNCHANGED <<connQue_, semId_, sql, dbClosed>>
sem_wait(t) == /\ semId_ > 0 /\ semId_' = semId_ - 1 /\ Steps(t, "sem", "pop")
               /\ UNCHANGED <<connQue_, sql, dbClosed>>

Pop(t) == /\ Steps(t, "pop", "free") /\ connQue_ # <<>>
          /\ sql' = [sql EXCEPT ![t] = {Head(connQue_)}] /\ connQue_' = Tail(connQue_)
          /\ UNCHANGED <<semId_, dbClosed>>

\* ~SqlConnRAII.
FreeConn(t) == /\ Steps(t, "free", "query")
               /\ connQue_' = Append(connQue_, CHOOSE c \in sql[t] : TRUE)
               /\ semId_' = semId_ + 1 /\ UNCHANGED <<sql, dbClosed>>

Query(t) == /\ \/ Steps(t, "query", "answer") /\ UNCHANGED sql
               \/ Steps(t, "answer", "idle") /\ sql' = [sql EXCEPT ![t] = {}]
            /\ UNCHANGED <<connQue_, semId_, dbClosed>>

\* ~WebServer, when the threads are idle.
ClosePool == /\ ~dbClosed /\ \A t \in Verifiers : step[t] = "idle"
             /\ dbClosed' = TRUE /\ connQue_' = <<>> /\ UNCHANGED <<semId_, step, sql>>

Verify(t) == sem_wait(t) \/ Pop(t) \/ FreeConn(t) \/ Query(t)
NextSql == /\ \A t \in Verifiers : step[t] # "null"
           /\ (\E t \in Verifiers : GetConn(t) \/ Verify(t)) \/ ClosePool
SpecSql == InitSql /\ [][NextSql]_sqlVars
-------------------------------------------------------------------------------
Owned == {t \in Verifiers : step[t] = "free"}
InPool == {connQue_[i] : i \in DOMAIN connQue_}

(* The semaphore and the queue agree, though one is counted outside the      *)
(* mutex of the other: who passed the semaphore finds a connection, and no   *)
(* connection is lost or in the pool twice.                                  *)
PoolWhole ==
  ~dbClosed =>
    /\ Len(connQue_) = semId_ + Cardinality({t \in Verifiers : step[t] = "pop"})
    /\ Cardinality(InPool) = Len(connQue_)
    /\ InPool \cup UNION {sql[t] : t \in Owned} = Conns

(* "SqlConnRAII 会自动释放 ... 自动释放sql资源到池子里面" (httprequest.cpp:273),    *)
(* at the end of UserVerify: until then no other thread has the connection.  *)
OneUserPerConnection ==
  \A t, u \in Verifiers : t # u => sql[t] \cap sql[u] = {}
===============================================================================
