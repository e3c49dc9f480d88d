-------------------------------- MODULE Timers --------------------------------
(* What the timer of tinyWebServer promises: every identifier has at most    *)
(* one timer, a tick fires exactly the timers that are due, the earliest     *)
(* first, and the time to sleep is the time left to the earliest one.        *)
EXTENDS Integers, Sequences, FiniteSets

CONSTANTS Ids, Timeouts, MaxTime

VARIABLES due,    \* [identifiers with a timer -> time it fires at]
          now,
          fired,  \* the callbacks made by the last operation, in order
          sleep   \* what the last GetNextTick returned

vars == <<due, now, fired, sleep>>

Init == due = [i \in {} |-> 0] /\ now = 0 /\ fired = <<>> /\ sleep = -1

Without(S) == [i \in DOMAIN due \ S |-> due[i]]

Set(i) == \E t \in Timeouts :
  /\ due' = [j \in DOMAIN due \cup {i} |-> IF j = i THEN now + t ELSE due[j]]
  /\ fired' = <<>> /\ UNCHANGED <<now, sleep>>

Fire(i) == /\ i \in DOMAIN due
           /\ due' = Without({i}) /\ fired' = <<i>> /\ UNCHANGED <<now, sleep>>

Due == {i \in DOMAIN due : due[i] <= now}

Tick ==
  /\ due' = Without(Due)
  /\ \E s \in [1..Cardinality(Due) -> Due] :
       /\ \A m, n \in DOMAIN s : m < n => s[m] # s[n] /\ due[s[m]] <= due[s[n]]
       /\ fired' = s
  /\ now' \in now..MaxTime
  /\ \/ DOMAIN due' = {} /\ sleep' = -1
     \/ \E i \in DOMAIN due' :
          /\ \A j \in DOMAIN due' : due[i] <= due[j]
          /\ sleep' = IF due[i] < now' THEN 0 ELSE due[i] - now'

Clear == due' = Without(Ids) /\ fired' = <<>> /\ UNCHANGED <<now, sleep>>

Next == \/ \E i \in Ids : Set(i) \/ Fire(i)
        \/ Tick \/ Clear

Spec == Init /\ [][Next]_vars
===============================================================================
