------------------------------- MODULE Watchdog --------------------------------
(***************************************************************************)
(* The watchdog looks at the services one after the other and restarts one *)
(* that is not healthy, at most MaxRestarts times in any hour.  Its list   *)
(* of attempts is kept in memory.                                          *)
(***************************************************************************)
EXTENDS Naturals, Sequences

CONSTANTS
  UnitCount,     \* the services are numbered in the order of SERVICE_CHECKS
  MaxRestarts,   \* MAX_RESTARTS_PER_HOUR
  Hour           \* the ticks of the clock in an hour

VARIABLES
  healthy,   \* service -> active, and every check of it answers
  history,   \* service -> the ages of the recorded attempts, at most Hour
  dog        \* where the loop is, and at which service

dogVars == <<healthy, history, dog>>

Units == 1 .. UnitCount

WatchdogInit ==
  /\ healthy = [u \in Units |-> TRUE]
  /\ history = [u \in Units |-> <<>>]
  /\ dog = [at |-> "check", unit |-> 1]

Following(u) == IF u < UnitCount THEN [at |-> "check", unit |-> u + 1]
                ELSE [at |-> "sleep", unit |-> 1]

\* A mistake: old attempts stay in the list.
RecentUnpruned(u) == history[u]

Recent(u) == SelectSeq(history[u], LAMBDA age : age < Hour)

\* A service fails, hangs, or is started again by systemd or by hand.
HealthChanges(u) ==
  /\ healthy' = [healthy EXCEPT ![u] = ~@]
  /\ UNCHANGED <<history, dog>>

\* _check_one() and _record_restart(): the attempt is counted before it is made.
CheckOne ==
  /\ dog.at = "check"
  /\ LET u == dog.unit IN
       IF healthy[u]
       THEN dog' = Following(u) /\ UNCHANGED history
       ELSE IF Len(Recent(u)) >= MaxRestarts
            THEN /\ history' = [history EXCEPT ![u] = Recent(u)]
                 /\ dog' = Following(u)
            ELSE /\ history' = [history EXCEPT ![u] = Append(Recent(u), 0)]
                 /\ dog' = [at |-> "restart", unit |-> u]
  /\ UNCHANGED healthy

\* systemctl restart, which may fail or take longer than it is waited for.
TryRestart ==
  /\ dog.at = "restart"
  /\ \E ok \in BOOLEAN : healthy' = [healthy EXCEPT ![dog.unit] = ok]
  /\ dog' = Following(dog.unit)
  /\ UNCHANGED history

WakeUp ==
  /\ dog.at = "sleep"
  /\ dog' = [at |-> "check", unit |-> 1]
  /\ UNCHANGED <<healthy, history>>

Passes ==
  /\ history' = [u \in Units |-> [i \in 1 .. Len(history[u]) |->
                   IF history[u][i] < Hour THEN history[u][i] + 1 ELSE Hour]]
  /\ UNCHANGED <<healthy, dog>>

\* systemd starts the watchdog again (Restart=always): its list is empty.
DogRestarts ==
  /\ history' = [u \in Units |-> <<>>]
  /\ dog' = [at |-> "check", unit |-> 1]
  /\ UNCHANGED healthy

WatchdogNext ==
  \/ \E u \in Units : HealthChanges(u)
  \/ CheckOne \/ TryRestart \/ WakeUp
  \/ Passes
  \/ DogRestarts

\* The loop goes on, the longest call in it is cut off after 30 s, and time passes.
WatchdogFairness == WF_dogVars(CheckOne \/ TryRestart \/ WakeUp) /\ WF_dogVars(Passes)

-----------------------------------------------------------------------------
\* The hourly limit delays restarts and never ends them: a service that stays down is
\* attempted again and again, whatever the other services take of the loop's time, unless
\* the watchdog itself is restarted over and over.
NeverGivesUp ==
  <>[][~DogRestarts]_dogVars =>
    \A u \in Units : []<>(healthy[u] \/ dog = [at |-> "restart", unit |-> u])

=============================================================================
