------------------------------- MODULE TaskPlugin -------------------------------
(***************************************************************************)
(* The plugins that run tasks on a pool of handler threads: ping, monitor, *)
(* docker, snmpcheck, nmapscan, bdsar, inspector, inspecUrl, controller and*)
(* threatint.  PluginPool models how their threads come and go;            *)
(* this module, what they do in between.  A handler goes through its share *)
(* of the policies again and again; it stores a result and sets a flag.    *)
(* The report thread looks for flags, reports the results and resets the   *)
(* flags.  There is no lock.  A policy stands for one of its subtasks.     *)
(***************************************************************************)
EXTENDS Integers, Sequences, SequencesExt, Cron

CONSTANTS
  Kinds,        \* the plugins of the instance
  NPolicies,    \* m_vecPolicy.size()
  Pools,        \* numbers of handler threads
  Crons,        \* times for inspector and inspecUrl
  MaxMinute,    \* bound: minutes that pass
  MaxRuns       \* bound: runs of a task

Scheduled == {"inspector", "inspecUrl"}
Commanded == {"controller", "threatint"}
Breaking == {"monitor", "snmpcheck", "nmapscan"}    \* stop between two tasks
Gated == Scheduled \union Commanded \union Breaking \union {"docker"}
Silent == {"ping", "bdsar", "nmapscan"}             \* a run need not have a result
AllKinds == Gated \union Silent

ASSUME TaskAssumption ==
  /\ Kinds \subseteq AllKinds
  /\ NPolicies \in Nat \ {0} /\ Pools \subseteq 1 .. NPolicies
  /\ MaxMinute \in Nat /\ MaxRuns \in Nat \ {0}

VARIABLES
  kind, m_pthreadnum,            \* which plugin this is, and its threads
  cron, bOnce,                   \* the policies
  minute,                        \* the clock
  b_state,                       \* the handlers are to go on
  handlers,                      \* where they are, at which policy
  m_mapResult, m_mapFinished,    \* bChange, nfinished, m_Finished; a result is the
  m_mapReported,                 \* number of its run
  reporter,                      \* where the report thread is, at which policy
  m_bIsRunning,
  runs, ranAt,                   \* history: the runs of each policy, the last one's time
  made, tried                    \* history: results stored; results handed to
                                 \* ReportData, for ping those with success

policyVars == <<kind, m_pthreadnum, cron, bOnce>>
taskVars == <<m_mapResult, runs, ranAt, made>>
vars == <<policyVars, minute, b_state, handlers, taskVars, m_mapFinished, m_mapReported,
          reporter, m_bIsRunning, tried>>

Policies == 1 .. NPolicies
Minutes == 0 .. MaxMinute
Never == -1
Pool == 1 .. m_pthreadnum
IsLast(p) == p + m_pthreadnum > NPolicies    \* p is the last policy of its thread

\* The histories of results: for ping and bdsar only the newest is kept.
Noted(history, result) == IF kind \in Gated THEN Append(history, result) ELSE <<result>>

HandlerAt == {"while", "pass", "store", "mark", "rest", "nap", "gone"}
ReporterAt == {"scan", "send", "stop", "reset", "once", "alive", "gone"}

TypeOK ==
  /\ kind \in Kinds /\ m_pthreadnum \in Pools
  /\ cron \in [Policies -> Crons] /\ bOnce \in [Policies -> BOOLEAN]
  /\ minute \in Minutes
  /\ b_state \in [Pool -> BOOLEAN]
  /\ handlers \in [Pool -> [at : HandlerAt, p : 1 .. 2 * NPolicies, since : Minutes]]
  /\ m_mapResult \in [Policies -> 0 .. MaxRuns]
  /\ m_mapFinished \in [Policies -> BOOLEAN] /\ m_mapReported \in [Policies -> BOOLEAN]
  /\ reporter \in [at : ReporterAt, p : 1 .. NPolicies + 1]
  /\ m_bIsRunning \in BOOLEAN
  /\ runs \in [Policies -> 0 .. MaxRuns] /\ ranAt \in [Policies -> Minutes \union {Never}]
  /\ made \in [Policies -> Seq(1 .. MaxRuns)] /\ tried \in [Policies -> Seq(1 .. MaxRuns)]

\* The plugin has just been started.  Only inspector and inspecUrl have times and
\* tasks to run once.
Init ==
  /\ kind \in Kinds /\ m_pthreadnum \in Pools
  /\ cron \in [Policies -> Crons] /\ bOnce \in [Policies -> BOOLEAN]
  /\ kind \notin Scheduled =>
       \A p \in Policies : cron[p] = (CHOOSE c \in Crons : TRUE) /\ ~bOnce[p]
  /\ minute = 0
  /\ b_state = [h \in Pool |-> TRUE]
  /\ handlers = [h \in Pool |-> [at |-> "while", p |-> h, since |-> 0]]
  /\ m_mapResult = [p \in Policies |-> 0]
  /\ m_mapFinished = [p \in Policies |-> FALSE]
  /\ m_mapReported = [p \in Policies |-> FALSE]
  /\ reporter = [at |-> "scan", p |-> 1]
  /\ m_bIsRunning = TRUE
  /\ runs = [p \in Policies |-> 0] /\ ranAt = [p \in Policies |-> Never]
  /\ made = [p \in Policies |-> <<>>] /\ tried = [p \in Policies |-> <<>>]

-----------------------------------------------------------------------------
(* The clock and the Worker *)

\* Two minutes of each day are looked at, from Sunday, the 1st of January.
TimeOf(m) ==
  [tm_min |-> m % 2, tm_hour |-> 0, tm_mday |-> 1 + m \div 2, tm_mon |-> 0,
   tm_wday |-> (m \div 2) % 7]

Tick ==
  /\ kind \in Scheduled
  /\ minute < MaxMinute
  /\ minute' = minute + 1
  /\ UNCHANGED <<policyVars, b_state, handlers, taskVars, m_mapFinished, m_mapReported,
                 reporter, m_bIsRunning, tried>>

\* The handlers are told to end; inspecUrl says at once that it does not run.
Stop ==
  /\ b_state' = [h \in Pool |-> FALSE]
  /\ m_bIsRunning' = (m_bIsRunning /\ kind # "inspecUrl")

WorkerStops ==
  /\ \E h \in Pool : b_state[h]
  /\ Stop
  /\ UNCHANGED <<policyVars, minute, handlers, taskVars, m_mapFinished, m_mapReported,
                 reporter, tried>>

-----------------------------------------------------------------------------
(* A handler thread *)

At(h, place) == handlers[h].at = place
HandlerTo(h, place, p) ==
  handlers' = [handlers EXCEPT ![h] = [at |-> place, p |-> p, since |-> 0]]
handlerFrame == <<policyVars, minute, b_state, m_mapReported, reporter, m_bIsRunning, tried>>

HandlerLoops(h) ==
  /\ At(h, "while")
  /\ b_state[h] => m_bIsRunning
  /\ HandlerTo(h, IF b_state[h] THEN "pass" ELSE "gone", h)
  /\ UNCHANGED <<handlerFrame, taskVars, m_mapFinished>>

Due(p) == kind \in Scheduled => check_cron(cron[p], TimeOf(minute))

\* Slip: a finished task is run again before it is reported.
WantedAnyhow(p) == runs[p] < MaxRuns

Wanted(p) == runs[p] < MaxRuns /\ (kind \in Gated => ~m_mapFinished[p])

\* A task is run.
HandlerRuns(h) ==
  /\ At(h, "pass")
  /\ LET p == handlers[h].p IN
       /\ p <= NPolicies /\ Due(p) /\ Wanted(p)
       /\ runs' = [runs EXCEPT ![p] = @ + 1]
       /\ ranAt' = [ranAt EXCEPT ![p] = minute]
       /\ \/ HandlerTo(h, "store", p)
          \/ kind \in Silent /\ HandlerTo(h, "rest", p)
  /\ UNCHANGED <<handlerFrame, m_mapResult, made, m_mapFinished>>

\* A task that is not due is passed over; after one that is not wanted comes the same
\* pause as after a run, except with controller.
HandlerSkips(h) ==
  /\ At(h, "pass")
  /\ LET p == handlers[h].p IN
       /\ p <= NPolicies
       /\ ~(Due(p) /\ Wanted(p))
       /\ IF Due(p) /\ kind # "controller" THEN HandlerTo(h, "rest", p)
          ELSE HandlerTo(h, "pass", p + m_pthreadnum)
  /\ UNCHANGED <<handlerFrame, taskVars, m_mapFinished>>

\* That of ping or bdsar may be stored while the last one is reported.
HandlerStores(h) ==
  /\ At(h, "store")
  /\ LET p == handlers[h].p IN
       /\ m_mapResult' = [m_mapResult EXCEPT ![p] = runs[p]]
       /\ made' = [made EXCEPT ![p] = Noted(@, runs[p])]
       /\ HandlerTo(h, "mark", p)
  /\ UNCHANGED <<handlerFrame, runs, ranAt, m_mapFinished>>

HandlerMarks(h) ==
  /\ At(h, "mark")
  /\ m_mapFinished' = [m_mapFinished EXCEPT ![handlers[h].p] = TRUE]
  /\ HandlerTo(h, "rest", handlers[h].p)
  /\ UNCHANGED <<handlerFrame, taskVars>>

HandlerNaps(h) ==
  handlers' = [handlers EXCEPT ![h] = [at |-> "nap", p |-> h, since |-> minute]]

\* The pause after a task.
HandlerRests(h) ==
  /\ At(h, "rest")
  /\ LET p == handlers[h].p IN
       IF (kind \in Breaking /\ ~b_state[h]) \/ (kind \in Scheduled /\ IsLast(p))
       THEN HandlerNaps(h)
       ELSE HandlerTo(h, "pass", p + m_pthreadnum)
  /\ UNCHANGED <<handlerFrame, taskVars, m_mapFinished>>

HandlerEndsPass(h) ==
  /\ At(h, "pass")
  /\ handlers[h].p > NPolicies
  /\ IF kind \in Scheduled THEN HandlerTo(h, "while", h) ELSE HandlerNaps(h)
  /\ UNCHANGED <<handlerFrame, taskVars, m_mapFinished>>

\* Slip: a nap is shorter than a minute.
HandlerWakesEarly(h) ==
  /\ At(h, "nap")
  /\ HandlerTo(h, "while", h)
  /\ UNCHANGED <<handlerFrame, taskVars, m_mapFinished>>

\* inspector's nap lasts a minute, if there is no stop.
HandlerWakes(h) ==
  /\ At(h, "nap")
  /\ kind = "inspector" /\ b_state[h] => minute > handlers[h].since
  /\ HandlerTo(h, "while", h)
  /\ UNCHANGED <<handlerFrame, taskVars, m_mapFinished>>

Handler(h) ==
  \/ HandlerLoops(h) \/ HandlerRuns(h) \/ HandlerSkips(h) \/ HandlerStores(h)
  \/ HandlerMarks(h) \/ HandlerRests(h) \/ HandlerEndsPass(h) \/ HandlerWakes(h)

-----------------------------------------------------------------------------
(* The report thread: OnReportHandle *)

ReporterTo(place, p) == reporter' = [at |-> place, p |-> p]
reporterFrame == <<policyVars, minute, handlers, taskVars>>

\* Slip: what has been reported is not asked.
IsToReportAgain(p) == m_mapFinished[p]

\* A task that is to run once is reported once.
IsToReport(p) ==
  m_mapFinished[p] /\ ~(kind \in Scheduled /\ bOnce[p] /\ m_mapReported[p])

ReporterScans ==
  /\ reporter.at = "scan"
  /\ LET p == reporter.p IN
       IF p > NPolicies THEN ReporterTo("alive", p)
       ELSE IF IsToReport(p) THEN ReporterTo("send", p)
       ELSE ReporterTo("scan", p + 1)
  /\ UNCHANGED <<reporterFrame, b_state, m_mapFinished, m_mapReported, m_bIsRunning, tried>>

\* ReportData, which may fail.  Only ping keeps its flag then; the others go on as after
\* a success, and the result is lost.
ReporterSends ==
  /\ reporter.at = "send"
  /\ LET p == reporter.p IN
       \E reported \in BOOLEAN :
         IF kind = "ping" /\ ~reported THEN ReporterTo("scan", p + 1) /\ UNCHANGED tried
         ELSE /\ tried' = [tried EXCEPT ![p] = Noted(@, m_mapResult[p])]
              /\ ReporterTo(IF kind \in Commanded THEN "stop" ELSE "reset", p)
  /\ UNCHANGED <<reporterFrame, b_state, m_mapFinished, m_mapReported, m_bIsRunning>>

\* controller and threatint stop themselves after a report, even after one that failed.
ReporterStops ==
  /\ reporter.at = "stop"
  /\ Stop
  /\ ReporterTo("reset", reporter.p)
  /\ UNCHANGED <<reporterFrame, m_mapFinished, m_mapReported, tried>>

\* Slip: the flag stays if the plugin is told to stop.
ReporterResetsIfRunning ==
  /\ reporter.at = "reset"
  /\ m_mapFinished' =
       [m_mapFinished EXCEPT ![reporter.p] = \E h \in Pool : ~b_state[h]]
  /\ IF kind \in Scheduled THEN ReporterTo("once", reporter.p)
     ELSE ReporterTo("scan", reporter.p + 1)
  /\ UNCHANGED <<reporterFrame, b_state, m_mapReported, m_bIsRunning, tried>>

ReporterResets ==
  /\ reporter.at = "reset"
  /\ m_mapFinished' = [m_mapFinished EXCEPT ![reporter.p] = FALSE]
  /\ IF kind \in Scheduled THEN ReporterTo("once", reporter.p)
     ELSE ReporterTo("scan", reporter.p + 1)
  /\ UNCHANGED <<reporterFrame, b_state, m_mapReported, m_bIsRunning, tried>>

ReporterNotes ==
  /\ reporter.at = "once"
  /\ m_mapReported' = [m_mapReported EXCEPT ![reporter.p] = TRUE]
  /\ ReporterTo("scan", reporter.p + 1)
  /\ UNCHANGED <<reporterFrame, b_state, m_mapFinished, m_bIsRunning, tried>>

\* After a scan: the end, if all handlers have gone; otherwise the next scan, before
\* which m_bIsRunning is set if all are there.
ReporterLoops ==
  /\ reporter.at = "alive"
  /\ IF \A h \in Pool : At(h, "gone")
     THEN m_bIsRunning' = FALSE /\ ReporterTo("gone", 1)
     ELSE /\ m_bIsRunning' = (m_bIsRunning \/
               (kind \notin Commanded /\ \A h \in Pool : ~At(h, "gone")))
          /\ ReporterTo("scan", 1)
  /\ UNCHANGED <<reporterFrame, b_state, m_mapFinished, m_mapReported, tried>>

Reporter ==
  \/ ReporterScans \/ ReporterSends \/ ReporterStops \/ ReporterResets \/ ReporterNotes
  \/ ReporterLoops

-----------------------------------------------------------------------------
Next == Tick \/ WorkerStops \/ (\E h \in Pool : Handler(h)) \/ Reporter

Spec == Init /\ [][Next]_vars

-----------------------------------------------------------------------------
(* Properties *)

\* A result is not overwritten while it is being reported, for all plugins but ping
\* and bdsar, which do not look at the flag before they run a task.
Exclusive ==
  kind \in Gated =>
    \A h \in Pool, p \in Policies :
      handlers[h].at \in {"store", "mark"} /\ handlers[h].p = p =>
        ~m_mapFinished[p] /\ ~(reporter.at \in {"send", "stop", "reset"} /\ reporter.p = p)

\* A plugin says that it does not run only when its handlers have gone; inspecUrl
\* says so as soon as it is told to stop.
SaysStopped ==
  ~m_bIsRunning /\ kind # "inspecUrl" => \A h \in Pool : At(h, "gone")

TaskInv == TypeOK /\ Exclusive /\ SaysStopped

\* The results of a task are handed to ReportData in the order of its runs, each once
\* and none left out; the last one may still wait.
EachOnce ==
  kind \in Gated =>
    \A p \in Policies :
      IsPrefix(tried[p], made[p]) /\ Len(made[p]) <= Len(tried[p]) + 1

\* A task that is to run once runs twice at most, and is reported once.
OnceBounded ==
  \A p \in Policies :
    kind \in Scheduled /\ bOnce[p] => runs[p] <= 2 /\ Len(tried[p]) <= 1

\* A command, such as a reboot of a device, is carried out twice at most.
CommandsBounded == \A p \in Policies : kind \in Commanded => runs[p] <= 2

\* A task does not run more often than it is asked for.
RunsBounded == OnceBounded /\ CommandsBounded

\* A task of inspector which is the last of its thread begins at most once in a minute,
\* so that it is not repeated as long as it is due.
OnceAMinute ==
  [][\A p \in Policies :
       runs'[p] # runs[p] /\ kind = "inspector" /\ IsLast(p) => ranAt[p] # minute]_vars

\* A task runs only on the days that its time of triggering lists.
OnSchedule ==
  \A p \in Policies :
    kind \in Scheduled /\ ranAt[p] # Never => OnItsDays(cron[p], TimeOf(ranAt[p]))

-----------------------------------------------------------------------------
(* Why the results are reported in order: the inductive invariant *)

\* Each handler keeps to its share of the policies, and no two are at the same one.
IsOf(p, h) == \E k \in 0 .. p : p = h + k * m_pthreadnum
SharesKept ==
  /\ \A h \in Pool : IsOf(handlers[h].p, h)
  /\ \A h \in Pool : handlers[h].at \in {"store", "mark", "rest"} => handlers[h].p \in Policies
  /\ \A g, h \in Pool : handlers[g].p = handlers[h].p => g = h

IsAt(h, place, p) == At(h, place) /\ handlers[h].p = p
Storing(p) == \E h \in Pool : IsAt(h, "store", p)
Marking(p) == \E h \in Pool : IsAt(h, "mark", p)
ReporterAtPolicy(places, p) == reporter.at \in places /\ reporter.p = p

\* The report thread works on policies whose flag is set, and a handler with a new
\* result on those whose flag is not.
FlagsSound ==
  /\ reporter.at \in {"send", "stop", "reset", "once"} => reporter.p \in Policies
  /\ reporter.at \in {"send", "stop", "reset"} => m_mapFinished[reporter.p]
  /\ reporter.at = "stop" => kind \in Commanded
  /\ kind \in Gated => \A p \in Policies : Storing(p) \/ Marking(p) => ~m_mapFinished[p]

\* A stored result waits until it has been reported.
Waits(p) == Marking(p) \/ (m_mapFinished[p] /\ ~ReporterAtPolicy({"stop", "reset"}, p))
ResultsSound ==
  \A p \in Policies :
    /\ Storing(p) => runs[p] >= 1
    /\ Marking(p) \/ m_mapFinished[p] => m_mapResult[p] >= 1
    /\ kind \in Gated =>
         made[p] = IF Waits(p) THEN Append(tried[p], m_mapResult[p]) ELSE tried[p]

\* Whether the one report of a task has been made.
OnceSound ==
  \A p \in Policies : kind \in Scheduled /\ bOnce[p] =>
    /\ Len(tried[p]) <= 1
    /\ tried[p] # <<>> <=> m_mapReported[p] \/ ReporterAtPolicy({"reset", "once"}, p)
    /\ ReporterAtPolicy({"send"}, p) => tried[p] = <<>>
    /\ runs[p] = Len(made[p]) + (IF Storing(p) THEN 1 ELSE 0)

HandoffInv ==
  TypeOK /\ SharesKept /\ FlagsSound /\ ResultsSound /\ OnceSound /\ SaysStopped

-----------------------------------------------------------------------------
(* Why tasks run as often as they should *)

\* Policy p is of h's share, and h comes to it in this round.
Ahead(h, p) ==
  /\ IsOf(p, h)
  /\ \/ At(h, "pass") /\ handlers[h].p <= p
     \/ handlers[h].at \in {"store", "mark", "rest"} /\ handlers[h].p < p

\* Before the stop that comes with the first report a command runs once, since its flag
\* keeps it from running again; after it, at most once more in the round under way.
RoundsSound ==
  kind \in Commanded =>
    /\ \A g, h \in Pool : b_state[g] = b_state[h]
    /\ \A h \in Pool, p \in Policies : IsOf(p, h) =>
         /\ b_state[h] =>
              /\ reporter.at # "reset"
              /\ runs[p] = IF Storing(p) \/ Marking(p) \/ m_mapFinished[p] THEN 1 ELSE 0
         /\ runs[p] <= IF Ahead(h, p) THEN 1 ELSE 2

RoundsInv == HandoffInv /\ RoundsSound

\* After a run of its last task a handler of inspector sleeps into the next minute.
MinutesSound ==
  kind = "inspector" =>
    \A h \in Pool, p \in Policies : IsOf(p, h) /\ IsLast(p) =>
      /\ ranAt[p] <= minute
      /\ At(h, "while") => ranAt[p] < minute \/ ~b_state[h]
      /\ At(h, "pass") => ranAt[p] < minute
      /\ handlers[h].at \in {"store", "mark", "rest"} => ranAt[p] < minute \/ handlers[h].p = p
      /\ At(h, "nap") => ranAt[p] <= handlers[h].since

MinutesInv == HandoffInv /\ MinutesSound
=============================================================================
