----------------------------- MODULE ManagedPlugin -----------------------------
(***************************************************************************)
(* One plugin under the module manager (Agent/BDScModuleMgr.cpp): the      *)
(* manager loads it, gives it policies, starts it, stops it and waits for  *)
(* the end of the stop, and unloads it.  The manager's list mutex is held  *)
(* during each of these commands, so one command runs at a time; the       *)
(* threads of the plugin (PluginPool) run all the while.                   *)
(*                                                                         *)
(* call.cmd is the command the Worker thread executes and call.at its      *)
(* place in the manager or in the plugin; call.i is a parameter or a loop  *)
(* index.                                                                  *)
(***************************************************************************)
EXTENDS PluginPool, FiniteSets

CONSTANT
  bAutoStartModule   \* configuration item auto_start_module

ASSUME AutoStartAssumption == bAutoStartModule \in BOOLEAN

VARIABLES
  bIsRunning,        \* the manager's copy of the plugin's state
  loaded             \* the plugin object exists and its entry is in the list

vars == <<poolVars, call, bIsRunning, loaded>>

Commands == {"none", "START_AGENT", "STOP_AGENT", "START_PLUGIN", "STOP_PLUGIN"}
CallAt == {"idle", "setdata", "startmodule", "start", "create", "count",
           "report", "settle", "started", "failed", "stop", "ask", "wait", "stopped"}
NoCall == [cmd |-> "none", at |-> "idle", i |-> 0]

TypeOK ==
  /\ PoolTypeOK
  /\ call \in [cmd : Commands, at : CallAt, i : Nat]
  /\ bIsRunning \in BOOLEAN
  /\ loaded \in BOOLEAN

Init ==
  /\ PoolInit
  /\ call = NoCall
  /\ bIsRunning = FALSE
  /\ loaded = FALSE

-----------------------------------------------------------------------------
(* CBDScModuleMgr *)

Return == call' = NoCall

\* LoadModule: construct and initialise the plugin, start it when configured.
\* What threads of an earlier, freed object would do to a new one is undefined;
\* the model goes no further there.
LoadModule ==
  /\ call.at = "idle"
  /\ ~loaded
  /\ Quiet
  /\ Constructed
  /\ UNCHANGED <<hand, rep>>
  /\ loaded' = TRUE
  /\ bIsRunning' = FALSE
  /\ call' = IF bAutoStartModule
             THEN [cmd |-> "START_AGENT", at |-> "start", i |-> 0]
             ELSE NoCall

\* Slip: policies are passed on whether the plugin runs or not.
SetModuleDataUnchecked(n) ==
  /\ call.at = "idle"
  /\ loaded
  /\ HasRoom(n)
  /\ bIsRunning' = m_bIsRunning
  /\ call' = [cmd |-> "START_PLUGIN", at |-> "setdata", i |-> n]
  /\ UNCHANGED <<poolVars, loaded>>

\* START_PLUGIN begins with SetModuleData: only a stopped plugin takes policies,
\* and a refusal ends the command.
SetModuleData(n) ==
  /\ call.at = "idle"
  /\ loaded
  /\ HasRoom(n)
  /\ bIsRunning' = m_bIsRunning
  /\ IF m_bIsRunning THEN Return
     ELSE call' = [cmd |-> "START_PLUGIN", at |-> "setdata", i |-> n]
  /\ UNCHANGED <<poolVars, loaded>>

PassPolicies ==
  /\ call.at = "setdata"
  /\ SetData(call.i)
  /\ CallTo("startmodule")
  /\ UNCHANGED <<bIsRunning, loaded>>

\* StartScModule asks for the state again before it calls Start.
StartScModule ==
  /\ call.at = "startmodule"
  /\ bIsRunning' = m_bIsRunning
  /\ IF m_bIsRunning THEN Return ELSE CallTo("start")
  /\ UNCHANGED <<poolVars, loaded>>

\* Start returned true: the manager's copy is refreshed.
StartReturns ==
  /\ call.at = "started"
  /\ bIsRunning' = m_bIsRunning
  /\ Return
  /\ UNCHANGED <<poolVars, loaded>>

\* Start returned false: a plugin that was being loaded is freed at once.
StartFails ==
  /\ call.at = "failed"
  /\ loaded' = (call.cmd # "START_AGENT")
  /\ Return
  /\ UNCHANGED <<poolVars, bIsRunning>>

\* STOP_PLUGIN and STOP_AGENT: StopScModule asks for the state again and has
\* nothing to do for a plugin that is not running.
StopScModule(cmd) ==
  /\ call.at = "idle"
  /\ loaded
  /\ bIsRunning' = m_bIsRunning
  /\ call' = [cmd |-> cmd, at |-> IF m_bIsRunning THEN "stop" ELSE "stopped", i |-> 0]
  /\ UNCHANGED <<poolVars, loaded>>

CallStop ==
  /\ call.at = "stop"
  /\ Stop
  /\ CallTo("ask")
  /\ UNCHANGED <<bIsRunning, loaded>>

\* Slip: the end of the stop is not waited for.
StopAskOnce ==
  /\ call.at = "ask"
  /\ bIsRunning' = m_bIsRunning
  /\ CallTo("stopped")
  /\ UNCHANGED <<poolVars, loaded>>

\* The state once more after Stop: the loop below is for a plugin that still runs.
StopAsk ==
  /\ call.at = "ask"
  /\ bIsRunning' = m_bIsRunning
  /\ CallTo(IF m_bIsRunning THEN "wait" ELSE "stopped")
  /\ UNCHANGED <<poolVars, loaded>>

\* The loop that waits for m_bIsRunning to become false, and sleeps 1 ms after that.
StopWait ==
  /\ call.at = "wait"
  /\ ~m_bIsRunning
  /\ ReportersSettled
  /\ bIsRunning' = FALSE
  /\ CallTo("stopped")
  /\ UNCHANGED <<poolVars, loaded>>

\* StopScModule returns true; STOP_AGENT goes on to free the plugin object.
StopReturns ==
  /\ call.at = "stopped"
  /\ loaded' = (call.cmd # "STOP_AGENT")
  /\ Return
  /\ UNCHANGED <<poolVars, bIsRunning>>

\* The heartbeat's GetModuleStateString, when no command holds the list mutex.
RefreshState ==
  /\ call.at \in {"idle", "startmodule"}
  /\ loaded
  /\ bIsRunning' = m_bIsRunning
  /\ UNCHANGED <<poolVars, call, loaded>>

-----------------------------------------------------------------------------
PluginThreads ==
  \/ \E h \in Handlers : OnWeakpasswdHandle(h) /\ UNCHANGED <<bIsRunning, loaded>>
  \/ \E r \in Reporters : OnReportHandle(r) /\ UNCHANGED <<bIsRunning, loaded>>

\* What the executing command does next.
Serve ==
  \/ PassPolicies \/ StartScModule \/ StartReturns \/ StartFails
  \/ CallStop \/ StopAsk \/ StopWait \/ StopReturns
  \/ Start /\ UNCHANGED <<bIsRunning, loaded>>

Receive ==
  \/ LoadModule
  \/ \E n \in 0 .. MaxPolicies : SetModuleData(n)
  \/ \E cmd \in {"STOP_PLUGIN", "STOP_AGENT"} : StopScModule(cmd)

Next == Receive \/ Serve \/ RefreshState \/ PluginThreads

Spec == Init /\ [][Next]_vars

(***************************************************************************)
(* The kernel schedules every thread that can run, and ReportData and      *)
(* GetWeakPassword return; commands come when the server likes.            *)
(***************************************************************************)
FairSpec ==
  /\ Spec
  /\ WF_vars(Serve)
  /\ \A h \in Handlers :
       WF_vars(OnWeakpasswdHandle(h) /\ UNCHANGED <<bIsRunning, loaded>>)
  /\ \A r \in Reporters :
       WF_vars(OnReportHandle(r) /\ UNCHANGED <<bIsRunning, loaded>>)
-----------------------------------------------------------------------------
(* Safety *)

\* StopScModule reports success "by default" once m_bIsRunning is false, and SetData
\* clears and refills m_vecPolicy without a lock when SetModuleData has seen it false:
\* at those moments, and when the object is freed, no handler may be left, nor a report
\* thread that walks through the policies.  One that has yet to clear the pool may:
\* StopScModule does not wait for it if m_bIsRunning is false as soon as Stop returns.
StoppedIsQuiet ==
  call.at \in {"stopped", "setdata"} \/ ~loaded =>
    LiveHandlers = {} /\ \A r \in LiveReporters : rep[r].at = "clear"

\* Past its prologue every handler owns a pool entry of its own, inside the
\* vector, so that no two handlers work on one host and Stop reaches each.
OwnPoolEntry ==
  LET Numbered == {h \in LiveHandlers : hand[h].at # "born"} IN
  /\ \A h \in Numbered : hand[h].num \in 0 .. poolSize - 1
  /\ \A g, h \in Numbered : g # h => hand[g].num # hand[h].num

\* The report thread reads strResult of a host only while no handler writes it.
ResultNotTorn ==
  \A r \in LiveReporters, h \in LiveHandlers :
    rep[r].at = "send" /\ hand[h].at \in {"store", "mark"}
      => rep[r].i # hand[h].i

\* Whatever the data race on the counter does, the pool is not taken for empty
\* while a handler is alive that the counter has been raised for.
NeverUndercounted ==
  LiveHandlers # {} => m_pthreadnum_alive > 0 \/ call.at = "count"

\* Whoever counts as running is watched by a report thread that will take m_bIsRunning
\* back: StopScModule waits for nothing else.  Failing creations let several report
\* threads write the flag, the one that ends after another has raised it again.
RunningIsWatched ==
  m_bIsRunning => \E r \in LiveReporters : rep[r].at # "clear"

\* "IP~number of weak passwords~...": a host's finished result lists weak
\* passwords of that host only.  That does not hold: the vector of found passwords
\* is emptied only between two rounds.
ResultOfItsHost ==
  \A k \in DOMAIN policy : policy[k].bFinished => policy[k].strResult \subseteq {k}

(* Action properties *)

\* A running plugin goes down only after each of its handlers has ended.
DownOnlyWhenEmpty ==
  [][m_bIsRunning /\ ~m_bIsRunning' => LiveHandlers = {}]_vars

(* Liveness *)

\* Two handlers have ended at once, and the counter keeps what one of them has written
\* over the other: the report thread never sees zero, StopScModule never returns.
DecrementLost == LiveHandlers = {} /\ m_pthreadnum_alive > 0 /\ call.at = "wait"

\* A stop comes to its end: every handler ends, and if no decrement is lost the manager
\* does not wait forever with the list mutex in its hands.
StopEnds == (call.at = "wait") ~> (call.at = "stopped" \/ DecrementLost)

\* "The thread ends when all of the thread pool has": once every handler has ended
\* after a stop, so does the report thread.  That does not hold where a decrement is
\* lost.
ReporterFollows ==
  (call.at = "wait" /\ LiveHandlers = {}) ~> (LiveReporters = {})

(* Refinement *)

IsStarting ==
  \/ call.at \in {"create", "count", "report"}
  \/ \E r \in Reporters : rep[r].at = "born"

LifeState ==
  IF ~loaded THEN "unloaded"
  ELSE IF m_bIsRunning THEN IF call.at \in {"ask", "wait"} THEN "stopping" ELSE "running"
  ELSE IF IsStarting THEN "starting"
  ELSE "stopped"

IsTasked == loaded /\ m_pthreadnum > 0

Life == INSTANCE PluginLife WITH
  SelfStopping <- FALSE, life <- LifeState, tasked <- IsTasked

\* The plugin under its manager keeps to PluginLife, and its starts and stops come to
\* their end unless a decrement of the counter is lost.
LifeSpec == Life!Spec /\ ([]~DecrementLost => Life!Progress)

-----------------------------------------------------------------------------
(* The inductive invariant, where threads can be created and the report thread is *)
(* prompt; handlers may take their time, except for ShareSound                    *)

Dependable == ~CreateMayFail /\ PromptReporter /\ PromptClear

Alive == Cardinality(LiveHandlers)
New == {"born", "arm"}
Ending == {"exit", "dec"}
Stopping == call.at \in {"ask", "wait"}

\* The pool entries, from a start to the end of the next stop.
Filled == poolSize = m_pthreadnum /\ m_pthreadnum_alive = m_pthreadnum

\* A stopped plugin is as good as new, but for a pool that the report thread is about
\* to clear, and one that is not loaded is stopped.
RestSound ==
  /\ call.at \in {"setdata", "startmodule", "start", "stopped"} => ~m_bIsRunning
  /\ call.at \in {"idle", "setdata", "startmodule", "start", "started", "stop", "stopped"}
       /\ ~m_bIsRunning =>
       /\ LiveHandlers = {} /\ m_pthreadnum_alive = 0
       /\ \A r \in LiveReporters : rep[r].at = "clear"
       /\ LiveReporters = {} => poolSize = 0
  /\ call.at = "setdata" =>
       call.i <= MaxPolicies /\ CeilDiv(call.i, nTaskNumPerThread) <= MaxSlots
  /\ call.at = "stop" => m_bIsRunning
  /\ call.at # "failed"
  /\ m_pthreadnum <= MaxSlots
  /\ ~loaded => call.at = "idle" /\ ~m_bIsRunning

\* Start creates one handler after the other and counts it, then the report thread.
StartSound ==
  /\ call.at \in {"create", "count", "report"} =>
       /\ ~m_bIsRunning /\ LiveReporters = {}
       /\ m_pthreadnum_alive = call.i
       /\ poolSize = Alive
       /\ Alive = IF call.at = "count" THEN call.i + 1 ELSE call.i
       /\ IF call.at = "report" THEN call.i = m_pthreadnum ELSE call.i < m_pthreadnum
  /\ call.at = "settle" =>
       /\ Alive = m_pthreadnum
       /\ LiveReporters # {} => Filled
       /\ ~m_bIsRunning /\ m_pthreadnum > 0 => \E r \in LiveReporters : rep[r].at = "born"
       /\ LiveReporters = {} => poolSize = 0 /\ m_pthreadnum_alive = 0 /\ ~m_bIsRunning
       /\ \A r \in LiveReporters : rep[r].at \in {"top", "send"} => m_pthreadnum > 0

\* A plugin that runs has all of its handlers, and they go on.
RunSound ==
  /\ m_bIsRunning /\ call.at # "settle" /\ ~Stopping =>
       Filled /\ Alive = m_pthreadnum /\ m_pthreadnum > 0
  /\ \A h \in LiveHandlers :
       /\ hand[h].at \in New \/ Stopping \/ b_state[hand[h].num]
       /\ hand[h].at # "born" => hand[h].num \in 0 .. poolSize - 1
       /\ hand[h].at \in Ending => Stopping

\* What the unguarded counter says is never too low, and the last handler that reads it
\* writes what is left.
WaitSound ==
  Stopping =>
    /\ Alive <= m_pthreadnum_alive /\ Alive <= m_pthreadnum
    /\ \A h \in LiveHandlers : hand[h].at = "dec" => Alive <= hand[h].reg
    /\ LiveReporters # {} => poolSize = m_pthreadnum
    /\ ~m_bIsRunning => LiveHandlers = {} /\ m_pthreadnum_alive = 0
    /\ LiveReporters = {} => ~m_bIsRunning /\ poolSize = 0

\* There is one report thread at most; it tells the truth about the handlers.
ReporterSound ==
  /\ \A q, r \in LiveReporters : q = r
  /\ m_bIsRunning => LiveReporters # {}
  /\ \A r \in LiveReporters :
       /\ rep[r].at = "born" => call.at = "settle" /\ ~m_bIsRunning
       /\ rep[r].at \in {"top", "scan", "send", "check", "stop"} => m_bIsRunning
       /\ rep[r].at \in {"stop", "clear"} => LiveHandlers = {} /\ m_pthreadnum_alive = 0
       /\ rep[r].at = "clear" => ~m_bIsRunning

\* No index of a handler is negative; without handlers there is nothing to walk through.
IndexSound ==
  /\ IsFiniteSet(LiveHandlers)
  /\ m_pthreadnum = 0 => policy = <<>>
  /\ \A h \in Handlers : hand[h].i \in Nat

PoolInv ==
  /\ TypeOK /\ RestSound /\ StartSound /\ RunSound /\ WaitSound /\ ReporterSound
  /\ IndexSound

InShare(i, num) == \E k \in 0 .. i : i = num + k * m_pthreadnum

\* The report thread sends a result that is finished.
SendSound ==
  \A r \in LiveReporters : rep[r].at = "send" =>
    rep[r].i < Len(policy) /\ policy[rep[r].i + 1].bFinished

\* One handler at a time takes its number, from the size of the pool that its own entry
\* has just come to.
NumberSound ==
  \A h \in LiveHandlers :
    /\ hand[h].at \in New =>
         call.at = "count" /\ \A g \in LiveHandlers : g = h \/ hand[g].at \notin New
    /\ hand[h].at # "born" => \A g \in LiveHandlers :
         \/ g = h
         \/ hand[g].at = "born" /\ hand[h].num < poolSize - 1
         \/ hand[g].at # "born" /\ hand[g].num # hand[h].num

\* A handler goes on from its number in steps of m_pthreadnum through the policies that
\* there are, and works on a host whose last result has been taken.
Walks(h) ==
  /\ hand[h].at \notin New => hand[h].n = Len(policy)
  /\ hand[h].at \in {"scan", "store", "mark", "next"} => InShare(hand[h].i, hand[h].num)
  /\ hand[h].at \in {"store", "mark"} =>
       hand[h].i < Len(policy) /\ ~policy[hand[h].i + 1].bFinished

\* No two prompt handlers work on one host.
ShareSound ==
  SendSound /\ NumberSound /\ \A h \in LiveHandlers : Walks(h)

\* The plugin under its manager: who is there at each place of the Worker, and which
\* handler works on what.
PluginInv == PoolInv /\ (PromptHandler => ShareSound)
=============================================================================
