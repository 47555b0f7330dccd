------------------------------ MODULE PluginPool ------------------------------
(***************************************************************************)
(* The thread pool inside one plugin of the collector, as it is written in *)
(* Plugin/weakpasswd/WeakpasswdMgr.cpp: SetData stores the policies, Start *)
(* creates the handler threads and one report thread, Stop clears a flag   *)
(* per handler, the handlers scan their share of the policies, and the     *)
(* report thread sends finished results and, once no handler is left,      *)
(* clears m_bIsRunning and the pool.  Ping, filelog, monitor, inspector    *)
(* and most other plugins repeat this text with other work inside.         *)
(*                                                                         *)
(* The threads share everything but m_bIsRunning's getter without a lock,  *)
(* so a step below is one access to a shared field, or several accesses    *)
(* that no other thread can tell from one.  The caller of SetData, Start   *)
(* and Stop is a single thread at a time (see ManagedPlugin), whose place  *)
(* in the code is call.at.                                                 *)
(***************************************************************************)
EXTENDS Integers, Sequences

CONSTANTS
  Handlers,          \* identifiers for OnWeakpasswdHandle threads
  Reporters,         \* identifiers for OnReportHandle threads
  MaxSlots,          \* bound: entries m_vecThreadPool ever holds, see HasRoom
  MaxPolicies,       \* bound: hosts in one policy string
  nTaskNumPerThread, \* m_weakpasswdConfig.nTaskNumPerThread
  CreateMayFail,     \* TRUE when pthread_create may return an error
  PromptHandler,     \* TRUE when a new handler gets through its prologue
                     \* within the 10 ms sleep that Start makes for it
  PromptReporter,    \* TRUE when the report thread's straight-line stretches
                     \* fit into the 1 ms sleeps of Start and StopScModule
  PromptClear        \* TRUE when the report thread gets from m_bIsRunning = false
                     \* to the end of clear(), the next statement, before the
                     \* Worker comes to the next Start; no sleep makes it wait

ASSUME PoolAssumption ==
  /\ MaxSlots \in Nat
  /\ MaxPolicies \in Nat
  /\ nTaskNumPerThread \in Nat \ {0}
  /\ {CreateMayFail, PromptHandler, PromptReporter, PromptClear} \subseteq BOOLEAN

VARIABLES
  policy,            \* m_vecPolicy: one record per host, see PolicyRecord
  m_pthreadnum,
  m_pthreadnum_alive,
  m_bIsRunning,
  poolSize,          \* m_vecThreadPool.size()
  b_state,           \* b_state of the pool entries; clear() keeps the memory
  hand,              \* the handler threads
  rep,               \* the report threads
  call               \* the thread that calls into the plugin

poolVars == <<policy, m_pthreadnum, m_pthreadnum_alive, m_bIsRunning, poolSize,
              b_state, hand, rep>>

(***************************************************************************)
(* A policy's host is named by its position.  strResult is kept as the set *)
(* of hosts whose weak passwords the text lists.                           *)
(***************************************************************************)
Hosts == 1 .. MaxPolicies
PolicyRecord == [bFinished : BOOLEAN, strResult : SUBSET Hosts]
NewPolicy == [bFinished |-> FALSE, strResult |-> {}]

\* Entry -1 stands for the memory before the first element: size() - 1 of an
\* empty pool.
SlotIndex == -1 .. MaxSlots

HandlerAt == {"none", "born", "arm", "loop", "scan", "store", "mark", "next",
              "exit", "dec"}
NoHandler == [at |-> "none", num |-> 0, n |-> 0, i |-> 0, found |-> {}, reg |-> 0]
HandlerState == [at : HandlerAt, num : SlotIndex, n : 0 .. MaxPolicies,
                 i : Int, found : SUBSET Hosts, reg : Int]

ReporterAt == {"none", "born", "top", "scan", "send", "check", "stop", "clear"}
NoReporter == [at |-> "none", i |-> 0]
ReporterState == [at : ReporterAt, i : Nat]

LiveHandlers == {h \in Handlers : hand[h].at # "none"}
LiveReporters == {r \in Reporters : rep[r].at # "none"}
Quiet == LiveHandlers = {} /\ LiveReporters = {}

\* Every report thread is inside ReportData, at its sleep, or has ended; it is
\* not on its way there.
ReportersSettled ==
  PromptReporter => \A r \in LiveReporters : rep[r].at \in {"send", "top"}

-----------------------------------------------------------------------------
(* Constructor *)

Constructed ==
  /\ policy' = <<>>
  /\ m_pthreadnum' = 0
  /\ m_pthreadnum_alive' = 0
  /\ m_bIsRunning' = FALSE
  /\ poolSize' = 0
  /\ b_state' = [s \in SlotIndex |-> FALSE]

PoolInit ==
  /\ policy = <<>>
  /\ m_pthreadnum = 0
  /\ m_pthreadnum_alive = 0
  /\ m_bIsRunning = FALSE
  /\ poolSize = 0
  /\ b_state = [s \in SlotIndex |-> FALSE]
  /\ hand = [h \in Handlers |-> NoHandler]
  /\ rep = [r \in Reporters |-> NoReporter]

-----------------------------------------------------------------------------
(* The calls: SetData, Start, Stop *)

CallTo(at) == call' = [call EXCEPT !.at = at]

CeilDiv(a, b) == (a + b - 1) \div b

\* Bound: the model has slots and thread identifiers for a start with n hosts.
HasRoom(n) ==
  /\ poolSize + CeilDiv(n, nTaskNumPerThread) <= MaxSlots
  /\ LiveReporters # Reporters

\* Policy string of n hosts; the old policies go.
SetData(n) ==
  /\ policy' = [i \in 1 .. n |-> NewPolicy]
  /\ m_pthreadnum' = CeilDiv(n, nTaskNumPerThread)
  /\ UNCHANGED <<m_pthreadnum_alive, m_bIsRunning, poolSize, b_state, hand, rep>>

\* Start does nothing for a plugin that runs already.
StartEnter ==
  /\ call.at = "start"
  /\ PromptClear => \A r \in Reporters : rep[r].at # "clear"
  /\ call' = [call EXCEPT !.at = IF m_bIsRunning THEN "started"
                                 ELSE IF m_pthreadnum = 0 THEN "report"
                                 ELSE "create",
                          !.i = 0]
  /\ UNCHANGED poolVars

\* push_back of a zeroed entry, then pthread_create.
StartCreate ==
  /\ call.at = "create"
  /\ poolSize' = poolSize + 1
  /\ b_state' = [b_state EXCEPT ![poolSize] = FALSE]
  /\ \/ \E h \in Handlers \ LiveHandlers :
          /\ hand' = [hand EXCEPT ![h] = [NoHandler EXCEPT !.at = "born"]]
          /\ CallTo("count")
     \/ /\ CreateMayFail
        /\ CallTo("failed")
        /\ UNCHANGED hand
  /\ UNCHANGED <<policy, m_pthreadnum, m_pthreadnum_alive, m_bIsRunning, rep>>

\* Slip: the new thread is not counted.
StartCountForgotten ==
  /\ call.at = "count"
  /\ PromptHandler => \A h \in Handlers : hand[h].at \notin {"born", "arm"}
  /\ call' = [call EXCEPT !.at = IF call.i + 1 < m_pthreadnum THEN "create"
                                 ELSE "report",
                          !.i = @ + 1]
  /\ UNCHANGED poolVars

\* The 10 ms sleep is over: count the thread and go on with the next.
StartCount ==
  /\ call.at = "count"
  /\ PromptHandler => \A h \in Handlers : hand[h].at \notin {"born", "arm"}
  /\ m_pthreadnum_alive' = m_pthreadnum_alive + 1
  /\ call' = [call EXCEPT !.at = IF call.i + 1 < m_pthreadnum THEN "create"
                                 ELSE "report",
                          !.i = @ + 1]
  /\ UNCHANGED <<policy, m_pthreadnum, m_bIsRunning, poolSize, b_state, hand, rep>>

StartReport ==
  /\ call.at = "report"
  /\ \/ \E r \in Reporters \ LiveReporters :
          /\ rep' = [rep EXCEPT ![r] = [at |-> "born", i |-> 0]]
          /\ CallTo("settle")
     \/ /\ CreateMayFail
        /\ CallTo("failed")
        /\ UNCHANGED rep
  /\ UNCHANGED <<policy, m_pthreadnum, m_pthreadnum_alive, m_bIsRunning,
                 poolSize, b_state, hand>>

\* The 1 ms sleep after the report thread was created.
StartSettle ==
  /\ call.at = "settle"
  /\ ReportersSettled
  /\ CallTo("started")
  /\ UNCHANGED poolVars

Start ==
  StartEnter \/ StartCreate \/ StartCount \/ StartReport \/ StartSettle

\* Slip: the loop over the pool ends one entry early.
StopSkipsLast ==
  /\ b_state' = [s \in SlotIndex |-> IF s \in 0 .. m_pthreadnum - 2
                                     THEN FALSE ELSE b_state[s]]
  /\ UNCHANGED <<policy, m_pthreadnum, m_pthreadnum_alive, m_bIsRunning,
                 poolSize, hand, rep>>

\* Every pool entry is told to end; nothing is waited for.
Stop ==
  /\ b_state' = [s \in SlotIndex |-> IF s \in 0 .. m_pthreadnum - 1
                                     THEN FALSE ELSE b_state[s]]
  /\ UNCHANGED <<policy, m_pthreadnum, m_pthreadnum_alive, m_bIsRunning,
                 poolSize, hand, rep>>

-----------------------------------------------------------------------------
(* OnWeakpasswdHandle *)

HandTo(h, at) == hand' = [hand EXCEPT ![h].at = at]

handlerFrame == <<m_pthreadnum, m_bIsRunning, poolSize, rep, call>>

\* Slip: the size is taken for the number of the last entry.
HandlerNumberOffByOne(h) ==
  /\ hand[h].at = "born"
  /\ hand' = [hand EXCEPT ![h].at = "arm", ![h].num = poolSize]
  /\ UNCHANGED <<policy, m_pthreadnum_alive, b_state, handlerFrame>>

\* int thread_num = m_vecThreadPool.size() - 1
HandlerNumber(h) ==
  /\ hand[h].at = "born"
  /\ hand' = [hand EXCEPT ![h].at = "arm", ![h].num = poolSize - 1]
  /\ UNCHANGED <<policy, m_pthreadnum_alive, b_state, handlerFrame>>

\* m_vecThreadPool[thread_num].b_state = true; nPolocyNum = m_vecPolicy.size()
HandlerArm(h) ==
  /\ hand[h].at = "arm"
  /\ b_state' = [b_state EXCEPT ![hand[h].num] = TRUE]
  /\ hand' = [hand EXCEPT ![h].at = "loop", ![h].n = Len(policy)]
  /\ UNCHANGED <<policy, m_pthreadnum_alive, handlerFrame>>

\* while (b_state) { if (m_bIsRunning) { ... the scan, a fresh vecWeakpasswd } }
HandlerLoop(h) ==
  /\ hand[h].at = "loop"
  /\ \/ /\ ~b_state[hand[h].num]
        /\ HandTo(h, "exit")
     \/ /\ b_state[hand[h].num]
        /\ m_bIsRunning
        /\ hand' = [hand EXCEPT ![h].at = "scan", ![h].i = hand[h].num,
                                ![h].found = {}]
  /\ UNCHANGED <<policy, m_pthreadnum_alive, b_state, handlerFrame>>

\* The round is over for this handler: the interruptible sleep, then the loop.
HandlerRoundEnd(h) ==
  /\ hand[h].at = "scan"
  /\ hand[h].i >= hand[h].n
  /\ HandTo(h, "loop")
  /\ UNCHANGED <<policy, m_pthreadnum_alive, b_state, handlerFrame>>

\* Slip: a new result replaces one the report thread has not taken yet.
HandlerScanOverwrites(h) ==
  /\ hand[h].at = "scan"
  /\ hand[h].i < hand[h].n
  /\ \E weak \in BOOLEAN :
       hand' = [hand EXCEPT ![h].at = "store",
                            ![h].found = IF weak THEN @ \union {hand[h].i + 1}
                                                 ELSE @]
  /\ UNCHANGED <<policy, m_pthreadnum_alive, b_state, handlerFrame>>

\* GetWeakPassword appends what it finds on host i to the handler's vector;
\* the result is kept if the last one has been taken by the report thread.
HandlerScan(h) ==
  /\ hand[h].at = "scan"
  /\ hand[h].i < hand[h].n
  /\ \E weak \in BOOLEAN, fin \in BOOLEAN :
       /\ hand[h].i \in 0 .. Len(policy) - 1 => fin = policy[hand[h].i + 1].bFinished
       /\ hand' = [hand EXCEPT ![h].at = IF fin THEN "next" ELSE "store",
                               ![h].found = IF weak THEN @ \union {hand[h].i + 1}
                                                    ELSE @]
  /\ UNCHANGED <<policy, m_pthreadnum_alive, b_state, handlerFrame>>

\* m_vecPolicy[i].strResult = strResult
HandlerStore(h) ==
  /\ hand[h].at = "store"
  /\ policy' = [k \in DOMAIN policy |->
                  IF k = hand[h].i + 1
                  THEN [policy[k] EXCEPT !.strResult = hand[h].found]
                  ELSE policy[k]]
  /\ HandTo(h, "mark")
  /\ UNCHANGED <<m_pthreadnum_alive, b_state, handlerFrame>>

\* m_vecPolicy[i].bFinished = true
HandlerMark(h) ==
  /\ hand[h].at = "mark"
  /\ policy' = [k \in DOMAIN policy |->
                  IF k = hand[h].i + 1
                  THEN [policy[k] EXCEPT !.bFinished = TRUE]
                  ELSE policy[k]]
  /\ HandTo(h, "next")
  /\ UNCHANGED <<m_pthreadnum_alive, b_state, handlerFrame>>

\* A stop command ends the round early; i += m_pthreadnum otherwise.
HandlerNext(h) ==
  /\ hand[h].at = "next"
  /\ hand' = [hand EXCEPT ![h].at = IF b_state[hand[h].num] THEN "scan" ELSE "loop",
                          ![h].i = IF b_state[hand[h].num] THEN @ + m_pthreadnum
                                                           ELSE @]
  /\ UNCHANGED <<policy, m_pthreadnum_alive, b_state, handlerFrame>>

\* --m_pthreadnum_alive is not atomic: a load, then a store.
HandlerLoadAlive(h) ==
  /\ hand[h].at = "exit"
  /\ hand' = [hand EXCEPT ![h].at = "dec", ![h].reg = m_pthreadnum_alive]
  /\ UNCHANGED <<policy, m_pthreadnum_alive, b_state, handlerFrame>>

HandlerStoreAlive(h) ==
  /\ hand[h].at = "dec"
  /\ m_pthreadnum_alive' = hand[h].reg - 1
  /\ hand' = [hand EXCEPT ![h] = NoHandler]
  /\ UNCHANGED <<policy, b_state, handlerFrame>>

OnWeakpasswdHandle(h) ==
  \/ HandlerNumber(h) \/ HandlerArm(h) \/ HandlerLoop(h)
  \/ HandlerScan(h) \/ HandlerStore(h) \/ HandlerMark(h) \/ HandlerNext(h)
  \/ HandlerRoundEnd(h)
  \/ HandlerLoadAlive(h) \/ HandlerStoreAlive(h)

-----------------------------------------------------------------------------
(* OnReportHandle *)

reporterFrame == <<m_pthreadnum, m_pthreadnum_alive, b_state, hand, call>>

\* All threads of the pool have been created: the module counts as running.
ReporterTop(r) ==
  /\ rep[r].at \in {"born", "top"}
  /\ m_bIsRunning' = (m_bIsRunning \/ m_pthreadnum = m_pthreadnum_alive)
  /\ rep' = [rep EXCEPT ![r] = [at |-> "scan", i |-> 0]]
  /\ UNCHANGED <<policy, poolSize, reporterFrame>>

\* One policy of the scan: a finished result is about to be reported.
ReporterScan(r) ==
  /\ rep[r].at = "scan"
  /\ rep' = [rep EXCEPT ![r] =
               IF rep[r].i >= Len(policy) THEN [at |-> "check", i |-> 0]
               ELSE IF policy[rep[r].i + 1].bFinished
                    THEN [at |-> "send", i |-> rep[r].i]
               ELSE [at |-> "scan", i |-> rep[r].i + 1]]
  /\ UNCHANGED <<policy, m_bIsRunning, poolSize, reporterFrame>>

\* ReportData has returned, with success or without: the flag is reset.
ReporterSent(r) ==
  /\ rep[r].at = "send"
  /\ policy' = [k \in DOMAIN policy |->
                  IF k = rep[r].i + 1 THEN [policy[k] EXCEPT !.bFinished = FALSE]
                  ELSE policy[k]]
  /\ rep' = [rep EXCEPT ![r] = [at |-> "scan", i |-> rep[r].i + 1]]
  /\ UNCHANGED <<m_bIsRunning, poolSize, reporterFrame>>

\* Slip: the last handler is not waited for.
ReporterCheckEarly(r) ==
  /\ rep[r].at = "check"
  /\ rep' = [rep EXCEPT ![r].at = IF m_pthreadnum_alive <= 1 THEN "stop" ELSE "top"]
  /\ UNCHANGED <<policy, m_bIsRunning, poolSize, reporterFrame>>

\* if (m_pthreadnum_alive == 0) break
ReporterCheck(r) ==
  /\ rep[r].at = "check"
  /\ rep' = [rep EXCEPT ![r].at = IF m_pthreadnum_alive = 0 THEN "stop" ELSE "top"]
  /\ UNCHANGED <<policy, m_bIsRunning, poolSize, reporterFrame>>

\* Slip: the end of the report thread leaves the flag up.
ReporterStopForgets(r) ==
  /\ rep[r].at = "stop"
  /\ rep' = [rep EXCEPT ![r].at = "clear"]
  /\ UNCHANGED <<policy, m_bIsRunning, poolSize, reporterFrame>>

ReporterStop(r) ==
  /\ rep[r].at = "stop"
  /\ m_bIsRunning' = FALSE
  /\ rep' = [rep EXCEPT ![r].at = "clear"]
  /\ UNCHANGED <<policy, poolSize, reporterFrame>>

ReporterClear(r) ==
  /\ rep[r].at = "clear"
  /\ poolSize' = 0
  /\ rep' = [rep EXCEPT ![r] = NoReporter]
  /\ UNCHANGED <<policy, m_bIsRunning, reporterFrame>>

OnReportHandle(r) ==
  \/ ReporterTop(r) \/ ReporterScan(r) \/ ReporterSent(r)
  \/ ReporterCheck(r) \/ ReporterStop(r) \/ ReporterClear(r)

-----------------------------------------------------------------------------
PoolTypeOK ==
  /\ policy \in Seq(PolicyRecord) /\ Len(policy) <= MaxPolicies
  /\ m_pthreadnum \in 0 .. CeilDiv(MaxPolicies, nTaskNumPerThread)
  /\ m_pthreadnum_alive \in Int
  /\ m_bIsRunning \in BOOLEAN
  /\ poolSize \in 0 .. MaxSlots
  /\ b_state \in [SlotIndex -> BOOLEAN]
  /\ hand \in [Handlers -> HandlerState]
  /\ rep \in [Reporters -> ReporterState]
=============================================================================
