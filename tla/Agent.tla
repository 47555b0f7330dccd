--------------------------------- MODULE Agent ---------------------------------
(***************************************************************************)
(* The collector process (Agent/BDScModuleApp.cpp, BDScModuleMgr.cpp): the *)
(* Reader thread answers the requests of the management server (MS) and    *)
(* queues them in m_listreq, the Worker thread executes them one by one on *)
(* the plugins, and the HeartBeatSend thread reports the plugins' states.  *)
(* Worker and HeartBeatSend share the module list under m_mtxScModuleList, *)
(* which the Worker keeps during a plugin's whole start or stop.           *)
(*                                                                         *)
(* A plugin is no more than the life cycle of PluginLife here; the module  *)
(* ManagedPlugin shows how a plugin comes to keep to it.                   *)
(***************************************************************************)
EXTENDS Integers, Sequences

CONSTANTS
  Modules,          \* the plugins that the module file names
  SelfStopping,     \* those that stop by themselves after a report: controller, threatint
  NoModule,         \* the id of a request that names none
  MaxRequests,      \* bound: messages the MS sends
  Offered,          \* bound: the types of its commands
  bAutoStartModule  \* configuration item auto_start_module

ASSUME AgentAssumption ==
  /\ NoModule \notin Modules
  /\ SelfStopping \subseteq Modules
  /\ MaxRequests \in Nat
  /\ bAutoStartModule \in BOOLEAN

VARIABLES
  reader,           \* the Reader thread and the request it holds
  sock,             \* m_zmq_server, a REP socket: which call it waits for
  received,         \* messages received so far
  m_listreq,
  executed,         \* requests the Worker has executed, since the beginning
  worker,           \* the Worker thread
  mtx,              \* who holds m_mtxScModuleList
  m_ScModuleList,
  life, tasked,     \* the plugins, see PluginLife
  up,               \* the threads have been created (RunProcess)
  beat,             \* the HeartBeatSend thread
  m_registered

vars == <<reader, sock, received, m_listreq, executed, worker, mtx,
          m_ScModuleList, life, tasked, up, beat, m_registered>>
readerVars == <<reader, sock, received>>
beatVars == <<beat, m_registered>>

Ids == Modules \union {NoModule}

\* Type "0" is the initial value of dwTypeTmp.  The Worker asks for the module of
\* a request for a plugin only, so the others are told apart by their type.
PluginCommands == {"START_PLUGIN", "STOP_PLUGIN", "START_TASK"}
AgentCommands == {"START_AGENT", "STOP_AGENT", "MANAGE_AGENT"}
Commands == [dwType : PluginCommands, dwModuleID : Ids]
              \union [dwType : AgentCommands, dwModuleID : {NoModule}]
NoCommand == [dwType |-> "0", dwModuleID |-> NoModule]
Requests == Commands \union {NoCommand}

\* Ghost: quit says that the module has stopped by itself since bIsRunning was set.
Entries == [dwModuleID : Modules, bIsRunning : BOOLEAN, quit : BOOLEAN]
LifeStates == {"unloaded", "stopped", "starting", "running", "stopping"}

ReaderAt == {"recv", "refuse", "empty", "reply", "push"}
WorkerAt == {"look", "setdata", "startmodule", "starting", "stopmodule",
             "stopping", "task", "load", "created", "autostart", "discard", "add",
             "unload", "next", "unloading", "free", "pop"}

TypeOK ==
  /\ reader \in [at : ReaderAt, req : Requests]
  /\ sock \in {"recv", "send"}
  /\ received \in 0 .. MaxRequests
  /\ m_listreq \in Seq(Requests)
  /\ executed \in Seq(Requests)
  /\ worker \in [at : WorkerAt, m : Ids, todo : SUBSET Modules, i : Nat \ {0}]
  /\ mtx \in {"free", "worker", "beat"}
  /\ m_ScModuleList \in Seq(Entries)
  /\ life \in [Modules -> LifeStates]
  /\ tasked \in [Modules -> BOOLEAN]
  /\ up \in BOOLEAN
  /\ beat \in [at : {"rest", "lock", "scan", "send"}, i : Nat \ {0}]
  /\ m_registered \in BOOLEAN

WorkerIdle == [at |-> "look", m |-> NoModule, todo |-> {}, i |-> 1]

\* Initlize loads the modules before RunProcess creates the threads: the main
\* thread stands at the Worker's place for the first load.
Init ==
  /\ reader = [at |-> "recv", req |-> NoCommand]
  /\ sock = "recv"
  /\ received = 0
  /\ m_listreq = <<>> /\ executed = <<>>
  /\ worker = [WorkerIdle EXCEPT !.at = "load", !.todo = Modules]
  /\ mtx = "free"
  /\ m_ScModuleList = <<>>
  /\ life = [m \in Modules |-> "unloaded"]
  /\ tasked = [m \in Modules |-> FALSE]
  /\ up = FALSE
  /\ beat = [at |-> "rest", i |-> 1]
  /\ m_registered = FALSE

-----------------------------------------------------------------------------
(* Plugins, as far as the manager sees them *)

IsRunning(m) == life[m] \in {"running", "stopping"}

SetLife(m, state) == life' = [life EXCEPT ![m] = state]

\* A plugin's threads: a start is completed, a stop comes to its end, a plugin
\* without work ends by itself.
PluginUp(m) == life[m] = "starting" /\ SetLife(m, "running")

PluginDown(m) ==
  /\ life[m] \in IF tasked[m] THEN {"stopping"} ELSE {"stopping", "running"}
  /\ SetLife(m, "stopped")

pluginFrame == <<readerVars, m_listreq, executed, worker, mtx, tasked, up, beatVars>>

Plugin(m) ==
  /\ PluginUp(m) \/ PluginDown(m)
  /\ UNCHANGED <<m_ScModuleList, pluginFrame>>

\* The report thread of a self-stopping plugin has called Stop, with policies left.
PluginQuits(m) ==
  /\ m \in SelfStopping
  /\ life[m] = "running"
  /\ SetLife(m, "stopped")
  /\ m_ScModuleList' = [k \in DOMAIN m_ScModuleList |->
       IF m_ScModuleList[k].dwModuleID = m THEN [m_ScModuleList[k] EXCEPT !.quit = TRUE]
       ELSE m_ScModuleList[k]]
  /\ UNCHANGED pluginFrame

-----------------------------------------------------------------------------
(* Reader *)

ReaderTo(at) == reader' = [reader EXCEPT !.at = at]
readerFrame == <<executed, worker, mtx, m_ScModuleList, life, tasked, up, beatVars>>

\* zmq_send on a REP socket that owes no answer fails and changes nothing.
ZmqSend == sock' = "recv"

\* zmq_recv fails, which looks like an empty message below, or there is an empty
\* message, one that does not parse or is of an unknown type, or a command.
ReaderRecv ==
  /\ up
  /\ reader.at = "recv"
  /\ sock = "recv"
  /\ received < MaxRequests
  /\ received' = received + 1
  /\ \/ sock' = "recv" /\ ReaderTo("empty")
     \/ sock' = "send" /\ \E at \in {"empty", "refuse"} : ReaderTo(at)
     \/ sock' = "send" /\ \E req \in {c \in Commands : c.dwType \in Offered} :
                             reader' = [at |-> "reply", req |-> req]
  /\ UNCHANGED <<m_listreq, readerFrame>>

\* Slip: an invalid message is not answered.
ReaderRefuseSilently ==
  /\ reader.at = "refuse"
  /\ ReaderTo("recv")
  /\ UNCHANGED <<sock, received, m_listreq, readerFrame>>

\* An invalid message is answered with an empty one, and forgotten.
ReaderRefuse ==
  /\ reader.at = "refuse"
  /\ ZmqSend
  /\ ReaderTo("recv")
  /\ UNCHANGED <<received, m_listreq, readerFrame>>

\* So is an empty message, but here the loop goes on below.
ReaderEmpty ==
  /\ reader.at = "empty"
  /\ ZmqSend
  /\ ReaderTo("reply")
  /\ UNCHANGED <<received, m_listreq, readerFrame>>

\* The answer is sent before the command is executed.
ReaderReply ==
  /\ reader.at = "reply"
  /\ ZmqSend
  /\ ReaderTo("push")
  /\ UNCHANGED <<received, m_listreq, readerFrame>>

ReaderPush ==
  /\ reader.at = "push"
  /\ m_listreq' = Append(m_listreq, reader.req)
  /\ reader' = [at |-> "recv", req |-> NoCommand]
  /\ UNCHANGED <<sock, received, readerFrame>>

Reader == ReaderRecv \/ ReaderRefuse \/ ReaderEmpty \/ ReaderReply \/ ReaderPush

-----------------------------------------------------------------------------
(* Worker and CBDScModuleMgr *)

WorkerTo(at) == worker' = [worker EXCEPT !.at = at]
workerFrame == <<readerVars, up, beatVars>>

Listed(m) == \E k \in DOMAIN m_ScModuleList : m_ScModuleList[k].dwModuleID = m

\* pScModule->bIsRunning = ... for the module the command is about.
Recall(running) ==
  m_ScModuleList' = [k \in DOMAIN m_ScModuleList |->
    IF m_ScModuleList[k].dwModuleID = worker.m
    THEN [m_ScModuleList[k] EXCEPT !.bIsRunning = running, !.quit = FALSE]
    ELSE m_ScModuleList[k]]

\* Slip: START_AGENT loads the modules whether or not they are loaded.
EntryLoadsAgain(type) ==
  IF type = "START_AGENT" THEN "load"
  ELSE IF m_ScModuleList = <<>> THEN "pop"
  ELSE CASE type = "START_PLUGIN" -> "setdata"
         [] type = "STOP_PLUGIN" -> "stopmodule"
         [] type = "START_TASK" -> "task"
         [] type = "STOP_AGENT" -> "unload"
         [] OTHER -> "pop"

\* Where the execution of a request begins.  m_ScModuleList is looked at without
\* the mutex: the module functions do nothing for an empty list.
Entry(type) ==
  IF type = "START_AGENT"
  THEN IF m_ScModuleList = <<>> THEN "load" ELSE "pop"
  ELSE IF m_ScModuleList = <<>> THEN "pop"
  ELSE CASE type = "START_PLUGIN" -> "setdata"
         [] type = "STOP_PLUGIN" -> "stopmodule"
         [] type = "START_TASK" -> "task"
         [] type = "STOP_AGENT" -> "unload"
         [] OTHER -> "pop"

WorkerLook ==
  /\ worker.at = "look"
  /\ m_listreq # <<>>
  /\ LET req == Head(m_listreq) IN
       /\ worker' = [WorkerIdle EXCEPT
                       !.at = Entry(req.dwType), !.m = req.dwModuleID,
                       !.todo = IF Entry(req.dwType) = "load" THEN Modules ELSE {}]
       /\ executed' = Append(executed, req)
  /\ UNCHANGED <<m_listreq, mtx, m_ScModuleList, life, tasked, workerFrame>>

\* Slip: pop_back for pop_front.
WorkerPopsLast ==
  /\ worker.at = "pop"
  /\ m_listreq' = SubSeq(m_listreq, 1, Len(m_listreq) - 1)
  /\ worker' = WorkerIdle
  /\ UNCHANGED <<executed, mtx, m_ScModuleList, life, tasked, workerFrame>>

\* RequestPop
WorkerPop ==
  /\ worker.at = "pop"
  /\ m_listreq' = Tail(m_listreq)
  /\ worker' = WorkerIdle
  /\ UNCHANGED <<executed, mtx, m_ScModuleList, life, tasked, workerFrame>>

\* Slip: a running plugin takes policies too.
SetModuleDataUnchecked ==
  /\ worker.at = "setdata"
  /\ mtx = "free"
  /\ IF Listed(worker.m)
     THEN /\ \E some \in BOOLEAN : tasked' = [tasked EXCEPT ![worker.m] = some]
          /\ Recall(IsRunning(worker.m))
          /\ WorkerTo("startmodule")
     ELSE WorkerTo("pop") /\ UNCHANGED <<m_ScModuleList, tasked>>
  /\ UNCHANGED <<m_listreq, executed, mtx, life, workerFrame>>

\* A stopped plugin takes policies, or finds fault with them; a running plugin
\* refuses, which ends the command.
SetModuleData ==
  /\ worker.at = "setdata"
  /\ mtx = "free"
  /\ IF Listed(worker.m) THEN Recall(IsRunning(worker.m)) ELSE UNCHANGED m_ScModuleList
  /\ IF Listed(worker.m) /\ ~IsRunning(worker.m)
     THEN /\ \E some \in BOOLEAN : tasked' = [tasked EXCEPT ![worker.m] = some]
          /\ \E ok \in BOOLEAN : WorkerTo(IF ok THEN "startmodule" ELSE "pop")
     ELSE WorkerTo("pop") /\ UNCHANGED tasked
  /\ UNCHANGED <<m_listreq, executed, mtx, life, workerFrame>>

\* Takes the mutex and calls the plugin's Start.
StartModule ==
  /\ worker.at = "startmodule"
  /\ mtx = "free"
  /\ Recall(IsRunning(worker.m))
  /\ IF IsRunning(worker.m)
     THEN WorkerTo("pop") /\ UNCHANGED <<mtx, life>>
     ELSE /\ mtx' = "worker"
          /\ SetLife(worker.m, "starting")
          /\ WorkerTo("starting")
  /\ UNCHANGED <<m_listreq, executed, tasked, workerFrame>>

StartReturns ==
  /\ worker.at = "starting"
  /\ life[worker.m] # "starting"
  /\ Recall(IsRunning(worker.m))
  /\ mtx' = "free"
  /\ WorkerTo("pop")
  /\ UNCHANGED <<m_listreq, executed, life, tasked, workerFrame>>

StartFails ==
  /\ worker.at = "starting"
  /\ life[worker.m] = "starting"
  /\ SetLife(worker.m, "stopped")
  /\ mtx' = "free"
  /\ WorkerTo("pop")
  /\ UNCHANGED <<m_listreq, executed, m_ScModuleList, tasked, workerFrame>>

\* Slip: the plugin is not told to stop before its end is waited for.
StopModuleWithoutStop ==
  /\ worker.at = "stopmodule"
  /\ mtx = "free"
  /\ IF Listed(worker.m) THEN Recall(IsRunning(worker.m)) ELSE UNCHANGED m_ScModuleList
  /\ IF Listed(worker.m) /\ IsRunning(worker.m)
     THEN mtx' = "worker" /\ WorkerTo("stopping")
     ELSE WorkerTo("pop") /\ UNCHANGED mtx
  /\ UNCHANGED <<m_listreq, executed, life, tasked, workerFrame>>

\* Takes the mutex and calls the plugin's Stop, if it runs.
StopModule ==
  /\ worker.at = "stopmodule"
  /\ mtx = "free"
  /\ IF Listed(worker.m) THEN Recall(IsRunning(worker.m)) ELSE UNCHANGED m_ScModuleList
  /\ IF Listed(worker.m) /\ IsRunning(worker.m)
     THEN /\ mtx' = "worker"
          /\ SetLife(worker.m, "stopping")
          /\ WorkerTo("stopping")
     ELSE WorkerTo("pop") /\ UNCHANGED <<mtx, life>>
  /\ UNCHANGED <<m_listreq, executed, tasked, workerFrame>>

\* Slip: bIsRunning is not asked for again after the stop.
StopReturnsUnrecalled ==
  /\ worker.at = "stopping"
  /\ life[worker.m] = "stopped"
  /\ mtx' = "free"
  /\ WorkerTo("pop")
  /\ UNCHANGED <<m_listreq, executed, m_ScModuleList, life, tasked, workerFrame>>

\* Slip: a return between lock and unlock.
StopReturnsLocked ==
  /\ worker.at = "stopping"
  /\ life[worker.m] = "stopped"
  /\ Recall(FALSE)
  /\ WorkerTo("pop")
  /\ UNCHANGED <<m_listreq, executed, mtx, life, tasked, workerFrame>>

\* The loop that waits for the end of the stop, with the mutex in hand.
StopReturns ==
  /\ worker.at = "stopping"
  /\ life[worker.m] = "stopped"
  /\ Recall(FALSE)
  /\ mtx' = "free"
  /\ WorkerTo("pop")
  /\ UNCHANGED <<m_listreq, executed, life, tasked, workerFrame>>

\* StartTask is called if the manager's copy says that the plugin runs.
StartModuleTask ==
  /\ worker.at = "task"
  /\ mtx = "free"
  /\ WorkerTo("pop")
  /\ UNCHANGED <<m_listreq, executed, mtx, m_ScModuleList, life, tasked, workerFrame>>

\* Load, one module of the file: its library or its Init may fail.
LoadModule ==
  /\ worker.at = "load"
  /\ \E m \in worker.todo :
       \/ /\ SetLife(m, "stopped")
          /\ tasked' = [tasked EXCEPT ![m] = FALSE]
          /\ worker' = [worker EXCEPT !.at = "created", !.m = m]
       \/ /\ worker' = [worker EXCEPT !.todo = @ \ {m}]
          /\ UNCHANGED <<life, tasked>>
  /\ UNCHANGED <<m_listreq, executed, mtx, m_ScModuleList, workerFrame>>

LoadEnds ==
  /\ worker.at = "load"
  /\ worker.todo = {}
  /\ WorkerTo(IF up THEN "pop" ELSE "look")
  /\ up' = TRUE
  /\ UNCHANGED <<m_listreq, executed, mtx, m_ScModuleList, life, tasked, readerVars,
                 beatVars>>

AutoStart ==
  /\ worker.at = "created"
  /\ IF bAutoStartModule
     THEN WorkerTo("autostart") /\ SetLife(worker.m, "starting")
     ELSE WorkerTo("add") /\ UNCHANGED life
  /\ UNCHANGED <<m_listreq, executed, mtx, m_ScModuleList, tasked, workerFrame>>

AutoStarted ==
  /\ worker.at = "autostart"
  /\ \/ life[worker.m] # "starting" /\ WorkerTo("add") /\ UNCHANGED life
     \/ /\ life[worker.m] = "starting"
        /\ SetLife(worker.m, "stopped")
        /\ WorkerTo("discard")
  /\ UNCHANGED <<m_listreq, executed, mtx, m_ScModuleList, tasked, workerFrame>>

\* A plugin whose Start returned false is freed.
Discard ==
  /\ worker.at = "discard"
  /\ SetLife(worker.m, "unloaded")
  /\ tasked' = [tasked EXCEPT ![worker.m] = FALSE]
  /\ worker' = [worker EXCEPT !.at = "load", !.todo = @ \ {worker.m}]
  /\ UNCHANGED <<m_listreq, executed, mtx, m_ScModuleList, workerFrame>>

AddScModule ==
  /\ worker.at = "add"
  /\ mtx = "free"
  /\ m_ScModuleList' = Append(m_ScModuleList,
       [dwModuleID |-> worker.m, bIsRunning |-> IsRunning(worker.m), quit |-> FALSE])
  /\ worker' = [worker EXCEPT !.at = "load", !.todo = @ \ {worker.m}]
  /\ UNCHANGED <<m_listreq, executed, mtx, life, tasked, workerFrame>>

\* Slip: the modules are freed without the mutex.
UnloadUnlocked ==
  /\ worker.at = "unload"
  /\ WorkerTo("next")
  /\ UNCHANGED <<m_listreq, executed, mtx, m_ScModuleList, life, tasked, workerFrame>>

Unload ==
  /\ worker.at = "unload"
  /\ mtx = "free"
  /\ mtx' = "worker"
  /\ WorkerTo("next")
  /\ UNCHANGED <<m_listreq, executed, m_ScModuleList, life, tasked, workerFrame>>

\* UnLoadScModule stops the next module of the list, if it runs.
UnLoadScModule ==
  /\ worker.at = "next"
  /\ worker.i <= Len(m_ScModuleList)
  /\ LET m == m_ScModuleList[worker.i].dwModuleID IN
       /\ worker' = [worker EXCEPT !.at = IF IsRunning(m) THEN "unloading" ELSE "free",
                                   !.m = m]
       /\ IF IsRunning(m) THEN SetLife(m, "stopping") ELSE UNCHANGED life
  /\ UNCHANGED <<m_listreq, executed, mtx, m_ScModuleList, tasked, workerFrame>>

UnloadStopped ==
  /\ worker.at = "unloading"
  /\ life[worker.m] = "stopped"
  /\ WorkerTo("free")
  /\ UNCHANGED <<m_listreq, executed, mtx, m_ScModuleList, life, tasked, workerFrame>>

FreeScModule ==
  /\ worker.at = "free"
  /\ SetLife(worker.m, "unloaded")
  /\ tasked' = [tasked EXCEPT ![worker.m] = FALSE]
  /\ worker' = [worker EXCEPT !.at = "next", !.i = @ + 1]
  /\ UNCHANGED <<m_listreq, executed, mtx, m_ScModuleList, workerFrame>>

UnloadEnds ==
  /\ worker.at = "next"
  /\ worker.i > Len(m_ScModuleList)
  /\ m_ScModuleList' = <<>>
  /\ mtx' = "free"
  /\ WorkerTo("pop")
  /\ UNCHANGED <<m_listreq, executed, life, tasked, workerFrame>>

Worker ==
  \/ WorkerLook \/ WorkerPop
  \/ SetModuleData \/ StartModule \/ StartReturns \/ StartFails
  \/ StopModule \/ StopReturns \/ StartModuleTask
  \/ LoadModule \/ LoadEnds \/ AutoStart \/ AutoStarted \/ Discard \/ AddScModule
  \/ Unload \/ UnLoadScModule \/ UnloadStopped \/ FreeScModule \/ UnloadEnds

-----------------------------------------------------------------------------
(* HeartBeatSend and HeartBeatRecv *)

BeatTo(at) == beat' = [beat EXCEPT !.at = at]
beatFrame == <<readerVars, m_listreq, executed, worker, life, tasked, up,
               m_registered>>

\* The next heartbeat: a registration while the collector is not registered.
BeatBegin ==
  /\ up
  /\ beat.at = "rest"
  /\ BeatTo(IF m_registered THEN "lock" ELSE "send")
  /\ UNCHANGED <<mtx, m_ScModuleList, beatFrame>>

\* GetModuleStateString
BeatLock ==
  /\ beat.at = "lock"
  /\ mtx = "free"
  /\ mtx' = "beat"
  /\ beat' = [at |-> "scan", i |-> 1]
  /\ UNCHANGED <<m_ScModuleList, beatFrame>>

\* One entry of the list: the plugin is asked for its state once more.
BeatModule ==
  /\ beat.at = "scan"
  /\ beat.i <= Len(m_ScModuleList)
  /\ m_ScModuleList' = [m_ScModuleList EXCEPT
       ![beat.i].bIsRunning = IsRunning(m_ScModuleList[beat.i].dwModuleID),
       ![beat.i].quit = FALSE]
  /\ beat' = [beat EXCEPT !.i = @ + 1]
  /\ UNCHANGED <<mtx, beatFrame>>

BeatUnlock ==
  /\ beat.at = "scan"
  /\ beat.i > Len(m_ScModuleList)
  /\ mtx' = "free"
  /\ beat' = [at |-> "send", i |-> 1]
  /\ UNCHANGED <<m_ScModuleList, beatFrame>>

BeatSend ==
  /\ beat.at = "send"
  /\ BeatTo("rest")
  /\ UNCHANGED <<mtx, m_ScModuleList, beatFrame>>

HeartBeatSend == BeatBegin \/ BeatLock \/ BeatModule \/ BeatUnlock \/ BeatSend

\* The MS confirms a registration or asks for a new one.
HeartBeatRecv ==
  /\ up
  /\ m_registered' = ~m_registered
  /\ UNCHANGED <<readerVars, m_listreq, executed, worker, mtx, m_ScModuleList, life,
                 tasked, up, beat>>

-----------------------------------------------------------------------------
Next ==
  \/ Reader
  \/ Worker
  \/ HeartBeatSend \/ HeartBeatRecv
  \/ \E m \in Modules : Plugin(m) \/ PluginQuits(m)

Spec == Init /\ [][Next]_vars

(***************************************************************************)
(* Threads are scheduled, plugins keep the promises of PluginLife, and the *)
(* mutex comes free for each of the two threads in the end: the heartbeat  *)
(* thread sleeps between two heartbeats, and the Worker when the list of   *)
(* requests is empty.                                                      *)
(***************************************************************************)
FairSpec ==
  /\ Spec
  /\ WF_vars(Reader)
  /\ SF_vars(Worker)
  /\ SF_vars(HeartBeatSend)
  /\ \A m \in Modules : WF_vars(Plugin(m))

-----------------------------------------------------------------------------
(* Properties *)

\* The MS is never left without an answer: when the Reader waits for the next
\* message, the last one has been answered.  A REP socket that owes an answer
\* would not receive another message for good.
Answered == reader.at = "recv" => sock = "recv"

\* The heartbeat asks the plugins of the list for their state; each of them is
\* in memory while it holds the mutex.
ListedAreLoaded ==
  mtx = "beat" =>
    \A k \in DOMAIN m_ScModuleList : life[m_ScModuleList[k].dwModuleID] # "unloaded"

\* START_TASK relies on the manager's copy of a plugin's state: where the copy
\* says "running" and the plugin has work to do, the plugin runs, except while
\* the Worker is in the middle of a start or a stop and keeps the mutex, and except
\* for a plugin that has stopped by itself since the manager asked it last: nobody
\* tells the manager.
CopyNotAhead ==
  mtx # "worker" => \A k \in DOMAIN m_ScModuleList :
    LET e == m_ScModuleList[k] IN
    e.bIsRunning /\ tasked[e.dwModuleID] =>
      IsRunning(e.dwModuleID) \/ (e.quit /\ e.dwModuleID \in SelfStopping)

\* The manager asks of a plugin only what it allows in its state: policies for
\* a stopped plugin, a start of a stopped one, a stop of a running one, and its
\* memory is freed only once it has stopped.
LifeOf(m) == INSTANCE PluginLife WITH
  SelfStopping <- m \in SelfStopping, life <- life[m], tasked <- tasked[m]
LivesRespected == [][\A m \in Modules : [LifeOf(m)!Next]_<<life[m], tasked[m]>>]_vars

\* Every request is executed once, and in the order in which the Reader took it.
Waiting == IF worker.at = "look" \/ ~up THEN m_listreq ELSE Tail(m_listreq)

RequestQueue == INSTANCE BoundedQueue WITH
  Items <- Requests, queue <- Waiting, out <- executed,
  capacity <- MaxRequests, Lossy <- FALSE

RequestsInOrder == RequestQueue!Spec

\* Every accepted request is executed in the end.
RequestsServed ==
  \A n \in 1 .. MaxRequests :
    (Len(executed) + Len(Waiting) >= n)
      ~> (Len(executed) >= n /\ Len(Waiting) < n /\ worker.at = "look")

\* Whatever the Worker does with the mutex, the heartbeats go on.
HeartbeatGoesOn == []<>(beat.at = "send")
-----------------------------------------------------------------------------
(* Why the safety properties hold: the inductive invariant *)

LoadAt == {"load", "created", "autostart", "discard", "add"}
UnloadAt == {"next", "unloading", "free"}

\* The Reader owes an answer nowhere but between receipt and reply.
ReaderOwes == reader.at \in {"recv", "push"} => sock = "recv"

\* The mutex is where its holder says it is.
MutexHeld ==
  /\ worker.at \in UnloadAt \union {"starting", "stopping"} => mtx = "worker"
  /\ beat.at = "scan" => mtx = "beat"

\* Outside Unload the list names modules in memory, and each of them once; a load
\* adds only modules that it has not gone through.
ListSound ==
  LET id(k) == m_ScModuleList[k].dwModuleID IN
  /\ worker.at \notin UnloadAt =>
       \A k \in DOMAIN m_ScModuleList : life[id(k)] # "unloaded"
  /\ \A j, k \in DOMAIN m_ScModuleList : id(j) = id(k) => j = k
  /\ worker.at \in LoadAt =>
       \A k \in DOMAIN m_ScModuleList : id(k) \notin worker.todo
  /\ worker.at \in LoadAt \ {"load"} =>
       worker.m \in worker.todo /\ life[worker.m] # "unloaded"

\* The request being executed stays at the front of m_listreq, and no more
\* requests wait than messages have been received.
QueueSound ==
  /\ up /\ worker.at # "look" => m_listreq # <<>>
  /\ ~up => m_listreq = <<>> /\ reader.at = "recv" /\ worker.at \in LoadAt
  /\ Len(m_listreq) + (IF reader.at \in {"empty", "reply", "push"} THEN 1 ELSE 0)
       <= received

AgentInv == TypeOK /\ ReaderOwes /\ MutexHeld /\ ListSound /\ QueueSound

\* A plugin is on its way up or down only while the Worker waits for it, what is in
\* memory is listed or about to be, and Unload has freed the list up to its index.
LifeSound ==
  LET id(k) == m_ScModuleList[k].dwModuleID IN
  /\ mtx = "worker" => worker.at \in UnloadAt \union {"starting", "stopping"}
  /\ worker.at \in {"startmodule", "starting", "stopping", "unloading", "free"} =>
       worker.m \in Modules
  /\ worker.at \in {"startmodule", "created", "discard", "free"} =>
       life[worker.m] = "stopped"
  /\ \A m \in Modules :
       /\ life[m] = "starting" => worker.m = m /\ worker.at \in {"starting", "autostart"}
       /\ life[m] = "stopping" => worker.m = m /\ worker.at \in {"stopping", "unloading"}
       /\ life[m] # "unloaded" =>
            Listed(m) \/ (worker.m = m /\ worker.at \in LoadAt \ {"load"})
  /\ worker.at = "unload" => worker.i = 1
  /\ worker.at \in UnloadAt =>
       \A k \in DOMAIN m_ScModuleList : life[id(k)] = "unloaded" <=> k < worker.i
  /\ worker.at \in {"unloading", "free"} =>
       worker.i \in DOMAIN m_ScModuleList /\ id(worker.i) = worker.m

\* The manager's copy says "running" of a plugin with work only if the plugin runs,
\* but for the one that is being stopped and one that has stopped by itself since; a
\* start begins with the copy reset.
CopySound ==
  \A k \in DOMAIN m_ScModuleList :
    LET e == m_ScModuleList[k] IN
    /\ e.quit => e.dwModuleID \in SelfStopping
    /\ e.bIsRunning /\ tasked[e.dwModuleID] =>
         \/ IsRunning(e.dwModuleID) \/ e.quit
         \/ worker.at = "stopping" /\ e.dwModuleID = worker.m
         \/ worker.at \in UnloadAt
    /\ worker.at = "starting" /\ e.dwModuleID = worker.m => ~e.bIsRunning

\* What the agent knows of its plugins, in memory and in the list, is true at every
\* step of loading, starting, stopping and freeing them.
LifeInv == AgentInv /\ LifeSound /\ CopySound
=============================================================================
