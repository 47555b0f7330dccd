--------------------------- MODULE AgentLife_proofs ---------------------------
(***************************************************************************)
(* The manager respects the life of every plugin, and its copy of a        *)
(* plugin's state is never ahead: for any set of plugins, any number of    *)
(* messages, with or without automatic start.                              *)
(***************************************************************************)
EXTENDS Agent_proofs

\* The modules of the list stay what they are.
SameIds ==
  /\ DOMAIN m_ScModuleList' = DOMAIN m_ScModuleList
  /\ \A k \in DOMAIN m_ScModuleList :
       m_ScModuleList'[k].dwModuleID = m_ScModuleList[k].dwModuleID

LEMMA SameListed ==
  ASSUME SameIds, NEW m \in Modules
  PROVE  Listed(m)' <=> Listed(m)
BY DEF SameIds, Listed

\* Recall writes the copies of one module's entries.
LEMMA RecallCopies ==
  ASSUME TypeOK, NEW running \in BOOLEAN, Recall(running)
  PROVE  /\ SameIds
         /\ \A k \in DOMAIN m_ScModuleList :
              /\ m_ScModuleList'[k].bIsRunning =
                   IF m_ScModuleList[k].dwModuleID = worker.m THEN running
                   ELSE m_ScModuleList[k].bIsRunning
              /\ m_ScModuleList'[k].quit =
                   (m_ScModuleList[k].dwModuleID # worker.m /\ m_ScModuleList[k].quit)
<1>1. SameIds
  BY RecallKeeps DEF SameIds
<1>2. \A k \in DOMAIN m_ScModuleList : m_ScModuleList[k] \in Entries
  BY EntryType
<1> QED  BY <1>1, <1>2 DEF Recall, Entries

\* The list is empty, or has a module; a module of the list is one.
LEMMA ListedIsModule ==
  ASSUME TypeOK, NEW k \in DOMAIN m_ScModuleList
  PROVE  /\ m_ScModuleList[k].dwModuleID \in Modules
         /\ Listed(m_ScModuleList[k].dwModuleID)
BY EntryType DEF Listed

\* Where the Worker is about one module, worker.m is that module.
LEMMA WorkerModule ==
  ASSUME LifeInv
  PROVE  worker.at \in {"startmodule", "starting", "stopping", "unloading", "free",
                        "created", "autostart", "discard", "add"}
           => worker.m \in Modules
BY DEF LifeInv, LifeSound, AgentInv, TypeOK, ListSound, LoadAt

LEMMA LifeInitInv == Init => LifeInv
<1> SUFFICES ASSUME Init PROVE LifeInv
  OBVIOUS
<1>1. AgentInv
  BY InitInv
<1>2. DOMAIN m_ScModuleList = {}
  BY EmptySeq DEF Init
<1>3. LifeSound
  BY <1>2 DEF Init, LifeSound, WorkerIdle, UnloadAt, LoadAt
<1>4. CopySound
  BY <1>2 DEF Init, CopySound
<1> QED  BY <1>1, <1>3, <1>4 DEF LifeInv

\* Neither the Reader nor the heartbeat's ends touch what the invariant is about.
LEMMA ReaderLife ==
  ASSUME LifeInv, Reader \/ BeatBegin \/ BeatSend \/ HeartBeatRecv
  PROVE  LifeSound' /\ CopySound'
<1>1. UNCHANGED <<worker, mtx, m_ScModuleList, life, tasked>>
  BY DEF Reader, ReaderRecv, ReaderRefuse, ReaderEmpty, ReaderReply, ReaderPush,
     readerFrame, BeatBegin, BeatSend, HeartBeatRecv, beatFrame
<1> QED  BY <1>1 DEF LifeInv, LifeSound, CopySound, Listed, IsRunning

\* The heartbeat writes true copies while no stop is under way.
LEMMA BeatLife ==
  ASSUME LifeInv, BeatLock \/ BeatModule \/ BeatUnlock
  PROVE  LifeSound' /\ CopySound'
<1> USE DEF beatFrame
<1>1. CASE BeatLock \/ BeatUnlock
  <2>1. UNCHANGED <<worker, m_ScModuleList, life, tasked>> /\ mtx' # "worker"
    BY <1>1 DEF BeatLock, BeatUnlock
  <2> QED  BY <2>1 DEF LifeInv, LifeSound, CopySound, Listed, IsRunning
<1>2. CASE BeatModule
  <2>1. beat.i \in DOMAIN m_ScModuleList
    BY <1>2, LenProperties DEF BeatModule, LifeInv, AgentInv, TypeOK
  <2>2. \A k \in DOMAIN m_ScModuleList : m_ScModuleList[k] \in Entries
    BY EntryType DEF LifeInv, AgentInv
  <2>3. /\ SameIds
        /\ \A k \in DOMAIN m_ScModuleList :
             /\ m_ScModuleList'[k].bIsRunning =
                  IF k = beat.i THEN IsRunning(m_ScModuleList[k].dwModuleID)
                  ELSE m_ScModuleList[k].bIsRunning
             /\ m_ScModuleList'[k].quit = (k # beat.i /\ m_ScModuleList[k].quit)
    BY <1>2, <2>1, <2>2 DEF BeatModule, SameIds, Entries
  <2>4. UNCHANGED <<worker, mtx, life, tasked>>
    BY <1>2 DEF BeatModule
  <2>5. mtx # "worker" /\ worker.at \notin UnloadAt \union {"starting", "stopping"}
    BY <1>2 DEF BeatModule, LifeInv, AgentInv, MutexHeld
  <2>6. LifeSound'
    BY <2>3, <2>4, <2>5, SameListed DEF LifeInv, LifeSound, SameIds
  <2>7. CopySound'
    BY <2>3, <2>4, <2>5 DEF LifeInv, CopySound, SameIds, IsRunning
  <2> QED  BY <2>6, <2>7
<1> QED  BY <1>1, <1>2

\* A plugin goes down by itself only without work or when it was told to.
LEMMA PluginLives ==
  ASSUME LifeInv, NEW m \in Modules, Plugin(m)
  PROVE  LifeSound' /\ CopySound'
<1>1. /\ life \in [Modules -> LifeStates]
      /\ life' = [life EXCEPT ![m] = life'[m]]
      /\ \/ life[m] = "starting" /\ life'[m] = "running"
         \/ life[m] = "stopping" /\ life'[m] = "stopped"
         \/ life[m] = "running" /\ ~tasked[m] /\ life'[m] = "stopped"
      /\ UNCHANGED <<worker, mtx, m_ScModuleList, tasked>>
  BY DEF Plugin, PluginUp, PluginDown, SetLife, pluginFrame, LifeInv, AgentInv, TypeOK
<1>2. \A k \in DOMAIN m_ScModuleList : m_ScModuleList[k].dwModuleID \in Modules
  BY EntryType DEF LifeInv, AgentInv
<1>3. \A n \in Modules : n # m => life'[n] = life[n]
  BY <1>1
<1>4. /\ life[m] # "stopped" /\ life[m] # "unloaded" /\ life'[m] # "unloaded"
      /\ life'[m] \notin {"starting", "stopping"}
  BY <1>1
<1>5. LifeSound'
  BY <1>1, <1>2, <1>3, <1>4, WorkerModule
     DEF LifeInv, LifeSound, Listed, LoadAt, UnloadAt
<1>6. CopySound'
  <2>1. CASE life[m] = "starting" \/ ~tasked[m]
    BY <1>1, <1>2, <1>3, <2>1 DEF LifeInv, CopySound, IsRunning
  <2>2. CASE life[m] = "stopping"
    <3>1. worker.m = m /\ worker.at \in {"stopping", "unloading"}
      BY <2>2 DEF LifeInv, LifeSound
    <3> QED  BY <1>1, <1>2, <1>3, <3>1 DEF LifeInv, CopySound, IsRunning, UnloadAt
  <2> QED  BY <1>1, <2>1, <2>2
<1> QED  BY <1>5, <1>6

\* One that stops by itself is about nothing the Worker waits for; its copies say so.
LEMMA PluginQuitsLife ==
  ASSUME LifeInv, NEW m \in Modules, PluginQuits(m)
  PROVE  LifeSound' /\ CopySound'
<1>1. /\ life \in [Modules -> LifeStates] /\ life[m] = "running" /\ m \in SelfStopping
      /\ life' = [life EXCEPT ![m] = "stopped"]
      /\ UNCHANGED <<worker, mtx, tasked>>
  BY DEF PluginQuits, pluginFrame, SetLife, LifeInv, AgentInv, TypeOK
<1>2. SameIds
  BY QuitKeeps DEF SameIds, LifeInv, AgentInv
<1>3. \A k \in DOMAIN m_ScModuleList :
        /\ m_ScModuleList[k].dwModuleID \in Modules
        /\ m_ScModuleList'[k].bIsRunning = m_ScModuleList[k].bIsRunning
        /\ m_ScModuleList'[k].quit =
             (m_ScModuleList[k].dwModuleID = m \/ m_ScModuleList[k].quit)
  <2>1. \A k \in DOMAIN m_ScModuleList : m_ScModuleList[k] \in Entries
    BY EntryType DEF LifeInv, AgentInv
  <2> QED  BY <2>1 DEF PluginQuits, Entries
<1>4. LifeSound'
  BY <1>1, <1>2, <1>3, WorkerModule, SameListed
     DEF LifeInv, LifeSound, SameIds, LoadAt, UnloadAt
<1>5. CopySound'
  BY <1>1, <1>2, <1>3 DEF LifeInv, CopySound, SameIds, IsRunning
<1> QED  BY <1>4, <1>5

\* A request is begun and ended with every plugin at rest.
LEMMA WorkerQueueLife ==
  ASSUME LifeInv, WorkerLook \/ WorkerPop
  PROVE  LifeSound' /\ CopySound'
<1>1. UNCHANGED <<mtx, m_ScModuleList, life, tasked>>
  BY DEF WorkerLook, WorkerPop
<1>2. /\ worker.at \in {"look", "pop"}
      /\ worker'.at \in {"setdata", "stopmodule", "task", "load", "unload", "pop", "look"}
      /\ worker'.i = 1
  <2>1. CASE WorkerLook
    <3>1. Entry(Head(m_listreq).dwType)
             \in {"setdata", "stopmodule", "task", "load", "unload", "pop"}
      BY DEF Entry
    <3> QED  BY <2>1, <3>1 DEF WorkerLook, WorkerIdle
  <2>2. CASE WorkerPop
    BY <2>2 DEF WorkerPop, WorkerIdle
  <2> QED  BY <2>1, <2>2
<1>3. LifeSound'
  BY <1>1, <1>2 DEF LifeInv, LifeSound, Listed, UnloadAt, LoadAt
<1>4. CopySound'
  BY <1>1, <1>2 DEF LifeInv, CopySound, IsRunning, UnloadAt
<1> QED  BY <1>3, <1>4

\* What a listed plugin's life can be outside the waits of the Worker.
LEMMA AtRest ==
  ASSUME LifeInv, NEW m \in Modules, Listed(m), ~IsRunning(m),
         worker.at \in {"setdata", "startmodule"}
  PROVE  life[m] = "stopped"
<1>1. life[m] # "unloaded"
  BY DEF LifeInv, AgentInv, ListSound, Listed, UnloadAt
<1>2. life[m] # "starting" /\ life[m] \in LifeStates
  BY DEF LifeInv, LifeSound, AgentInv, TypeOK
<1> QED  BY <1>1, <1>2 DEF LifeStates, IsRunning

LEMMA SetDataLife ==
  ASSUME LifeInv, SetModuleData
  PROVE  LifeSound' /\ CopySound'
<1> USE DEF workerFrame, WorkerTo
<1>1. /\ worker.at = "setdata" /\ mtx = "free" /\ UNCHANGED <<mtx, life>>
      /\ worker'.m = worker.m /\ worker'.at \in {"startmodule", "pop"}
      /\ worker'.at = "startmodule" => Listed(worker.m) /\ ~IsRunning(worker.m)
  BY DEF SetModuleData, LifeInv, AgentInv, TypeOK
<1>2. /\ SameIds
      /\ \A k \in DOMAIN m_ScModuleList :
           /\ m_ScModuleList'[k].bIsRunning =
                IF m_ScModuleList[k].dwModuleID = worker.m THEN IsRunning(worker.m)
                ELSE m_ScModuleList[k].bIsRunning
           /\ m_ScModuleList'[k].quit =
                (m_ScModuleList[k].dwModuleID # worker.m /\ m_ScModuleList[k].quit)
  <2>1. CASE Listed(worker.m)
    <3>1. TypeOK /\ IsRunning(worker.m) \in BOOLEAN
      BY DEF LifeInv, AgentInv, IsRunning
    <3>2. Recall(IsRunning(worker.m))
      BY <2>1 DEF SetModuleData
    <3> QED  BY <3>1, <3>2, RecallCopies
  <2>2. CASE ~Listed(worker.m)
    <3>1. \A k \in DOMAIN m_ScModuleList : m_ScModuleList[k].quit \in BOOLEAN
      BY EntryType DEF LifeInv, AgentInv, Entries
    <3> QED  BY <2>2, <3>1 DEF SetModuleData, Listed, SameIds
  <2> QED  BY <2>1, <2>2
<1>3. \A m \in Modules : m # worker.m => tasked'[m] = tasked[m]
  BY DEF SetModuleData, LifeInv, AgentInv, TypeOK
<1>4. worker'.at = "startmodule" => worker.m \in Modules /\ life[worker.m] = "stopped"
  BY <1>1, ListedIsModule, AtRest DEF Listed, LifeInv, AgentInv
<1>5. LifeSound'
  BY <1>1, <1>2, <1>4, SameListed DEF LifeInv, LifeSound, SameIds, UnloadAt, LoadAt
<1>6. CopySound'
  <2>1. \A k \in DOMAIN m_ScModuleList : m_ScModuleList[k].dwModuleID \in Modules
    BY ListedIsModule DEF LifeInv, AgentInv
  <2>2. \A m : IsRunning(m)' <=> IsRunning(m)
    BY <1>1 DEF IsRunning
  <2>3. worker.at \notin UnloadAt \union {"starting", "stopping"}
        /\ worker'.at \notin UnloadAt \union {"starting", "stopping"}
    BY <1>1 DEF UnloadAt
  <2>4. ASSUME NEW k \in DOMAIN m_ScModuleList,
               m_ScModuleList'[k].bIsRunning,
               tasked'[m_ScModuleList[k].dwModuleID]
        PROVE  IsRunning(m_ScModuleList[k].dwModuleID) \/ m_ScModuleList'[k].quit
    BY <1>2, <1>3, <2>1, <2>3, <2>4 DEF LifeInv, CopySound
  <2>5. \A k \in DOMAIN m_ScModuleList :
          m_ScModuleList'[k].quit => m_ScModuleList[k].dwModuleID \in SelfStopping
    BY <1>2 DEF LifeInv, CopySound
  <2> QED  BY <1>2, <2>2, <2>3, <2>4, <2>5 DEF CopySound, SameIds
<1> QED  BY <1>5, <1>6

LEMMA StartLife ==
  ASSUME LifeInv, StartModule \/ StartReturns \/ StartFails
  PROVE  LifeSound' /\ CopySound'
<1> USE DEF workerFrame, WorkerTo, SetLife
<1>0. \A m : IsRunning(m) \in BOOLEAN
  BY DEF IsRunning
<1>t. TypeOK /\ worker.m \in Modules /\ life \in [Modules -> LifeStates]
  BY WorkerModule DEF StartModule, StartReturns, StartFails, LifeInv, AgentInv, TypeOK
<1>1. CASE StartModule
  <2>1. /\ worker.at = "startmodule" /\ mtx = "free" /\ life[worker.m] = "stopped"
        /\ ~IsRunning(worker.m)
    BY <1>1 DEF StartModule, LifeInv, LifeSound, IsRunning
  <2>2. /\ mtx' = "worker" /\ life' = [life EXCEPT ![worker.m] = "starting"]
        /\ worker'.at = "starting" /\ worker'.m = worker.m /\ tasked' = tasked
    BY <1>1, <2>1, <1>t DEF StartModule, TypeOK
  <2>3. /\ SameIds
        /\ \A k \in DOMAIN m_ScModuleList :
             /\ m_ScModuleList'[k].bIsRunning =
                  IF m_ScModuleList[k].dwModuleID = worker.m THEN FALSE
                  ELSE m_ScModuleList[k].bIsRunning
             /\ m_ScModuleList'[k].quit =
                  (m_ScModuleList[k].dwModuleID # worker.m /\ m_ScModuleList[k].quit)
    BY <1>0, <1>1, <1>t, <2>1, RecallCopies DEF StartModule
  <2>4. LifeSound'
    BY <1>t, <2>1, <2>2, <2>3, SameListed
       DEF LifeInv, LifeSound, SameIds, UnloadAt, LoadAt
  <2>5. CopySound'
    BY <1>t, <2>1, <2>2, <2>3, ListedIsModule
       DEF LifeInv, CopySound, SameIds, IsRunning, UnloadAt
  <2> QED  BY <2>4, <2>5
<1>2. CASE StartReturns
  <2>1. /\ worker.at = "starting" /\ life[worker.m] # "starting" /\ mtx' = "free"
        /\ worker'.at = "pop" /\ worker'.m = worker.m /\ UNCHANGED <<life, tasked>>
    BY <1>2, <1>t DEF StartReturns, TypeOK
  <2>2. /\ SameIds
        /\ \A k \in DOMAIN m_ScModuleList :
             /\ m_ScModuleList'[k].bIsRunning =
                  IF m_ScModuleList[k].dwModuleID = worker.m THEN IsRunning(worker.m)
                  ELSE m_ScModuleList[k].bIsRunning
             /\ m_ScModuleList'[k].quit =
                  (m_ScModuleList[k].dwModuleID # worker.m /\ m_ScModuleList[k].quit)
    BY <1>0, <1>2, <1>t, RecallCopies DEF StartReturns
  <2>3. LifeSound'
    BY <2>1, <2>2, SameListed DEF LifeInv, LifeSound, SameIds, UnloadAt, LoadAt
  <2>4. CopySound'
    BY <1>t, <2>1, <2>2 DEF LifeInv, CopySound, SameIds, IsRunning, UnloadAt
  <2> QED  BY <2>3, <2>4
<1>3. CASE StartFails
  <2>1. /\ worker.at = "starting" /\ life[worker.m] = "starting" /\ mtx' = "free"
        /\ worker'.at = "pop" /\ worker'.m = worker.m
        /\ life' = [life EXCEPT ![worker.m] = "stopped"]
        /\ UNCHANGED <<m_ScModuleList, tasked>>
    BY <1>3, <1>t DEF StartFails, TypeOK
  <2>2. LifeSound'
    BY <1>t, <2>1 DEF LifeInv, LifeSound, Listed, UnloadAt, LoadAt
  <2>3. CopySound'
    BY <1>t, <2>1, ListedIsModule DEF LifeInv, CopySound, IsRunning, UnloadAt
  <2> QED  BY <2>2, <2>3
<1> QED  BY <1>1, <1>2, <1>3

LEMMA StopLife ==
  ASSUME LifeInv, StopModule \/ StopReturns \/ StartModuleTask
  PROVE  LifeSound' /\ CopySound'
<1> USE DEF workerFrame, WorkerTo, SetLife
<1>0. \A m : IsRunning(m) \in BOOLEAN
  BY DEF IsRunning
<1>t. TypeOK /\ life \in [Modules -> LifeStates]
  BY DEF LifeInv, AgentInv, TypeOK
<1>1. CASE StopModule
  <2>1. /\ worker.at = "stopmodule" /\ mtx = "free" /\ worker'.m = worker.m
        /\ tasked' = tasked
    BY <1>1, <1>t DEF StopModule, TypeOK
  <2>2. /\ SameIds
        /\ \A k \in DOMAIN m_ScModuleList :
             /\ m_ScModuleList'[k].bIsRunning =
                  IF m_ScModuleList[k].dwModuleID = worker.m THEN IsRunning(worker.m)
                  ELSE m_ScModuleList[k].bIsRunning
             /\ m_ScModuleList'[k].quit =
                  (m_ScModuleList[k].dwModuleID # worker.m /\ m_ScModuleList[k].quit)
    <3>1. CASE Listed(worker.m)
      BY <1>0, <1>1, <1>t, <3>1, RecallCopies DEF StopModule
    <3>2. CASE ~Listed(worker.m)
      <4>1. \A k \in DOMAIN m_ScModuleList : m_ScModuleList[k].quit \in BOOLEAN
        BY <1>t, EntryType DEF Entries
      <4> QED  BY <1>1, <3>2, <4>1 DEF StopModule, Listed, SameIds
    <3> QED  BY <3>1, <3>2
  <2>3. CASE Listed(worker.m) /\ IsRunning(worker.m)
    <3>1. /\ mtx' = "worker" /\ worker'.at = "stopping" /\ worker.m \in Modules
          /\ life' = [life EXCEPT ![worker.m] = "stopping"]
      BY <1>1, <1>t, <2>3, ListedIsModule DEF StopModule, TypeOK, Listed
    <3>2. LifeSound'
      BY <1>t, <2>1, <2>2, <2>3, <3>1, SameListed
         DEF LifeInv, LifeSound, SameIds, UnloadAt, LoadAt
    <3>3. CopySound'
      BY <1>t, <2>1, <2>2, <3>1, ListedIsModule
         DEF LifeInv, CopySound, SameIds, IsRunning, UnloadAt
    <3> QED  BY <3>2, <3>3
  <2>4. CASE ~(Listed(worker.m) /\ IsRunning(worker.m))
    <3>1. UNCHANGED <<mtx, life>> /\ worker'.at = "pop"
      BY <1>1, <1>t, <2>4 DEF StopModule, TypeOK
    <3>2. LifeSound'
      BY <2>1, <2>2, <3>1, SameListed
         DEF LifeInv, LifeSound, SameIds, UnloadAt, LoadAt
    <3>3. CopySound'
      BY <2>1, <2>2, <3>1 DEF LifeInv, CopySound, SameIds, IsRunning, UnloadAt
    <3> QED  BY <3>2, <3>3
  <2> QED  BY <2>3, <2>4
<1>2. CASE StopReturns
  <2>1. /\ worker.at = "stopping" /\ life[worker.m] = "stopped" /\ mtx' = "free"
        /\ worker'.at = "pop" /\ worker'.m = worker.m /\ UNCHANGED <<life, tasked>>
    BY <1>2, <1>t DEF StopReturns, TypeOK
  <2>2. /\ SameIds
        /\ \A k \in DOMAIN m_ScModuleList :
             /\ m_ScModuleList'[k].bIsRunning =
                  IF m_ScModuleList[k].dwModuleID = worker.m THEN FALSE
                  ELSE m_ScModuleList[k].bIsRunning
             /\ m_ScModuleList'[k].quit =
                  (m_ScModuleList[k].dwModuleID # worker.m /\ m_ScModuleList[k].quit)
    BY <1>2, <1>t, RecallCopies DEF StopReturns
  <2>3. LifeSound'
    BY <2>1, <2>2, SameListed DEF LifeInv, LifeSound, SameIds, UnloadAt, LoadAt
  <2>4. CopySound'
    BY <2>1, <2>2 DEF LifeInv, CopySound, SameIds, IsRunning, UnloadAt
  <2> QED  BY <2>3, <2>4
<1>3. CASE StartModuleTask
  <2>1. /\ worker.at = "task" /\ worker'.at = "pop"
        /\ UNCHANGED <<mtx, m_ScModuleList, life, tasked>>
    BY <1>3, <1>t DEF StartModuleTask, TypeOK
  <2>2. LifeSound'
    BY <2>1 DEF LifeInv, LifeSound, Listed, UnloadAt, LoadAt
  <2>3. CopySound'
    BY <2>1 DEF LifeInv, CopySound, IsRunning, UnloadAt
  <2> QED  BY <2>2, <2>3
<1> QED  BY <1>1, <1>2, <1>3

\* A module the load has not gone through is not in memory and not listed.
LEMMA TodoUnloaded ==
  ASSUME LifeInv, worker.at \in LoadAt, NEW m \in worker.todo,
         worker.at # "load" => m # worker.m
  PROVE  m \in Modules /\ life[m] = "unloaded" /\ ~Listed(m)
<1>1. m \in Modules
  BY DEF LifeInv, AgentInv, TypeOK
<1>2. ~Listed(m)
  BY DEF LifeInv, AgentInv, ListSound, Listed
<1> QED  BY <1>1, <1>2 DEF LifeInv, LifeSound

\* In a load nothing but the one module that is being loaded moves.
LEMMA WorkerLoadLife ==
  ASSUME LifeInv,
         \/ LoadModule \/ LoadEnds \/ AutoStart \/ AutoStarted \/ Discard
         \/ AddScModule
  PROVE  LifeSound' /\ CopySound'
<1> USE DEF workerFrame, WorkerTo, SetLife
<1>t. /\ TypeOK /\ life \in [Modules -> LifeStates] /\ tasked \in [Modules -> BOOLEAN]
      /\ worker \in [at : WorkerAt, m : Ids, todo : SUBSET Modules, i : Nat \ {0}]
      /\ \A k \in DOMAIN m_ScModuleList : m_ScModuleList[k].dwModuleID \in Modules
  BY ListedIsModule DEF LifeInv, AgentInv, TypeOK
<1>m. /\ worker.at \in LoadAt \ {"load"} =>
           worker.m \in Modules /\ ~Listed(worker.m) /\ worker.m \in worker.todo
      /\ worker.at \in LoadAt => mtx # "worker"
  BY WorkerModule DEF LifeInv, AgentInv, ListSound, LifeSound, Listed, LoadAt, UnloadAt
<1>1. CASE LoadModule
  <2>1. PICK m \in worker.todo :
          \/ /\ life' = [life EXCEPT ![m] = "stopped"]
             /\ tasked' = [tasked EXCEPT ![m] = FALSE]
             /\ worker' = [worker EXCEPT !.at = "created", !.m = m]
          \/ /\ worker' = [worker EXCEPT !.todo = @ \ {m}]
             /\ UNCHANGED <<life, tasked>>
    BY <1>1 DEF LoadModule
  <2>2. worker.at = "load" /\ UNCHANGED <<mtx, m_ScModuleList>>
    BY <1>1 DEF LoadModule
  <2>3. m \in Modules /\ life[m] = "unloaded" /\ ~Listed(m)
    BY <2>2, TodoUnloaded DEF LoadAt
  <2>4. CASE worker' = [worker EXCEPT !.at = "created", !.m = m]
    <3>1. /\ worker'.at = "created" /\ worker'.m = m
          /\ life' = [life EXCEPT ![m] = "stopped"]
          /\ tasked' = [tasked EXCEPT ![m] = FALSE]
      BY <1>t, <2>1, <2>2, <2>4
    <3>2. LifeSound'
      BY <1>t, <2>2, <2>3, <3>1 DEF LifeInv, LifeSound, Listed, UnloadAt, LoadAt
    <3>3. CopySound'
      BY <1>t, <2>2, <2>3, <3>1 DEF LifeInv, CopySound, IsRunning, Listed, UnloadAt
    <3> QED  BY <3>2, <3>3
  <2>5. CASE worker' = [worker EXCEPT !.todo = @ \ {m}] /\ UNCHANGED <<life, tasked>>
    <3>1. worker'.at = "load" /\ worker'.m = worker.m /\ worker'.i = worker.i
      BY <1>t, <2>2, <2>5
    <3>2. LifeSound'
      BY <2>2, <2>5, <3>1 DEF LifeInv, LifeSound, Listed, UnloadAt, LoadAt
    <3>3. CopySound'
      BY <2>2, <2>5, <3>1 DEF LifeInv, CopySound, IsRunning, UnloadAt
    <3> QED  BY <3>2, <3>3
  <2> QED  BY <2>1, <2>4, <2>5
<1>2. CASE LoadEnds
  <2>1. /\ worker.at = "load" /\ worker'.at \in {"pop", "look"} /\ worker'.m = worker.m
        /\ UNCHANGED <<mtx, m_ScModuleList, life, tasked>>
    BY <1>2, <1>t DEF LoadEnds
  <2>2. LifeSound'
    BY <2>1 DEF LifeInv, LifeSound, Listed, UnloadAt, LoadAt
  <2>3. CopySound'
    BY <2>1 DEF LifeInv, CopySound, IsRunning, UnloadAt
  <2> QED  BY <2>2, <2>3
<1>3. CASE AutoStart
  <2>1. /\ worker.at = "created" /\ worker'.m = worker.m
        /\ \/ worker'.at = "add" /\ UNCHANGED life
           \/ worker'.at = "autostart" /\ life' = [life EXCEPT ![worker.m] = "starting"]
        /\ UNCHANGED <<mtx, m_ScModuleList, tasked>>
    BY <1>3, <1>t DEF AutoStart
  <2>2. LifeSound'
    BY <1>t, <1>m, <2>1 DEF LifeInv, LifeSound, Listed, UnloadAt, LoadAt
  <2>3. CopySound'
    BY <1>t, <1>m, <2>1 DEF LifeInv, CopySound, IsRunning, Listed, UnloadAt, LoadAt
  <2> QED  BY <2>2, <2>3
<1>4. CASE AutoStarted
  <2>1. /\ worker.at = "autostart" /\ worker'.m = worker.m
        /\ \/ worker'.at = "add" /\ UNCHANGED life /\ life[worker.m] # "starting"
           \/ worker'.at = "discard" /\ life' = [life EXCEPT ![worker.m] = "stopped"]
        /\ UNCHANGED <<mtx, m_ScModuleList, tasked>>
    BY <1>4, <1>t DEF AutoStarted
  <2>2. LifeSound'
    BY <1>t, <1>m, <2>1 DEF LifeInv, LifeSound, Listed, UnloadAt, LoadAt
  <2>3. CopySound'
    BY <1>t, <1>m, <2>1 DEF LifeInv, CopySound, IsRunning, Listed, UnloadAt, LoadAt
  <2> QED  BY <2>2, <2>3
<1>5. CASE Discard
  <2>1. /\ worker.at = "discard" /\ worker'.at = "load" /\ worker'.m = worker.m
        /\ life' = [life EXCEPT ![worker.m] = "unloaded"]
        /\ tasked' = [tasked EXCEPT ![worker.m] = FALSE]
        /\ UNCHANGED <<mtx, m_ScModuleList>>
    BY <1>5, <1>t DEF Discard
  <2>2. LifeSound'
    BY <1>t, <1>m, <2>1 DEF LifeInv, LifeSound, Listed, UnloadAt, LoadAt
  <2>3. CopySound'
    BY <1>t, <1>m, <2>1 DEF LifeInv, CopySound, IsRunning, Listed, UnloadAt, LoadAt
  <2> QED  BY <2>2, <2>3
<1>6. CASE AddScModule
  <2> DEFINE n == Len(m_ScModuleList)
             new == [dwModuleID |-> worker.m, bIsRunning |-> IsRunning(worker.m),
                     quit |-> FALSE]
  <2>1. /\ worker.at = "add" /\ worker'.at = "load" /\ worker'.m = worker.m
        /\ UNCHANGED <<mtx, life, tasked>> /\ m_ScModuleList' = Append(m_ScModuleList, new)
    BY <1>6, <1>t DEF AddScModule
  <2>2. m_ScModuleList \in Seq(Entries) /\ n \in Nat /\ DOMAIN m_ScModuleList = 1 .. n
    BY LenProperties DEF LifeInv, AgentInv, TypeOK
  <2>3. new \in Entries
    BY <1>m, <2>1 DEF Entries, IsRunning, LoadAt
  <2>4. /\ DOMAIN m_ScModuleList' = 1 .. n + 1
        /\ m_ScModuleList'[n + 1] = new
        /\ \A k \in 1 .. n : m_ScModuleList'[k] = m_ScModuleList[k]
    BY <2>1, <2>2, <2>3, AppendProperties
  <2>5. \A m \in Modules : Listed(m) \/ m = worker.m => Listed(m)'
    <3>1. \A k \in 1 .. n : k \in 1 .. n + 1
      BY <2>2
    <3>2. n + 1 \in 1 .. n + 1
      BY <2>2
    <3> HIDE DEF n
    <3> QED  BY <2>2, <2>4, <3>1, <3>2 DEF Listed
  <2>6. LifeSound'
    BY <2>1, <2>5 DEF LifeInv, LifeSound, UnloadAt, LoadAt
  <2>7. CopySound'
    <3>1. \A k \in 1 .. n + 1 : k = n + 1 \/ k \in 1 .. n
      BY <2>2
    <3>2. /\ m_ScModuleList'[n + 1].dwModuleID = worker.m
          /\ m_ScModuleList'[n + 1].bIsRunning = IsRunning(worker.m)
          /\ ~m_ScModuleList'[n + 1].quit
      BY <2>4
    <3>3. worker.at \notin UnloadAt /\ worker.at # "stopping" /\ worker'.at # "starting"
      BY <2>1 DEF UnloadAt
    <3>4. \A k \in 1 .. n :
            LET e == m_ScModuleList'[k] IN
            /\ e.quit => e.dwModuleID \in SelfStopping
            /\ e.bIsRunning /\ tasked[e.dwModuleID] =>
                 IsRunning(e.dwModuleID) \/ e.quit
      BY <2>2, <2>4, <3>3 DEF LifeInv, CopySound
    <3>5. \A k \in DOMAIN m_ScModuleList' :
            LET e == m_ScModuleList'[k] IN
            /\ e.quit => e.dwModuleID \in SelfStopping
            /\ e.bIsRunning /\ tasked[e.dwModuleID] =>
                 IsRunning(e.dwModuleID) \/ e.quit
      <4> HIDE DEF n, new
      <4> QED  BY <2>4, <3>1, <3>2, <3>4
    <3> QED  BY <2>1, <3>3, <3>5 DEF CopySound, IsRunning
  <2> QED  BY <2>6, <2>7
<1> QED  BY <1>1, <1>2, <1>3, <1>4, <1>5, <1>6

\* Unload frees one stopped module after the other.
LEMMA WorkerUnloadLife ==
  ASSUME LifeInv,
         \/ Unload \/ UnLoadScModule \/ UnloadStopped \/ FreeScModule \/ UnloadEnds
  PROVE  LifeSound' /\ CopySound'
<1> USE DEF workerFrame, WorkerTo, SetLife
<1>t. /\ TypeOK /\ life \in [Modules -> LifeStates]
      /\ worker \in [at : WorkerAt, m : Ids, todo : SUBSET Modules, i : Nat \ {0}]
      /\ \A k \in DOMAIN m_ScModuleList :
           m_ScModuleList[k].dwModuleID \in Modules /\ Listed(m_ScModuleList[k].dwModuleID)
      /\ DOMAIN m_ScModuleList = 1 .. Len(m_ScModuleList) /\ Len(m_ScModuleList) \in Nat
      /\ \A j, k \in DOMAIN m_ScModuleList :
           m_ScModuleList[j].dwModuleID = m_ScModuleList[k].dwModuleID => j = k
  BY ListedIsModule, LenProperties DEF LifeInv, AgentInv, TypeOK, ListSound
<1>1. CASE Unload
  <2>1. /\ worker.at = "unload" /\ worker'.at = "next" /\ worker'.m = worker.m
        /\ worker'.i = worker.i /\ mtx' = "worker"
        /\ UNCHANGED <<m_ScModuleList, life, tasked>>
    BY <1>1, <1>t DEF Unload
  <2>2. worker.i = 1
    BY <2>1 DEF LifeInv, LifeSound
  <2>3. \A k \in DOMAIN m_ScModuleList :
          life[m_ScModuleList[k].dwModuleID] # "unloaded" /\ ~ k < worker.i
    BY <1>t, <2>1, <2>2 DEF LifeInv, AgentInv, ListSound, UnloadAt
  <2>4. LifeSound'
    BY <2>1, <2>3 DEF LifeInv, LifeSound, Listed, UnloadAt, LoadAt
  <2>5. CopySound'
    BY <2>1 DEF LifeInv, CopySound, IsRunning, UnloadAt
  <2> QED  BY <2>4, <2>5
<1>2. CASE UnLoadScModule
  <2> DEFINE m == m_ScModuleList[worker.i].dwModuleID
  <2>1. /\ worker.at = "next" /\ worker.i <= Len(m_ScModuleList)
        /\ worker'.m = m /\ worker'.i = worker.i
        /\ worker'.at = IF IsRunning(m) THEN "unloading" ELSE "free"
        /\ life' = IF IsRunning(m) THEN [life EXCEPT ![m] = "stopping"] ELSE life
        /\ UNCHANGED <<mtx, m_ScModuleList, tasked>>
    BY <1>2, <1>t DEF UnLoadScModule
  <2>2. worker.i \in DOMAIN m_ScModuleList /\ m \in Modules /\ Listed(m)
    BY <1>t, <2>1
  <2>3. life[m] # "unloaded" /\ life[m] \in LifeStates
    BY <1>t, <2>1, <2>2 DEF LifeInv, LifeSound, UnloadAt
  <2>4. \A n \in Modules : life[n] \notin {"starting", "stopping"}
    BY <2>1 DEF LifeInv, LifeSound
  <2> HIDE DEF m
  <2>5. CASE IsRunning(m)
    <3>1. worker'.at = "unloading" /\ life' = [life EXCEPT ![m] = "stopping"]
      BY <2>1, <2>5
    <3>2. LifeSound'
      BY <1>t, <2>1, <2>2, <2>3, <2>4, <3>1
         DEF LifeInv, LifeSound, Listed, UnloadAt, LoadAt, m
    <3>3. CopySound'
      BY <2>1, <3>1 DEF LifeInv, CopySound, UnloadAt
    <3> QED  BY <3>2, <3>3
  <2>6. CASE ~IsRunning(m)
    <3>1. worker'.at = "free" /\ life' = life /\ life[m] = "stopped"
      BY <2>1, <2>2, <2>3, <2>4, <2>6 DEF LifeStates, IsRunning
    <3>2. LifeSound'
      BY <1>t, <2>1, <2>2, <2>3, <2>4, <3>1
         DEF LifeInv, LifeSound, Listed, UnloadAt, LoadAt, m
    <3>3. CopySound'
      BY <2>1, <3>1 DEF LifeInv, CopySound, UnloadAt
    <3> QED  BY <3>2, <3>3
  <2> QED  BY <2>5, <2>6
<1>3. CASE UnloadStopped
  <2>1. /\ worker.at = "unloading" /\ life[worker.m] = "stopped" /\ worker'.at = "free"
        /\ worker'.m = worker.m /\ worker'.i = worker.i
        /\ UNCHANGED <<mtx, m_ScModuleList, life, tasked>>
    BY <1>3, <1>t DEF UnloadStopped
  <2>2. LifeSound'
    BY <2>1 DEF LifeInv, LifeSound, Listed, UnloadAt, LoadAt
  <2>3. CopySound'
    BY <2>1 DEF LifeInv, CopySound, UnloadAt
  <2> QED  BY <2>2, <2>3
<1>4. CASE FreeScModule
  <2>1. /\ worker.at = "free" /\ worker'.at = "next" /\ worker'.m = worker.m
        /\ worker'.i = worker.i + 1 /\ worker.i \in Nat
        /\ life' = [life EXCEPT ![worker.m] = "unloaded"]
        /\ UNCHANGED <<mtx, m_ScModuleList>>
    BY <1>4, <1>t DEF FreeScModule
  <2>2. /\ worker.i \in DOMAIN m_ScModuleList /\ worker.m \in Modules
        /\ m_ScModuleList[worker.i].dwModuleID = worker.m
    BY <2>1 DEF LifeInv, LifeSound
  <2>3. \A k \in DOMAIN m_ScModuleList :
          life'[m_ScModuleList[k].dwModuleID] = "unloaded" <=> k < worker'.i
    <3> SUFFICES ASSUME NEW k \in DOMAIN m_ScModuleList
                 PROVE  life'[m_ScModuleList[k].dwModuleID] = "unloaded" <=> k < worker'.i
      OBVIOUS
    <3>1. CASE k = worker.i
      BY <1>t, <2>1, <2>2, <3>1
    <3>2. CASE k # worker.i
      <4>1. m_ScModuleList[k].dwModuleID # worker.m
        BY <1>t, <2>2, <3>2
      <4>2. life[m_ScModuleList[k].dwModuleID] = "unloaded" <=> k < worker.i
        BY <2>1 DEF LifeInv, LifeSound, UnloadAt
      <4>3. k \in Nat
        BY <1>t
      <4> QED  BY <1>t, <2>1, <3>2, <4>1, <4>2, <4>3
    <3> QED  BY <3>1, <3>2
  <2>4. LifeSound'
    BY <1>t, <2>1, <2>2, <2>3 DEF LifeInv, LifeSound, Listed, UnloadAt, LoadAt
  <2>5. CopySound'
    BY <2>1 DEF LifeInv, CopySound, UnloadAt
  <2> QED  BY <2>4, <2>5
<1>5. CASE UnloadEnds
  <2>1. /\ worker.at = "next" /\ worker.i > Len(m_ScModuleList) /\ m_ScModuleList' = <<>>
        /\ mtx' = "free" /\ worker'.at = "pop" /\ life' = life
    BY <1>5, <1>t DEF UnloadEnds
  <2>2. DOMAIN m_ScModuleList' = {}
    BY <2>1
  <2>3. \A m \in Modules : life[m] = "unloaded"
    <3>1. \A k \in DOMAIN m_ScModuleList : k < worker.i
      BY <1>t, <2>1
    <3>2. \A k \in DOMAIN m_ScModuleList : life[m_ScModuleList[k].dwModuleID] = "unloaded"
      BY <2>1, <3>1 DEF LifeInv, LifeSound, UnloadAt
    <3>3. \A m \in Modules : life[m] # "unloaded" => Listed(m)
      BY <2>1 DEF LifeInv, LifeSound, LoadAt
    <3> QED  BY <3>2, <3>3 DEF Listed
  <2>4. LifeSound'
    BY <2>1, <2>2, <2>3 DEF LifeSound, UnloadAt, LoadAt
  <2>5. CopySound'
    BY <2>2 DEF CopySound
  <2> QED  BY <2>4, <2>5
<1> QED  BY <1>1, <1>2, <1>3, <1>4, <1>5

LEMMA NextLife ==
  ASSUME LifeInv, [Next]_vars
  PROVE  LifeInv'
<1>1. AgentInv'
  BY NextInv DEF LifeInv
<1>2. CASE UNCHANGED vars
  BY <1>2 DEF vars, LifeInv, LifeSound, CopySound, Listed, IsRunning, AgentInv, TypeOK,
     ReaderOwes, MutexHeld, ListSound, QueueSound
<1>3. CASE Worker
  BY <1>1, <1>3, WorkerQueueLife, SetDataLife, StartLife, StopLife, WorkerLoadLife,
     WorkerUnloadLife DEF Worker, LifeInv
<1>4. CASE Reader \/ HeartBeatSend \/ HeartBeatRecv
  BY <1>1, <1>4, ReaderLife, BeatLife DEF HeartBeatSend, LifeInv
<1>5. CASE \E m \in Modules : Plugin(m) \/ PluginQuits(m)
  BY <1>1, <1>5, PluginLives, PluginQuitsLife DEF LifeInv
<1> QED  BY <1>2, <1>3, <1>4, <1>5 DEF Next

\* The inductive invariant: whose life is on the move and why, what is in memory, and
\* what the manager's copies say.
THEOREM LifeSafe == Spec => []LifeInv
<1>1. Init => LifeInv
  BY LifeInitInv
<1>2. LifeInv /\ [Next]_vars => LifeInv'
  BY NextLife
<1> QED  BY <1>1, <1>2, PTL DEF Spec

\* START_TASK can rely on the manager's copy of a plugin's state (StartModuleTask).
THEOREM CopySafe == Spec => []CopyNotAhead
<1>1. LifeInv => CopyNotAhead
  BY DEF LifeInv, LifeSound, CopySound, CopyNotAhead, AgentInv, MutexHeld, UnloadAt
<1> QED  BY <1>1, LifeSafe, PTL

-----------------------------------------------------------------------------
\* What the Worker does to a plugin is a step the plugin allows.
LEMMA WorkerRespects ==
  ASSUME LifeInv, Worker, NEW m \in Modules
  PROVE  [LifeOf(m)!Next]_<<life[m], tasked[m]>>
<1> USE DEF SetLife, LifeOf!Next, LifeOf!Move
<1>t. life \in [Modules -> LifeStates] /\ tasked \in [Modules -> BOOLEAN]
  BY DEF LifeInv, AgentInv, TypeOK
<1>1. CASE SetModuleData
  <2>1. CASE Listed(worker.m) /\ ~IsRunning(worker.m) /\ m = worker.m
    <3>1. life[m] = "stopped"
      BY <1>1, <2>1, AtRest DEF SetModuleData
    <3>2. life' = life /\ tasked'[m] \in BOOLEAN
      BY <1>1, <1>t, <2>1 DEF SetModuleData
    <3> QED  BY <3>1, <3>2 DEF LifeOf!Configure
  <2>2. CASE ~(Listed(worker.m) /\ ~IsRunning(worker.m) /\ m = worker.m)
    BY <1>1, <1>t, <2>2 DEF SetModuleData
  <2> QED  BY <2>1, <2>2
<1>2. CASE StartModule
  BY <1>2, <1>t DEF StartModule, LifeInv, LifeSound, LifeOf!BeginStart
<1>3. CASE StartFails
  BY <1>3, <1>t DEF StartFails, LifeOf!FailStart
<1>4. CASE StopModule
  BY <1>4, <1>t DEF StopModule, IsRunning, LifeInv, LifeSound, LifeOf!BeginStop
<1>5. CASE LoadModule
  <2>1. PICK n \in worker.todo :
          \/ /\ life' = [life EXCEPT ![n] = "stopped"]
             /\ tasked' = [tasked EXCEPT ![n] = FALSE]
          \/ UNCHANGED <<life, tasked>>
    BY <1>5 DEF LoadModule
  <2>2. life[n] = "unloaded"
    BY <1>5, TodoUnloaded DEF LoadModule, LoadAt
  <2> QED  BY <1>t, <2>1, <2>2 DEF LifeOf!Load
<1>6. CASE AutoStart
  BY <1>6, <1>t DEF AutoStart, LifeInv, LifeSound, LifeOf!BeginStart
<1>7. CASE AutoStarted
  BY <1>7, <1>t DEF AutoStarted, LifeOf!FailStart
<1>8. CASE Discard
  BY <1>8, <1>t DEF Discard, LifeInv, LifeSound, LifeOf!Unload
<1>9. CASE UnLoadScModule
  <2> DEFINE n == m_ScModuleList[worker.i].dwModuleID
  <2>1. CASE IsRunning(n) /\ m = n
    <3>1. life[m] = "running"
      BY <1>9, <2>1 DEF UnLoadScModule, IsRunning, LifeInv, LifeSound
    <3> QED  BY <1>9, <1>t, <2>1, <3>1 DEF UnLoadScModule, LifeOf!BeginStop
  <2>2. CASE ~(IsRunning(n) /\ m = n)
    BY <1>9, <1>t, <2>2 DEF UnLoadScModule
  <2> QED  BY <2>1, <2>2
<1>10. CASE FreeScModule
  BY <1>10, <1>t DEF FreeScModule, LifeInv, LifeSound, LifeOf!Unload
<1>11. CASE \/ WorkerLook \/ WorkerPop \/ StartReturns \/ StopReturns \/ StartModuleTask
            \/ LoadEnds \/ AddScModule \/ Unload \/ UnloadStopped \/ UnloadEnds
  BY <1>11 DEF WorkerLook, WorkerPop, StartReturns, StopReturns, StartModuleTask,
     LoadEnds, AddScModule, Unload, UnloadStopped, UnloadEnds
<1> QED
  BY <1>1, <1>2, <1>3, <1>4, <1>5, <1>6, <1>7, <1>8, <1>9, <1>10, <1>11 DEF Worker

\* So is what its own threads do, and nobody else touches it.
LEMMA NextRespects ==
  ASSUME LifeInv, [Next]_vars, NEW m \in Modules
  PROVE  [LifeOf(m)!Next]_<<life[m], tasked[m]>>
<1>1. CASE Worker
  BY <1>1, WorkerRespects
<1>2. CASE \E n \in Modules : Plugin(n)
  <2>1. PICK n \in Modules : Plugin(n)
    BY <1>2
  <2>2. life \in [Modules -> LifeStates]
    BY DEF LifeInv, AgentInv, TypeOK
  <2>3. CASE PluginUp(n)
    BY <2>1, <2>2, <2>3 DEF Plugin, PluginUp, pluginFrame, SetLife, LifeOf!Next, LifeOf!Move,
       LifeOf!Up
  <2>4. CASE PluginDown(n)
    BY <2>1, <2>2, <2>4
       DEF Plugin, PluginDown, pluginFrame, SetLife, LifeOf!Next, LifeOf!Move, LifeOf!Down
  <2> QED  BY <2>1, <2>3, <2>4 DEF Plugin
<1>3. CASE Reader \/ HeartBeatSend \/ HeartBeatRecv \/ UNCHANGED vars
  BY <1>3 DEF Reader, ReaderRecv, ReaderRefuse, ReaderEmpty, ReaderReply, ReaderPush,
     readerFrame, HeartBeatSend, BeatBegin, BeatLock, BeatModule, BeatUnlock, BeatSend,
     beatFrame, HeartBeatRecv, vars
<1>4. CASE \E n \in Modules : PluginQuits(n)
  BY <1>4 DEF PluginQuits, pluginFrame, SetLife, LifeOf!Next, LifeOf!Move, LifeOf!Quit,
     LifeInv, AgentInv, TypeOK
<1> QED  BY <1>1, <1>2, <1>3, <1>4 DEF Next

\* The manager and the plugins' threads keep to the life cycle of every plugin:
\* policies and starts for a stopped one, stops for a running one, and its memory is
\* freed only once it has stopped.
THEOREM LivesCorrect == Spec => LivesRespected
<1>1. LifeInv /\ [Next]_vars
        => [\A m \in Modules : [LifeOf(m)!Next]_<<life[m], tasked[m]>>]_vars
  BY NextRespects
<1> QED  BY <1>1, LifeSafe, PTL DEF Spec, LivesRespected
=============================================================================
