----------------------------- MODULE Agent_proofs -----------------------------
(***************************************************************************)
(* Proofs about Agent, for any set of plugins, any number of messages and  *)
(* with or without automatic start.                                        *)
(***************************************************************************)
EXTENDS Agent, SequenceTheorems, TLAPS

\* The entries of the module list are what they look like.
LEMMA EntryType ==
  ASSUME TypeOK, NEW k \in DOMAIN m_ScModuleList
  PROVE  /\ m_ScModuleList[k] \in Entries
         /\ m_ScModuleList[k].dwModuleID \in Modules
<1>1. m_ScModuleList \in Seq(Entries)
  BY DEF TypeOK
<1>2. m_ScModuleList[k] \in Entries
  BY <1>1, ElementOfSeq, LenProperties
<1> QED  BY <1>2 DEF Entries

\* A list whose entries keep their modules is sound if the old one is.
LEMMA RecallKeeps ==
  ASSUME TypeOK, NEW running \in BOOLEAN, Recall(running)
  PROVE  /\ m_ScModuleList' \in Seq(Entries)
         /\ DOMAIN m_ScModuleList' = DOMAIN m_ScModuleList
         /\ \A k \in DOMAIN m_ScModuleList :
              m_ScModuleList'[k].dwModuleID = m_ScModuleList[k].dwModuleID
<1>1. \A k \in DOMAIN m_ScModuleList : m_ScModuleList[k] \in Entries
  BY EntryType
<1>2. /\ DOMAIN m_ScModuleList = 1 .. Len(m_ScModuleList)
      /\ Len(m_ScModuleList) \in Nat
  BY LenProperties DEF TypeOK
<1>3. \A k \in DOMAIN m_ScModuleList : m_ScModuleList'[k] \in Entries
  BY <1>1 DEF Recall, Entries
<1>4. m_ScModuleList' \in [1 .. Len(m_ScModuleList) -> Entries]
  BY <1>2, <1>3 DEF Recall
<1>5. m_ScModuleList' \in Seq(Entries)
  BY <1>2, <1>4
<1> QED  BY <1>1, <1>5 DEF Recall, Entries

\* So is one that notes that a module has stopped by itself.
LEMMA QuitKeeps ==
  ASSUME TypeOK, NEW m \in Modules, PluginQuits(m)
  PROVE  /\ m_ScModuleList' \in Seq(Entries)
         /\ DOMAIN m_ScModuleList' = DOMAIN m_ScModuleList
         /\ \A k \in DOMAIN m_ScModuleList :
              m_ScModuleList'[k].dwModuleID = m_ScModuleList[k].dwModuleID
<1>1. \A k \in DOMAIN m_ScModuleList : m_ScModuleList[k] \in Entries
  BY EntryType
<1>2. /\ DOMAIN m_ScModuleList = 1 .. Len(m_ScModuleList)
      /\ Len(m_ScModuleList) \in Nat
  BY LenProperties DEF TypeOK
<1>3. \A k \in DOMAIN m_ScModuleList : m_ScModuleList'[k] \in Entries
  BY <1>1 DEF PluginQuits, Entries
<1>4. m_ScModuleList' \in [1 .. Len(m_ScModuleList) -> Entries]
  BY <1>2, <1>3 DEF PluginQuits
<1>5. m_ScModuleList' \in Seq(Entries)
  BY <1>2, <1>4
<1> QED  BY <1>1, <1>5 DEF PluginQuits, Entries

\* The state before the modules are loaded.
LEMMA InitInv == Init => AgentInv
<1> SUFFICES ASSUME Init PROVE AgentInv
  OBVIOUS
<1>1. MaxRequests \in Nat
  BY AgentAssumption
<1>2. /\ <<>> \in Seq(Requests) /\ <<>> \in Seq(Entries)
      /\ Len(<<>>) = 0 /\ DOMAIN <<>> = {}
  BY EmptySeq
<1>3. /\ reader \in [at : ReaderAt, req : Requests]
      /\ worker \in [at : WorkerAt, m : Ids, todo : SUBSET Modules, i : Nat \ {0}]
      /\ beat \in [at : {"rest", "lock", "scan", "send"}, i : Nat \ {0}]
  <2>1. reader \in [at : ReaderAt, req : Requests]
    BY DEF Init, ReaderAt, Requests
  <2>2. worker \in [at : WorkerAt, m : Ids, todo : SUBSET Modules, i : Nat \ {0}]
    <3>1. worker = [at |-> "load", m |-> NoModule, todo |-> Modules, i |-> 1]
      BY DEF Init, WorkerIdle
    <3> QED  BY <3>1 DEF WorkerAt, Ids
  <2>3. beat \in [at : {"rest", "lock", "scan", "send"}, i : Nat \ {0}]
    BY DEF Init
  <2> QED  BY <2>1, <2>2, <2>3
<1>4. life \in [Modules -> LifeStates] /\ tasked \in [Modules -> BOOLEAN]
  BY DEF Init, LifeStates
<1>5. received \in 0 .. MaxRequests
  BY <1>1 DEF Init
<1>6. TypeOK
  BY <1>2, <1>3, <1>4, <1>5 DEF Init, TypeOK
<1>7. ReaderOwes /\ MutexHeld
  BY DEF Init, ReaderOwes, MutexHeld, WorkerIdle, UnloadAt
<1>8. ListSound
  BY <1>2 DEF Init, ListSound, WorkerIdle, LoadAt
<1>9. QueueSound
  BY <1>1, <1>2 DEF Init, QueueSound, WorkerIdle, LoadAt
<1> QED
  BY <1>6, <1>7, <1>8, <1>9 DEF AgentInv

\* What the Reader does preserves the invariant.
LEMMA ReaderInv ==
  ASSUME AgentInv, Reader
  PROVE  AgentInv'
<1> USE AgentAssumption DEF ReaderTo, ReaderAt
<1>1. CASE ReaderRecv
  <2>1. reader' \in [at : ReaderAt, req : Requests]
    <3>1. Commands \subseteq Requests
      BY DEF Requests
    <3>2. reader \in [at : ReaderAt, req : Requests]
      BY DEF AgentInv, TypeOK
    <3>3. \A at \in ReaderAt : [reader EXCEPT !.at = at] \in [at : ReaderAt, req : Requests]
      BY <3>2
    <3>4. CASE \E at \in {"empty", "refuse"} : ReaderTo(at)
      BY <3>3, <3>4
    <3>5. CASE \E req \in Commands : reader' = [at |-> "reply", req |-> req]
      BY <3>1, <3>5
    <3> QED  BY <1>1, <3>4, <3>5 DEF ReaderRecv
  <2>2. received' \in 0 .. MaxRequests /\ received' = received + 1
    BY <1>1 DEF ReaderRecv, AgentInv, TypeOK
  <2>3. TypeOK'
    BY <1>1, <2>1, <2>2 DEF ReaderRecv, readerFrame, beatVars, AgentInv, TypeOK
  <2>4. ReaderOwes' /\ MutexHeld' /\ ListSound'
    BY <1>1, <2>1 DEF ReaderRecv, readerFrame, beatVars, AgentInv, TypeOK,
       ReaderOwes, MutexHeld, ListSound
  <2>5. Len(m_listreq) \in Nat
    BY DEF AgentInv, TypeOK
  <2>6. QueueSound'
    BY <1>1, <2>1, <2>2, <2>5 DEF ReaderRecv, readerFrame, beatVars, AgentInv,
       TypeOK, QueueSound
  <2> QED  BY <2>3, <2>4, <2>6 DEF AgentInv
<1>2. CASE ReaderRefuse
  <2>1. TypeOK'
    BY <1>2 DEF ReaderRefuse, ZmqSend, readerFrame, beatVars, AgentInv, TypeOK
  <2>2. ReaderOwes' /\ MutexHeld' /\ ListSound'
    BY <1>2 DEF ReaderRefuse, ZmqSend, readerFrame, beatVars, AgentInv, TypeOK,
       ReaderOwes, MutexHeld, ListSound
  <2>3. QueueSound'
    BY <1>2 DEF ReaderRefuse, ZmqSend, readerFrame, beatVars, AgentInv, TypeOK,
       QueueSound
  <2> QED  BY <2>1, <2>2, <2>3 DEF AgentInv
<1>3. CASE ReaderEmpty
  <2>1. TypeOK'
    BY <1>3 DEF ReaderEmpty, ZmqSend, readerFrame, beatVars, AgentInv, TypeOK
  <2>2. ReaderOwes' /\ MutexHeld' /\ ListSound'
    BY <1>3 DEF ReaderEmpty, ZmqSend, readerFrame, beatVars, AgentInv, TypeOK,
       ReaderOwes, MutexHeld, ListSound
  <2>3. QueueSound'
    BY <1>3 DEF ReaderEmpty, ZmqSend, readerFrame, beatVars, AgentInv, TypeOK,
       QueueSound
  <2> QED  BY <2>1, <2>2, <2>3 DEF AgentInv
<1>4. CASE ReaderReply
  <2>1. TypeOK'
    BY <1>4 DEF ReaderReply, ZmqSend, readerFrame, beatVars, AgentInv, TypeOK
  <2>2. ReaderOwes' /\ MutexHeld' /\ ListSound'
    BY <1>4 DEF ReaderReply, ZmqSend, readerFrame, beatVars, AgentInv, TypeOK,
       ReaderOwes, MutexHeld, ListSound
  <2>3. QueueSound'
    BY <1>4 DEF ReaderReply, ZmqSend, readerFrame, beatVars, AgentInv, TypeOK,
       QueueSound
  <2> QED  BY <2>1, <2>2, <2>3 DEF AgentInv
<1>5. CASE ReaderPush
  <2>1. m_listreq' \in Seq(Requests) /\ Len(m_listreq') = Len(m_listreq) + 1
    BY <1>5 DEF ReaderPush, AgentInv, TypeOK
  <2>2. reader' \in [at : ReaderAt, req : Requests]
    BY <1>5 DEF ReaderPush, AgentInv, TypeOK, Requests
  <2>3. TypeOK'
    BY <1>5, <2>1, <2>2 DEF ReaderPush, readerFrame, beatVars, AgentInv, TypeOK
  <2>4. ReaderOwes' /\ MutexHeld' /\ ListSound'
    BY <1>5 DEF ReaderPush, readerFrame, beatVars, AgentInv, TypeOK,
       ReaderOwes, MutexHeld, ListSound
  <2>5. Len(m_listreq) \in Nat /\ m_listreq' # <<>>
    BY <2>1 DEF AgentInv, TypeOK
  <2>6. QueueSound'
    BY <1>5, <2>1, <2>5 DEF ReaderPush, readerFrame, beatVars, AgentInv, TypeOK,
       QueueSound
  <2> QED  BY <2>3, <2>4, <2>6 DEF AgentInv
<1> QED  BY <1>1, <1>2, <1>3, <1>4, <1>5 DEF Reader

\* So does the heartbeat, ...
LEMMA BeatInv ==
  ASSUME AgentInv, HeartBeatSend \/ HeartBeatRecv
  PROVE  AgentInv'
<1> USE DEF BeatTo, beatFrame, readerVars
<1>1. CASE BeatBegin
  BY <1>1 DEF BeatBegin, AgentInv, TypeOK, ReaderOwes, MutexHeld, ListSound,
     QueueSound
<1>2. CASE BeatLock
  BY <1>2 DEF BeatLock, AgentInv, TypeOK, ReaderOwes, MutexHeld, ListSound,
     QueueSound
<1>3. CASE BeatModule
  <2>1. PICK k \in DOMAIN m_ScModuleList :
          m_ScModuleList' = [m_ScModuleList EXCEPT
            ![k] = [@ EXCEPT !.bIsRunning = IsRunning(m_ScModuleList[k].dwModuleID),
                             !.quit = FALSE]]
    <3>1. beat.i \in Nat \ {0} /\ beat.i <= Len(m_ScModuleList)
      BY <1>3 DEF BeatModule, AgentInv, TypeOK
    <3>2. beat.i \in DOMAIN m_ScModuleList
      BY <3>1, LenProperties DEF AgentInv, TypeOK
    <3>3. \A j \in DOMAIN m_ScModuleList : m_ScModuleList[j] \in Entries
      BY EntryType DEF AgentInv
    <3> QED  BY <1>3, <3>2, <3>3 DEF BeatModule, Entries
  <2>2. /\ m_ScModuleList' \in Seq(Entries)
        /\ DOMAIN m_ScModuleList' = DOMAIN m_ScModuleList
        /\ \A j \in DOMAIN m_ScModuleList :
             m_ScModuleList'[j].dwModuleID = m_ScModuleList[j].dwModuleID
    <3>1. \A j \in DOMAIN m_ScModuleList : m_ScModuleList[j] \in Entries
      BY EntryType DEF AgentInv
    <3>2. IsRunning(m_ScModuleList[k].dwModuleID) \in BOOLEAN
      BY DEF IsRunning
    <3>3. [m_ScModuleList[k] EXCEPT !.bIsRunning =
             IsRunning(m_ScModuleList[k].dwModuleID), !.quit = FALSE] \in Entries
      BY <3>1, <3>2 DEF Entries
    <3>4. m_ScModuleList' \in Seq(Entries)
      BY <2>1, <3>3, ExceptSeq DEF AgentInv, TypeOK
    <3> QED  BY <2>1, <3>1, <3>4 DEF Entries
  <2>3. TypeOK'
    BY <1>3, <2>2 DEF BeatModule, AgentInv, TypeOK
  <2>4. ReaderOwes' /\ MutexHeld' /\ QueueSound'
    BY <1>3 DEF BeatModule, AgentInv, TypeOK, ReaderOwes, MutexHeld, QueueSound
  <2>5. ListSound'
    BY <1>3, <2>2 DEF BeatModule, AgentInv, ListSound
  <2> QED  BY <2>3, <2>4, <2>5 DEF AgentInv
<1>4. CASE BeatUnlock
  BY <1>4 DEF BeatUnlock, AgentInv, TypeOK, ReaderOwes, MutexHeld, ListSound,
     QueueSound
<1>5. CASE BeatSend
  BY <1>5 DEF BeatSend, AgentInv, TypeOK, ReaderOwes, MutexHeld, ListSound,
     QueueSound
<1>6. CASE HeartBeatRecv
  BY <1>6 DEF HeartBeatRecv, AgentInv, TypeOK, ReaderOwes, MutexHeld, ListSound,
     QueueSound
<1> QED  BY <1>1, <1>2, <1>3, <1>4, <1>5, <1>6 DEF HeartBeatSend

\* ... the plugins' threads, ...
LEMMA PluginInv ==
  ASSUME AgentInv, NEW m \in Modules, Plugin(m)
  PROVE  AgentInv'
<1>1. /\ life' \in [Modules -> LifeStates]
      /\ life[m] # "unloaded" /\ life'[m] # "unloaded"
      /\ \A n \in Modules \ {m} : life'[n] = life[n]
  BY DEF Plugin, PluginUp, PluginDown, SetLife, LifeStates, AgentInv, TypeOK
<1>2. UNCHANGED <<reader, sock, received, m_listreq, executed, worker, mtx,
                  m_ScModuleList, tasked, up, beat, m_registered>>
  BY DEF Plugin, pluginFrame, readerVars, beatVars
<1>3. TypeOK'
  BY <1>1, <1>2 DEF AgentInv, TypeOK
<1>4. ReaderOwes' /\ MutexHeld' /\ QueueSound'
  BY <1>2 DEF AgentInv, ReaderOwes, MutexHeld, QueueSound
<1>5. ListSound'
  <2>1. \A k \in DOMAIN m_ScModuleList : m_ScModuleList[k].dwModuleID \in Modules
    BY EntryType DEF AgentInv
  <2>2. worker.at \in LoadAt \ {"load"} => worker.m \in Modules
    BY DEF AgentInv, TypeOK, ListSound
  <2> QED  BY <1>1, <1>2, <2>1, <2>2 DEF AgentInv, ListSound
<1> QED  BY <1>3, <1>4, <1>5 DEF AgentInv

\* ... the one of them that stops its plugin, ...
LEMMA QuitInv ==
  ASSUME AgentInv, NEW m \in Modules, PluginQuits(m)
  PROVE  AgentInv'
<1>1. /\ life' \in [Modules -> LifeStates]
      /\ life[m] # "unloaded" /\ life'[m] # "unloaded"
      /\ \A n \in Modules \ {m} : life'[n] = life[n]
  BY DEF PluginQuits, SetLife, LifeStates, AgentInv, TypeOK
<1>2. UNCHANGED <<reader, sock, received, m_listreq, executed, worker, mtx,
                  tasked, up, beat, m_registered>>
  BY DEF PluginQuits, pluginFrame, readerVars, beatVars
<1>3. /\ m_ScModuleList' \in Seq(Entries)
      /\ DOMAIN m_ScModuleList' = DOMAIN m_ScModuleList
      /\ \A k \in DOMAIN m_ScModuleList :
           m_ScModuleList'[k].dwModuleID = m_ScModuleList[k].dwModuleID
  BY QuitKeeps DEF AgentInv
<1>4. TypeOK'
  BY <1>1, <1>2, <1>3 DEF AgentInv, TypeOK
<1>5. ReaderOwes' /\ MutexHeld' /\ QueueSound'
  BY <1>2 DEF AgentInv, ReaderOwes, MutexHeld, QueueSound
<1>6. ListSound'
  <2>1. \A k \in DOMAIN m_ScModuleList : m_ScModuleList[k].dwModuleID \in Modules
    BY EntryType DEF AgentInv
  <2>2. worker.at \in LoadAt \ {"load"} => worker.m \in Modules
    BY DEF AgentInv, TypeOK, ListSound
  <2> QED  BY <1>1, <1>2, <1>3, <2>1, <2>2 DEF AgentInv, ListSound
<1> QED  BY <1>4, <1>5, <1>6 DEF AgentInv

\* ... and the Worker, with one module function after the other.
LEMMA WorkerQueueInv ==
  ASSUME AgentInv, WorkerLook \/ WorkerPop
  PROVE  AgentInv'
<1> USE DEF workerFrame, readerVars, beatVars
<1>1. CASE WorkerLook
  <2>1. Head(m_listreq) \in Requests /\ m_listreq # <<>>
    BY <1>1 DEF WorkerLook, AgentInv, TypeOK
  <2>2. /\ Entry(Head(m_listreq).dwType)
             \in {"setdata", "stopmodule", "task", "load", "unload", "pop"}
        /\ Entry(Head(m_listreq).dwType) = "load" => m_ScModuleList = <<>>
    BY DEF Entry
  <2>3. worker' \in [at : WorkerAt, m : Ids, todo : SUBSET Modules, i : Nat \ {0}]
    <3>1. Head(m_listreq).dwModuleID \in Ids
      BY <2>1 DEF Requests, Commands, NoCommand, Ids
    <3>2. Entry(Head(m_listreq).dwType) \in WorkerAt
      BY <2>2 DEF WorkerAt
    <3>3. worker' = [at |-> Entry(Head(m_listreq).dwType),
                     m |-> Head(m_listreq).dwModuleID,
                     todo |-> IF Entry(Head(m_listreq).dwType) = "load"
                              THEN Modules ELSE {},
                     i |-> 1]
      BY <1>1 DEF WorkerLook, WorkerIdle
    <3> QED  BY <3>1, <3>2, <3>3
  <2>4. executed' \in Seq(Requests)
    BY <1>1, <2>1 DEF WorkerLook, AgentInv, TypeOK
  <2>5. TypeOK'
    BY <1>1, <2>3, <2>4 DEF WorkerLook, AgentInv, TypeOK
  <2>6. /\ worker'.at \in {"setdata", "stopmodule", "task", "load", "unload", "pop"}
        /\ worker'.at = "load" => m_ScModuleList = <<>>
    BY <1>1, <2>2 DEF WorkerLook, WorkerIdle
  <2>7. ReaderOwes' /\ MutexHeld'
    BY <1>1, <2>6 DEF WorkerLook, AgentInv, ReaderOwes, MutexHeld, UnloadAt
  <2>8. ListSound'
    <3>1. worker.at = "look"
      BY <1>1 DEF WorkerLook
    <3>2. m_ScModuleList = <<>> => DOMAIN m_ScModuleList = {}
      BY EmptySeq
    <3> QED  BY <1>1, <2>6, <3>1, <3>2 DEF WorkerLook, AgentInv, ListSound, LoadAt,
                UnloadAt
  <2>9. QueueSound'
    BY <1>1, <2>1 DEF WorkerLook, AgentInv, QueueSound, LoadAt
  <2> QED  BY <2>5, <2>7, <2>8, <2>9 DEF AgentInv
<1>2. CASE WorkerPop
  <2>1. worker' = WorkerIdle /\ worker.at = "pop"
    BY <1>2 DEF WorkerPop
  <2>2. worker' \in [at : WorkerAt, m : Ids, todo : SUBSET Modules, i : Nat \ {0}]
    BY <2>1 DEF WorkerIdle, WorkerAt, Ids
  <2>3. up /\ m_listreq # <<>>
    BY <2>1 DEF AgentInv, QueueSound, LoadAt, TypeOK
  <2>4. m_listreq' \in Seq(Requests) /\ Len(m_listreq') = Len(m_listreq) - 1
    BY <1>2, <2>3, HeadTailProperties DEF WorkerPop, AgentInv, TypeOK
  <2>5. TypeOK'
    BY <1>2, <2>2, <2>4 DEF WorkerPop, AgentInv, TypeOK
  <2>6. ReaderOwes' /\ MutexHeld'
    BY <1>2, <2>1 DEF WorkerPop, AgentInv, ReaderOwes, MutexHeld, UnloadAt, WorkerIdle
  <2>7. ListSound'
    BY <1>2, <2>1 DEF WorkerPop, AgentInv, ListSound, UnloadAt, LoadAt, WorkerIdle
  <2>8. Len(m_listreq) \in Nat /\ received \in Nat
    BY DEF AgentInv, TypeOK
  <2>9. QueueSound'
    BY <1>2, <2>1, <2>3, <2>4, <2>8 DEF WorkerPop, AgentInv, QueueSound, WorkerIdle
  <2> QED  BY <2>5, <2>6, <2>7, <2>9 DEF AgentInv
<1> QED  BY <1>1, <1>2

\* A command on one plugin keeps the modules of the list in memory.
LEMMA WorkerCommandInv ==
  ASSUME AgentInv,
         \/ SetModuleData \/ StartModule \/ StartReturns \/ StartFails
         \/ StopModule \/ StopReturns \/ StartModuleTask
  PROVE  AgentInv'
<1> DEFINE Same == /\ m_ScModuleList' \in Seq(Entries)
                   /\ DOMAIN m_ScModuleList' = DOMAIN m_ScModuleList
                   /\ \A k \in DOMAIN m_ScModuleList :
                        m_ScModuleList'[k].dwModuleID = m_ScModuleList[k].dwModuleID
           Alive == /\ life' \in [Modules -> LifeStates]
                    /\ \A m \in Modules : life[m] # "unloaded" => life'[m] # "unloaded"
           Here == {"setdata", "startmodule", "starting", "stopmodule", "stopping",
                    "task", "pop"}
<1>1. /\ Same /\ Alive
      /\ worker.at \in Here
      /\ \E at \in Here : WorkerTo(at)
      /\ tasked' \in [Modules -> BOOLEAN]
      /\ UNCHANGED <<m_listreq, executed, reader, sock, received, up, beat, m_registered>>
      /\ \/ UNCHANGED mtx /\ mtx = "free" /\ worker'.at \notin {"starting", "stopping"}
         \/ mtx = "free" /\ mtx' = "worker"
         \/ worker.at \in {"starting", "stopping"} /\ mtx' = "free" /\ worker'.at = "pop"
  <2> USE DEF workerFrame, readerVars, beatVars, WorkerTo, SetLife, LifeStates
  <2>0. AgentInv => TypeOK /\ \A m : IsRunning(m) \in BOOLEAN
    BY DEF AgentInv, IsRunning
  <2>1. CASE SetModuleData
    <3>1. Same
      BY <2>1, <2>0, RecallKeeps DEF SetModuleData, TypeOK
    <3>2. Alive
      BY <2>1 DEF SetModuleData, AgentInv, TypeOK
    <3>3. \E at \in {"startmodule", "pop"} : WorkerTo(at)
      BY <2>1 DEF SetModuleData
    <3>4. worker'.at \in {"startmodule", "pop"}
      BY <3>3 DEF AgentInv, TypeOK
    <3>5. tasked' \in [Modules -> BOOLEAN]
      BY <2>1 DEF SetModuleData, AgentInv, TypeOK
    <3> QED  BY <2>1, <3>1, <3>2, <3>3, <3>4, <3>5 DEF SetModuleData
  <2>2. CASE StartModule
    <3>1. Same
      BY <2>2, <2>0, RecallKeeps DEF StartModule
    <3> QED  BY <2>2, <3>1 DEF StartModule, AgentInv, TypeOK
  <2>3. CASE StartReturns
    <3>1. Same
      BY <2>3, <2>0, RecallKeeps DEF StartReturns
    <3> QED  BY <2>3, <3>1 DEF StartReturns, AgentInv, TypeOK
  <2>4. CASE StartFails
    BY <2>4 DEF StartFails, AgentInv, TypeOK
  <2>5. CASE StopModule
    <3>1. Same
      BY <2>5, <2>0, RecallKeeps DEF StopModule, TypeOK
    <3> QED  BY <2>5, <3>1 DEF StopModule, AgentInv, TypeOK
  <2>6. CASE StopReturns
    <3>1. Same
      BY <2>6, RecallKeeps DEF StopReturns, AgentInv, TypeOK
    <3> QED  BY <2>6, <3>1 DEF StopReturns, AgentInv, TypeOK
  <2>7. CASE StartModuleTask
    BY <2>7 DEF StartModuleTask, AgentInv, TypeOK
  <2> QED  BY <2>1, <2>2, <2>3, <2>4, <2>5, <2>6, <2>7
<1>2. worker' \in [at : WorkerAt, m : Ids, todo : SUBSET Modules, i : Nat \ {0}]
  BY <1>1 DEF WorkerTo, AgentInv, TypeOK, WorkerAt
<1>3. worker'.at \in Here
  BY <1>1 DEF WorkerTo, AgentInv, TypeOK
<1>4. TypeOK'
  BY <1>1, <1>2 DEF AgentInv, TypeOK
<1>5. ReaderOwes' /\ MutexHeld' /\ QueueSound'
  <2>1. worker.at \in {"starting", "stopping"} => mtx = "worker"
    BY DEF AgentInv, MutexHeld
  <2> QED
    BY <1>1, <1>3, <2>1 DEF AgentInv, ReaderOwes, MutexHeld, QueueSound, UnloadAt, LoadAt
<1>6. ListSound'
  <2>1. \A k \in DOMAIN m_ScModuleList : m_ScModuleList[k].dwModuleID \in Modules
    BY EntryType DEF AgentInv
  <2> QED  BY <1>1, <1>3, <2>1 DEF AgentInv, ListSound, UnloadAt, LoadAt
<1> QED  BY <1>4, <1>5, <1>6 DEF AgentInv

\* Load lists each module it keeps once, and frees only one it has not listed.
LEMMA WorkerLoadInv ==
  ASSUME AgentInv,
         \/ LoadModule \/ LoadEnds \/ AutoStart \/ AutoStarted \/ Discard
         \/ AddScModule
  PROVE  AgentInv'
<1> USE DEF workerFrame, readerVars, beatVars, WorkerTo, SetLife
<1>a. \A k \in DOMAIN m_ScModuleList : m_ScModuleList[k].dwModuleID \in Modules
  BY EntryType DEF AgentInv
<1>b. /\ worker.todo \subseteq Modules
      /\ worker.at \in LoadAt \ {"load"} => worker.m \in worker.todo
  BY DEF AgentInv, TypeOK, ListSound
<1>1. CASE LoadModule
  <2>0. PICK m \in worker.todo :
          \/ /\ SetLife(m, "stopped")
             /\ tasked' = [tasked EXCEPT ![m] = FALSE]
             /\ worker' = [worker EXCEPT !.at = "created", !.m = m]
          \/ /\ worker' = [worker EXCEPT !.todo = @ \ {m}]
             /\ UNCHANGED <<life, tasked>>
    BY <1>1 DEF LoadModule
  <2>1. TypeOK'
    <3>1. worker' \in [at : WorkerAt, m : Ids, todo : SUBSET Modules, i : Nat \ {0}]
      <4>1. worker \in [at : WorkerAt, m : Ids, todo : SUBSET Modules, i : Nat \ {0}]
        BY DEF AgentInv, TypeOK
      <4>2. /\ "created" \in WorkerAt /\ m \in Ids
            /\ worker.todo \ {m} \in SUBSET Modules
        BY <1>b DEF WorkerAt, Ids
      <4>3. CASE worker' = [worker EXCEPT !.at = "created", !.m = m]
        BY <4>1, <4>2, <4>3
      <4>4. CASE worker' = [worker EXCEPT !.todo = @ \ {m}]
        BY <4>1, <4>2, <4>4
      <4> QED  BY <2>0, <4>3, <4>4
    <3>2. life' \in [Modules -> LifeStates] /\ tasked' \in [Modules -> BOOLEAN]
      BY <2>0 DEF AgentInv, TypeOK, LifeStates
    <3> QED  BY <1>1, <3>1, <3>2 DEF LoadModule, AgentInv, TypeOK
  <2>2. worker.at = "load" /\ worker'.at \in LoadAt
    BY <1>1 DEF LoadModule, AgentInv, TypeOK, LoadAt
  <2>5. /\ m \in Modules
        /\ worker'.todo \subseteq worker.todo
        /\ worker'.at = "created" => worker'.m = m /\ m \in worker'.todo /\ life'[m] = "stopped"
        /\ worker'.at \in {"load", "created"}
        /\ \A n \in Modules : life[n] # "unloaded" => life'[n] # "unloaded"
    <3>1. /\ worker \in [at : WorkerAt, m : Ids, todo : SUBSET Modules, i : Nat \ {0}]
          /\ life \in [Modules -> LifeStates] /\ m \in Modules
      BY <1>b DEF AgentInv, TypeOK
    <3>2. CASE SetLife(m, "stopped") /\ worker' = [worker EXCEPT !.at = "created", !.m = m]
      BY <3>1, <3>2
    <3>3. CASE UNCHANGED life /\ worker' = [worker EXCEPT !.todo = @ \ {m}]
      BY <2>2, <3>1, <3>3
    <3> QED  BY <2>0, <3>2, <3>3
  <2>6. /\ \A k \in DOMAIN m_ScModuleList : m_ScModuleList[k].dwModuleID \notin worker'.todo
        /\ m_ScModuleList' = m_ScModuleList
    BY <1>1, <2>2, <2>5 DEF LoadModule, AgentInv, ListSound, LoadAt
  <2>3. ReaderOwes' /\ MutexHeld' /\ QueueSound'
    BY <1>1, <2>2 DEF LoadModule, AgentInv, ReaderOwes, MutexHeld, QueueSound,
       LoadAt, UnloadAt
  <2>4. ListSound'
    BY <1>a, <2>2, <2>5, <2>6 DEF AgentInv, ListSound, LoadAt, UnloadAt
  <2> QED  BY <2>1, <2>3, <2>4 DEF AgentInv
<1>2. CASE LoadEnds
  <2>1. TypeOK'
    BY <1>2 DEF LoadEnds, AgentInv, TypeOK, WorkerAt
  <2>2. worker.at = "load" /\ worker'.at = IF up THEN "pop" ELSE "look"
    BY <1>2 DEF LoadEnds, AgentInv, TypeOK
  <2>3. ReaderOwes' /\ MutexHeld' /\ QueueSound' /\ ListSound'
    BY <1>2, <2>2 DEF LoadEnds, AgentInv, ReaderOwes, MutexHeld, QueueSound,
       ListSound, LoadAt, UnloadAt
  <2> QED  BY <2>1, <2>3 DEF AgentInv
<1>3. CASE AutoStart
  <2>1. TypeOK'
    BY <1>3 DEF AutoStart, AgentInv, TypeOK, WorkerAt, LifeStates
  <2>2. worker.at = "created" /\ worker'.at \in LoadAt
    BY <1>3 DEF AutoStart, AgentInv, TypeOK, LoadAt
  <2>3. ReaderOwes' /\ MutexHeld' /\ QueueSound'
    BY <1>3, <2>2 DEF AutoStart, AgentInv, ReaderOwes, MutexHeld, QueueSound,
       LoadAt, UnloadAt
  <2>4. ListSound'
    BY <1>3, <1>a, <1>b, <2>2 DEF AutoStart, AgentInv, TypeOK, ListSound, LoadAt,
       UnloadAt
  <2> QED  BY <2>1, <2>3, <2>4 DEF AgentInv
<1>4. CASE AutoStarted
  <2>1. TypeOK'
    <3>1. life' \in [Modules -> LifeStates]
      BY <1>4 DEF AutoStarted, AgentInv, TypeOK, LifeStates
    <3>2. \E at \in {"add", "discard"} : worker' = [worker EXCEPT !.at = at]
      BY <1>4 DEF AutoStarted
    <3>3. worker' \in [at : WorkerAt, m : Ids, todo : SUBSET Modules, i : Nat \ {0}]
      BY <3>2 DEF AgentInv, TypeOK, WorkerAt
    <3> QED  BY <1>4, <3>1, <3>3 DEF AutoStarted, AgentInv, TypeOK
  <2>2. worker.at = "autostart" /\ worker'.at \in LoadAt
    BY <1>4 DEF AutoStarted, AgentInv, TypeOK, LoadAt
  <2>3. ReaderOwes' /\ MutexHeld' /\ QueueSound'
    BY <1>4, <2>2 DEF AutoStarted, AgentInv, ReaderOwes, MutexHeld, QueueSound,
       LoadAt, UnloadAt
  <2>4. ListSound'
    BY <1>4, <1>a, <1>b, <2>2 DEF AutoStarted, AgentInv, TypeOK, ListSound, LoadAt,
       UnloadAt
  <2> QED  BY <2>1, <2>3, <2>4 DEF AgentInv
<1>5. CASE Discard
  <2>1. TypeOK'
    BY <1>5 DEF Discard, AgentInv, TypeOK, WorkerAt, LifeStates
  <2>2. worker.at = "discard" /\ worker'.at = "load"
    BY <1>5 DEF Discard, AgentInv, TypeOK
  <2>3. ReaderOwes' /\ MutexHeld' /\ QueueSound'
    BY <1>5, <2>2 DEF Discard, AgentInv, ReaderOwes, MutexHeld, QueueSound,
       LoadAt, UnloadAt
  <2>4. ListSound'
    BY <1>5, <1>a, <1>b, <2>2 DEF Discard, AgentInv, TypeOK, ListSound, LoadAt,
       UnloadAt
  <2> QED  BY <2>1, <2>3, <2>4 DEF AgentInv
<1>6. CASE AddScModule
  <2>1. worker.at = "add" /\ worker'.at = "load"
    BY <1>6 DEF AddScModule, AgentInv, TypeOK
  <2>2. worker.m \in worker.todo /\ worker.m \in Modules /\ life[worker.m] # "unloaded"
    BY <2>1, <1>b DEF AgentInv, ListSound, LoadAt
  <2> DEFINE n == Len(m_ScModuleList)
             new == [dwModuleID |-> worker.m, bIsRunning |-> IsRunning(worker.m),
                     quit |-> FALSE]
  <2>3. new \in Entries
    BY <2>2 DEF Entries, IsRunning
  <2>4. m_ScModuleList \in Seq(Entries) /\ n \in Nat /\ DOMAIN m_ScModuleList = 1 .. n
    BY LenProperties DEF AgentInv, TypeOK
  <2>5. /\ m_ScModuleList' \in Seq(Entries)
        /\ DOMAIN m_ScModuleList' = 1 .. n + 1
        /\ m_ScModuleList'[n + 1].dwModuleID = worker.m
        /\ \A k \in 1 .. n : m_ScModuleList'[k] = m_ScModuleList[k]
    BY <1>6, <2>3, <2>4, AppendProperties DEF AddScModule
  <2>6. TypeOK'
    BY <1>6, <2>5 DEF AddScModule, AgentInv, TypeOK, WorkerAt
  <2>7. ReaderOwes' /\ MutexHeld' /\ QueueSound'
    BY <1>6, <2>1 DEF AddScModule, AgentInv, ReaderOwes, MutexHeld, QueueSound,
       LoadAt, UnloadAt
  <2>8. ListSound'
    <3>1. \A k \in 1 .. n : m_ScModuleList[k].dwModuleID \notin worker.todo
      BY <2>1, <2>4 DEF AgentInv, ListSound, LoadAt
    <3>2. worker'.todo = worker.todo \ {worker.m} /\ life' = life
      BY <1>6 DEF AddScModule, AgentInv, TypeOK
    <3>3. \A k \in 1 .. n : life[m_ScModuleList[k].dwModuleID] # "unloaded"
      BY <2>1, <2>4 DEF AgentInv, ListSound, UnloadAt
    <3>4. \A j, k \in 1 .. n :
            m_ScModuleList[j].dwModuleID = m_ScModuleList[k].dwModuleID => j = k
      BY <2>4 DEF AgentInv, ListSound
    <3>5. \A k \in 1 .. n + 1 : k = n + 1 \/ k \in 1 .. n
      BY <2>4
    <3> HIDE DEF n
    <3> QED
      BY <2>1, <2>2, <2>5, <3>1, <3>2, <3>3, <3>4, <3>5 DEF ListSound, LoadAt
  <2> QED  BY <2>6, <2>7, <2>8 DEF AgentInv
<1> QED  BY <1>1, <1>2, <1>3, <1>4, <1>5, <1>6

\* Unload keeps the mutex from the first module it frees to the empty list.
LEMMA WorkerUnloadInv ==
  ASSUME AgentInv,
         \/ Unload \/ UnLoadScModule \/ UnloadStopped \/ FreeScModule \/ UnloadEnds
  PROVE  AgentInv'
<1> USE DEF workerFrame, readerVars, beatVars, WorkerTo, SetLife
<1>1. CASE Unload
  BY <1>1 DEF Unload, AgentInv, TypeOK, WorkerAt, ReaderOwes, MutexHeld, QueueSound,
     ListSound, LoadAt, UnloadAt
<1>2. CASE UnLoadScModule
  <2>1. worker.i \in DOMAIN m_ScModuleList
    BY <1>2, LenProperties DEF UnLoadScModule, AgentInv, TypeOK
  <2>2. m_ScModuleList[worker.i].dwModuleID \in Modules
    BY <2>1, EntryType DEF AgentInv
  <2>3. TypeOK'
    BY <1>2, <2>2 DEF UnLoadScModule, AgentInv, TypeOK, WorkerAt, Ids, LifeStates
  <2>4. worker.at = "next" /\ worker'.at \in {"unloading", "free"}
    BY <1>2 DEF UnLoadScModule, AgentInv, TypeOK
  <2>5. ReaderOwes' /\ MutexHeld' /\ QueueSound' /\ ListSound'
    BY <1>2, <2>4 DEF UnLoadScModule, AgentInv, ReaderOwes, MutexHeld, QueueSound,
       ListSound, LoadAt, UnloadAt
  <2> QED  BY <2>3, <2>5 DEF AgentInv
<1>3. CASE UnloadStopped
  BY <1>3 DEF UnloadStopped, AgentInv, TypeOK, WorkerAt, ReaderOwes, MutexHeld,
     QueueSound, ListSound, LoadAt, UnloadAt
<1>4. CASE FreeScModule
  <2>1. TypeOK'
    <3>1. worker' \in [at : WorkerAt, m : Ids, todo : SUBSET Modules, i : Nat \ {0}]
      <4>1. worker \in [at : WorkerAt, m : Ids, todo : SUBSET Modules, i : Nat \ {0}]
        BY DEF AgentInv, TypeOK
      <4>2. worker.i + 1 \in Nat \ {0} /\ "next" \in WorkerAt
        BY <4>1 DEF WorkerAt
      <4>3. worker' = [worker EXCEPT !.at = "next", !.i = worker.i + 1]
        BY <1>4 DEF FreeScModule
      <4> QED  BY <4>1, <4>2, <4>3
    <3>2. life' \in [Modules -> LifeStates] /\ tasked' \in [Modules -> BOOLEAN]
      BY <1>4 DEF FreeScModule, AgentInv, TypeOK, LifeStates
    <3> QED  BY <1>4, <3>1, <3>2 DEF FreeScModule, AgentInv, TypeOK
  <2>2. worker.at = "free" /\ worker'.at = "next"
    BY <1>4 DEF FreeScModule, AgentInv, TypeOK
  <2>3. ReaderOwes' /\ MutexHeld' /\ QueueSound' /\ ListSound'
    BY <1>4, <2>2 DEF FreeScModule, AgentInv, ReaderOwes, MutexHeld, QueueSound,
       ListSound, LoadAt, UnloadAt
  <2> QED  BY <2>1, <2>3 DEF AgentInv
<1>5. CASE UnloadEnds
  <2>1. m_ScModuleList' = <<>> /\ <<>> \in Seq(Entries) /\ DOMAIN <<>> = {}
    BY <1>5, EmptySeq DEF UnloadEnds
  <2>2. TypeOK'
    BY <1>5, <2>1 DEF UnloadEnds, AgentInv, TypeOK, WorkerAt
  <2>3. worker.at = "next" /\ worker'.at = "pop" /\ mtx = "worker"
    BY <1>5 DEF UnloadEnds, AgentInv, TypeOK, MutexHeld, UnloadAt
  <2>4. ReaderOwes' /\ MutexHeld' /\ QueueSound' /\ ListSound'
    BY <1>5, <2>1, <2>3 DEF UnloadEnds, AgentInv, ReaderOwes, MutexHeld, QueueSound,
       ListSound, LoadAt, UnloadAt
  <2> QED  BY <2>2, <2>4 DEF AgentInv
<1> QED  BY <1>1, <1>2, <1>3, <1>4, <1>5

\* Every step of every thread keeps the inductive invariant.
LEMMA NextInv ==
  ASSUME AgentInv, [Next]_vars
  PROVE  AgentInv'
<1>1. CASE UNCHANGED vars
  BY <1>1 DEF vars, AgentInv, TypeOK, ReaderOwes, MutexHeld, ListSound, QueueSound
<1>2. CASE Worker
  BY <1>2, WorkerQueueInv, WorkerCommandInv, WorkerLoadInv, WorkerUnloadInv DEF Worker
<1> QED
  BY <1>1, <1>2, ReaderInv, BeatInv, PluginInv, QuitInv DEF Next

\* The inductive invariant holds: the types, the place of the mutex, what the
\* module list names and what the request list holds.
THEOREM AgentSafe == Spec => []AgentInv
<1>1. Init => AgentInv
  BY InitInv
<1>2. AgentInv /\ [Next]_vars => AgentInv'
  BY NextInv
<1> QED  BY <1>1, <1>2, PTL DEF Spec

\* The management server is never left without an answer (Reader).
THEOREM AnswerSafe == Spec => []Answered
<1>1. AgentInv => Answered
  BY DEF AgentInv, ReaderOwes, Answered
<1> QED  BY <1>1, AgentSafe, PTL

\* The heartbeat asks only modules in memory for their state
\* (GetModuleStateString against Unload).
THEOREM ListSafe == Spec => []ListedAreLoaded
<1>1. AgentInv => ListedAreLoaded
  BY DEF AgentInv, MutexHeld, ListSound, ListedAreLoaded
<1> QED  BY <1>1, AgentSafe, PTL

-----------------------------------------------------------------------------
\* A request pushed by the Reader waits behind the others.
LEMMA PushPuts ==
  ASSUME AgentInv, ReaderPush
  PROVE  RequestQueue!Put(reader.req)
<1>1. /\ m_listreq \in Seq(Requests) /\ reader.req \in Requests
      /\ m_listreq' = Append(m_listreq, reader.req)
      /\ UNCHANGED <<worker, up, executed>>
  BY DEF AgentInv, TypeOK, ReaderPush, readerFrame
<1>2. Len(m_listreq) < MaxRequests
  BY AgentAssumption DEF AgentInv, TypeOK, QueueSound, ReaderPush
<1>3. CASE worker.at = "look" \/ ~up
  BY <1>1, <1>2, <1>3 DEF Waiting, RequestQueue!Put
<1>4. CASE ~(worker.at = "look" \/ ~up)
  <2>1. m_listreq # <<>>
    BY <1>4 DEF AgentInv, QueueSound
  <2>2. /\ Tail(m_listreq') = Append(Tail(m_listreq), reader.req)
        /\ Len(Tail(m_listreq)) < Len(m_listreq)
    BY <1>1, <2>1
  <2>3. Len(Tail(m_listreq)) < MaxRequests
    BY <1>1, <1>2, <2>1, <2>2, AgentAssumption
  <2> QED  BY <1>1, <1>4, <2>2, <2>3 DEF Waiting, RequestQueue!Put
<1> QED  BY <1>3, <1>4

\* The Worker takes the request at the front, and leaves it there until it is
\* executed.
LEMMA LookTakes ==
  ASSUME AgentInv, WorkerLook
  PROVE  RequestQueue!Take
<1>1. worker.at = "look" /\ m_listreq # <<>> /\ up
  BY DEF WorkerLook, AgentInv, QueueSound
<1>2. worker'.at # "look" /\ up' = up
  BY DEF WorkerLook, WorkerIdle, Entry, workerFrame
<1>3. executed' = Append(executed, Head(m_listreq)) /\ m_listreq' = m_listreq
  BY DEF WorkerLook
<1> QED  BY <1>1, <1>2, <1>3 DEF Waiting, RequestQueue!Take

\* No other step of any thread touches the queue that RequestsInOrder sees.
LEMMA OthersStutter ==
  ASSUME AgentInv, [Next]_vars, ~ReaderPush, ~WorkerLook
  PROVE  UNCHANGED <<Waiting, executed>>
<1>1. CASE UNCHANGED vars
  BY <1>1 DEF vars, Waiting
<1>2. CASE Reader
  BY <1>2 DEF Reader, ReaderRecv, ReaderRefuse, ReaderEmpty, ReaderReply, readerFrame,
     Waiting
<1>3. CASE HeartBeatSend \/ HeartBeatRecv
  BY <1>3 DEF HeartBeatSend, HeartBeatRecv, BeatBegin, BeatLock, BeatModule,
     BeatUnlock, BeatSend, beatFrame, Waiting
<1>4. CASE \E m \in Modules : Plugin(m) \/ PluginQuits(m)
  BY <1>4 DEF Plugin, PluginQuits, pluginFrame, Waiting
<1>5. CASE WorkerPop
  <2>1. up /\ worker.at = "pop" /\ worker'.at = "look" /\ up' = up
    BY <1>5 DEF WorkerPop, WorkerIdle, workerFrame, AgentInv, QueueSound, LoadAt
  <2> QED  BY <1>5, <2>1 DEF WorkerPop, Waiting
<1>6. CASE LoadEnds
  <2>1. CASE up
    BY <1>6, <2>1 DEF LoadEnds, WorkerTo, AgentInv, TypeOK, Waiting
  <2>2. CASE ~up
    BY <1>6, <2>2 DEF LoadEnds, WorkerTo, AgentInv, TypeOK, Waiting
  <2> QED  BY <2>1, <2>2
<1>7. CASE /\ Worker /\ ~WorkerPop /\ ~LoadEnds
  <2>1. worker.at # "look" /\ worker'.at # "look"
    BY <1>7 DEF Worker, WorkerTo, AgentInv, TypeOK, SetModuleData, StartModule,
       StartReturns, StartFails, StopModule, StopReturns, StartModuleTask, LoadModule,
       AutoStart, AutoStarted, Discard, AddScModule, Unload, UnLoadScModule,
       UnloadStopped, FreeScModule, UnloadEnds
  <2>2. UNCHANGED <<m_listreq, executed, up>>
    BY <1>7 DEF Worker, SetModuleData, StartModule, workerFrame,
       StartReturns, StartFails, StopModule, StopReturns, StartModuleTask, LoadModule,
       AutoStart, AutoStarted, Discard, AddScModule, Unload, UnLoadScModule,
       UnloadStopped, FreeScModule, UnloadEnds
  <2> QED  BY <2>1, <2>2 DEF Waiting
<1> QED  BY <1>1, <1>2, <1>3, <1>4, <1>5, <1>6, <1>7 DEF Next, Worker

\* Reader and Worker implement a queue: requests are executed once, in the order
\* in which they were received.
THEOREM QueueCorrect == Spec => RequestsInOrder
<1>1. Init => RequestQueue!Init
  BY DEF Init, RequestQueue!Init, Waiting
<1>2. AgentInv /\ [Next]_vars => [RequestQueue!Next]_<<Waiting, executed>>
  <2> SUFFICES ASSUME AgentInv, [Next]_vars
               PROVE  [RequestQueue!Next]_<<Waiting, executed>>
    OBVIOUS
  <2>1. CASE ReaderPush
    <3>1. reader.req \in Requests
      BY DEF AgentInv, TypeOK
    <3> QED  BY <2>1, <3>1, PushPuts DEF RequestQueue!Next
  <2>2. CASE WorkerLook
    BY <2>2, LookTakes DEF RequestQueue!Next
  <2>3. CASE ~ReaderPush /\ ~WorkerLook
    BY <2>3, OthersStutter
  <2> QED  BY <2>1, <2>2, <2>3
<1> QED
  BY <1>1, <1>2, AgentSafe, PTL DEF Spec, RequestsInOrder, RequestQueue!Spec,
     RequestQueue!queueVars
=============================================================================
