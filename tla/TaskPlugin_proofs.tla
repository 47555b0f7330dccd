---------------------------- MODULE TaskPlugin_proofs ----------------------------
(***************************************************************************)
(* Proofs about TaskPlugin, for all of its plugins, any number of policies *)
(* and handler threads, any times, and threads of any speed.               *)
(***************************************************************************)
EXTENDS TaskPlugin, SequenceTheorems, TLAPS

HandlerState == [at : HandlerAt, p : 1 .. 2 * NPolicies, since : Minutes]

(* The shares of the handlers *)

LEMMA PoolType ==
  ASSUME TypeOK
  PROVE  /\ m_pthreadnum \in Nat \ {0} /\ m_pthreadnum <= NPolicies
         /\ Pool \subseteq Policies /\ NPolicies \in Nat \ {0}
         /\ handlers \in [Pool -> HandlerState]
<1>1. m_pthreadnum \in 1 .. NPolicies /\ NPolicies \in Nat \ {0}
  BY TaskAssumption DEF TypeOK
<1>2. handlers \in [Pool -> HandlerState]
  BY DEF TypeOK, HandlerState
<1>3. Pool \subseteq Policies
  BY <1>1 DEF Pool, Policies
<1> QED  BY <1>1, <1>2, <1>3

LEMMA ShareBegins ==
  ASSUME TypeOK, NEW h \in Pool
  PROVE  IsOf(h, h)
<1>1. h \in Nat /\ 0 \in 0 .. h /\ h = h + 0 * m_pthreadnum
  BY PoolType DEF Policies
<1> QED  BY <1>1 DEF IsOf

LEMMA ShareGoesOn ==
  ASSUME TypeOK, NEW h \in Pool, NEW p \in Nat, IsOf(p, h)
  PROVE  IsOf(p + m_pthreadnum, h)
<1>1. PICK k \in 0 .. p : p = h + k * m_pthreadnum
  BY DEF IsOf
<1>2. m_pthreadnum \in Nat \ {0} /\ h \in Nat
  BY PoolType DEF Policies
<1>3. (k + 1) * m_pthreadnum = k * m_pthreadnum + m_pthreadnum
  BY <1>2
<1>4. k * m_pthreadnum \in Int
  BY <1>2
<1>5. p + m_pthreadnum = h + (k + 1) * m_pthreadnum
  BY <1>1, <1>2, <1>3, <1>4
<1>6. k + 1 \in 0 .. p + m_pthreadnum
  BY <1>2
<1> QED  BY <1>5, <1>6 DEF IsOf

\* No policy is in the shares of two handlers.
LEMMA ShareUnique ==
  ASSUME TypeOK, NEW g \in Pool, NEW h \in Pool, NEW p \in Nat, IsOf(p, g), IsOf(p, h)
  PROVE  g = h
<1>1. m_pthreadnum \in Nat \ {0} /\ g \in 1 .. m_pthreadnum /\ h \in 1 .. m_pthreadnum
  BY PoolType DEF Pool
<1> DEFINE m == m_pthreadnum
<1>2. PICK k \in Nat : p = g + k * m
  BY DEF IsOf
<1>3. PICK l \in Nat : p = h + l * m
  BY DEF IsOf
<1>4. k * m \in Nat /\ l * m \in Nat /\ m \in Nat \ {0}
  BY <1>1
<1>5. \A i, j \in Nat : i < j => j * m >= i * m + m
  <2> SUFFICES ASSUME NEW i \in Nat, NEW j \in Nat, i < j
               PROVE  j * m >= i * m + m
    OBVIOUS
  <2>1. j - i - 1 \in Nat
    OBVIOUS
  <2>2. (j - i - 1) * m \in Nat
    BY <1>4, <2>1
  <2>3. j * m = i * m + m + (j - i - 1) * m
    BY <1>4
  <2>4. i * m \in Nat /\ j * m \in Nat
    BY <1>4
  <2> HIDE DEF m
  <2> QED  BY <1>4, <2>2, <2>3, <2>4
<1>6. g = h + l * m - k * m
  BY <1>1, <1>2, <1>3, <1>4
<1>7. ~(k < l) /\ ~(l < k)
  BY <1>1, <1>4, <1>5, <1>6
<1>8. k = l
  BY <1>7
<1> QED  BY <1>1, <1>4, <1>6, <1>8

-----------------------------------------------------------------------------
(* The steps of a handler *)

\* A handler that moves on within its share keeps the shares apart and changes which
\* policies are being stored or marked only as it leaves one and comes to another.
LEMMA Moves ==
  ASSUME HandoffInv, NEW h \in Pool, NEW place \in HandlerAt, NEW q \in 1 .. 2 * NPolicies,
         NEW s \in Minutes, IsOf(q, h), place \in {"store", "mark", "rest"} => q \in Policies,
         ~At(h, "gone"),
         handlers' = [handlers EXCEPT ![h] = [at |-> place, p |-> q, since |-> s]],
         UNCHANGED handlerFrame
  PROVE  /\ SharesKept' /\ SaysStopped' /\ handlers' \in [Pool -> HandlerState]
         /\ \A r \in Policies :
              /\ Storing(r)' <=> (place = "store" /\ q = r)
                                 \/ (Storing(r) /\ ~IsAt(h, "store", r))
              /\ Marking(r)' <=> (place = "mark" /\ q = r)
                                 \/ (Marking(r) /\ ~IsAt(h, "mark", r))
<1>1. TypeOK /\ SharesKept /\ SaysStopped
  BY DEF HandoffInv
<1>2. m_pthreadnum' = m_pthreadnum /\ Pool' = Pool /\ kind' = kind
      /\ m_bIsRunning' = m_bIsRunning
  BY DEF handlerFrame, policyVars, Pool
<1>3. handlers \in [Pool -> HandlerState] /\ Policies \subseteq Nat
      /\ m_pthreadnum \in Nat \ {0} /\ Pool \subseteq Nat
  BY <1>1, PoolType DEF Policies
<1>4. [at |-> place, p |-> q, since |-> s] \in HandlerState
  BY DEF HandlerState
<1>5. handlers' \in [Pool -> HandlerState]
  BY <1>3, <1>4
<1>6. /\ handlers'[h].at = place /\ handlers'[h].p = q
      /\ \A g \in Pool : g # h => handlers'[g] = handlers[g]
  BY <1>3
<1>7. \A g \in Pool : handlers[g].p \in Nat /\ handlers'[g].p \in Nat
  BY <1>3, <1>5 DEF HandlerState
<1>8. SharesKept'
  <2>1. \A g \in Pool : IsOf(handlers'[g].p, g)
    BY <1>1, <1>6 DEF SharesKept
  <2>2. \A g \in Pool : IsOf(handlers[g].p, g)'
    BY <1>2, <2>1 DEF IsOf
  <2>3. \A g \in Pool : handlers'[g].at \in {"store", "mark", "rest"}
                          => handlers'[g].p \in Policies
    BY <1>1, <1>6 DEF SharesKept
  <2>4. \A f, g \in Pool : handlers'[f].p = handlers'[g].p => f = g
    BY <1>1, <1>7, <2>1, ShareUnique
  <2> QED  BY <1>2, <2>2, <2>3, <2>4 DEF SharesKept, Policies
<1>9. SaysStopped'
  BY <1>1, <1>2 DEF SaysStopped, At
<1>10. \A f, g \in Pool : handlers[f].p = handlers[g].p => f = g
  BY <1>1 DEF SharesKept
<1>11. ASSUME NEW r \in Policies
       PROVE  /\ Storing(r)' <=> (place = "store" /\ q = r)
                                 \/ (Storing(r) /\ ~IsAt(h, "store", r))
              /\ Marking(r)' <=> (place = "mark" /\ q = r)
                                 \/ (Marking(r) /\ ~IsAt(h, "mark", r))
  <2>1. Storing(r)' <=> \E g \in Pool : handlers'[g].at = "store" /\ handlers'[g].p = r
    BY <1>2 DEF Storing, IsAt, At
  <2>2. Marking(r)' <=> \E g \in Pool : handlers'[g].at = "mark" /\ handlers'[g].p = r
    BY <1>2 DEF Marking, IsAt, At
  <2>3. Storing(r)' <=> (place = "store" /\ q = r)
                        \/ (Storing(r) /\ ~IsAt(h, "store", r))
    BY <1>6, <1>10, <2>1 DEF Storing, IsAt, At
  <2> QED  BY <1>6, <1>10, <2>2, <2>3 DEF Marking, IsAt, At
<1> QED  BY <1>5, <1>8, <1>9, <1>11

\* Which handler is at a policy where something is stored or marked.
LEMMA AtPolicy ==
  ASSUME SharesKept, NEW h \in Pool, NEW p, handlers[h].p = p
  PROVE  /\ Storing(p) <=> At(h, "store")
         /\ Marking(p) <=> At(h, "mark")
BY DEF SharesKept, Storing, Marking, IsAt, At

\* A step that touches no result and no flag, and brings no handler and no report to a
\* policy, keeps what relates them.
LEMMA QuietStep ==
  ASSUME HandoffInv, UNCHANGED <<policyVars, taskVars, m_mapFinished, m_mapReported, tried>>,
         \A r \in Policies : (Storing(r)' <=> Storing(r)) /\ (Marking(r)' <=> Marking(r)),
         \/ reporter' = reporter
         \/ {reporter.at, reporter'.at} \subseteq {"scan", "alive", "gone"}
  PROVE  FlagsSound' /\ ResultsSound' /\ OnceSound'
<1>1. FlagsSound /\ ResultsSound /\ OnceSound
  BY DEF HandoffInv
<1>3. FlagsSound'
  BY <1>1 DEF FlagsSound, policyVars, Policies
<1>4. ASSUME NEW r \in Policies
      PROVE  /\ ReporterAtPolicy({"stop", "reset"}, r)'
                  <=> ReporterAtPolicy({"stop", "reset"}, r)
             /\ ReporterAtPolicy({"reset", "once"}, r)'
                  <=> ReporterAtPolicy({"reset", "once"}, r)
             /\ ReporterAtPolicy({"send"}, r)' <=> ReporterAtPolicy({"send"}, r)
  BY DEF ReporterAtPolicy
<1>5. ResultsSound'
  BY <1>1, <1>4 DEF ResultsSound, Waits, policyVars, taskVars, Policies
<1>6. OnceSound'
  BY <1>1, <1>4 DEF OnceSound, policyVars, taskVars, Policies
<1> QED  BY <1>3, <1>5, <1>6


\* What the steps of a handler need to know of it.
LEMMA HandlerPlace ==
  ASSUME HandoffInv, NEW h \in Pool
  PROVE  /\ handlers[h].at \in HandlerAt /\ handlers[h].p \in 1 .. 2 * NPolicies
         /\ handlers[h].p \in Nat /\ IsOf(handlers[h].p, h) /\ IsOf(h, h)
         /\ h \in 1 .. 2 * NPolicies /\ h \in Policies /\ 0 \in Minutes /\ minute \in Minutes
         /\ handlers[h].p <= NPolicies =>
              /\ handlers[h].p \in Policies
              /\ IsOf(handlers[h].p + m_pthreadnum, h)
              /\ handlers[h].p + m_pthreadnum \in 1 .. 2 * NPolicies
<1>1. TypeOK /\ SharesKept
  BY DEF HandoffInv
<1>2. handlers[h] \in HandlerState /\ h \in Policies /\ m_pthreadnum \in Nat \ {0}
      /\ m_pthreadnum <= NPolicies /\ NPolicies \in Nat \ {0}
  BY <1>1, PoolType
<1>3. handlers[h].at \in HandlerAt /\ handlers[h].p \in 1 .. 2 * NPolicies
  BY <1>2 DEF HandlerState
<1>4. IsOf(handlers[h].p, h) /\ IsOf(h, h)
  BY <1>1, ShareBegins DEF SharesKept
<1>5. h \in 1 .. 2 * NPolicies
  BY <1>2 DEF Policies
<1>6. 0 \in Minutes /\ minute \in Minutes
  BY <1>1, TaskAssumption DEF Minutes, TypeOK
<1>7. handlers[h].p \in Nat
  BY <1>2, <1>3
<1>8. ASSUME handlers[h].p <= NPolicies
      PROVE  /\ handlers[h].p \in Policies
             /\ handlers[h].p + m_pthreadnum \in 1 .. 2 * NPolicies
  BY <1>2, <1>3, <1>8 DEF Policies
<1> QED  BY <1>1, <1>2, <1>3, <1>4, <1>5, <1>6, <1>7, <1>8, ShareGoesOn

\* A handler's step that touches no result and no flag.
LEMMA QuietMove ==
  ASSUME HandoffInv, NEW h \in Pool, NEW place \in HandlerAt, NEW q \in 1 .. 2 * NPolicies,
         NEW s \in Minutes, IsOf(q, h), place = "rest" => q \in Policies,
         place \notin {"store", "mark"}, handlers[h].at \notin {"store", "mark", "gone"},
         handlers' = [handlers EXCEPT ![h] = [at |-> place, p |-> q, since |-> s]],
         UNCHANGED <<handlerFrame, taskVars, m_mapFinished>>
  PROVE  HandoffInv'
<1>1. /\ SharesKept' /\ SaysStopped' /\ handlers' \in [Pool -> HandlerState]
      /\ \A r \in Policies : (Storing(r)' <=> Storing(r)) /\ (Marking(r)' <=> Marking(r))
  BY Moves DEF IsAt, At
<1>2. FlagsSound' /\ ResultsSound' /\ OnceSound'
  BY <1>1, QuietStep DEF handlerFrame
<1>3. TypeOK'
  BY <1>1 DEF HandoffInv, TypeOK, handlerFrame, policyVars, taskVars, HandlerState, Pool
<1> QED  BY <1>1, <1>2, <1>3 DEF HandoffInv

LEMMA LoopsKeep ==
  ASSUME HandoffInv, NEW h \in Pool, HandlerLoops(h)
  PROVE  HandoffInv'
<1>1. h \in 1 .. 2 * NPolicies /\ IsOf(h, h) /\ 0 \in Minutes /\ h \in Policies
  BY HandlerPlace
<1> DEFINE place == IF b_state[h] THEN "pass" ELSE "gone"
<1>2. place \in HandlerAt /\ place \notin {"store", "mark", "rest"}
  BY DEF HandlerAt
<1>3. handlers[h].at \notin {"store", "mark", "gone"}
      /\ handlers' = [handlers EXCEPT ![h] = [at |-> place, p |-> h, since |-> 0]]
      /\ UNCHANGED <<handlerFrame, taskVars, m_mapFinished>>
  BY DEF HandlerLoops, At, HandlerTo
<1> HIDE DEF place
<1> QED  BY <1>1, <1>2, <1>3, QuietMove

LEMMA SkipsKeep ==
  ASSUME HandoffInv, NEW h \in Pool, HandlerSkips(h)
  PROVE  HandoffInv'
<1> DEFINE p == handlers[h].p
<1>1. /\ p <= NPolicies /\ handlers[h].at \notin {"store", "mark", "gone"}
      /\ UNCHANGED <<handlerFrame, taskVars, m_mapFinished>>
  BY DEF HandlerSkips, At
<1>2. \/ handlers' = [handlers EXCEPT ![h] = [at |-> "rest", p |-> p, since |-> 0]]
      \/ handlers' =
           [handlers EXCEPT ![h] = [at |-> "pass", p |-> p + m_pthreadnum, since |-> 0]]
  BY DEF HandlerSkips, HandlerTo
<1>3. /\ p \in 1 .. 2 * NPolicies /\ IsOf(p, h) /\ p \in Policies /\ 0 \in Minutes
      /\ p + m_pthreadnum \in 1 .. 2 * NPolicies /\ IsOf(p + m_pthreadnum, h)
  BY <1>1, HandlerPlace
<1>4. {"rest", "pass"} \subseteq HandlerAt
  BY DEF HandlerAt
<1> HIDE DEF p
<1> QED  BY <1>1, <1>2, <1>3, <1>4, QuietMove

LEMMA RestsKeep ==
  ASSUME HandoffInv, NEW h \in Pool, HandlerRests(h)
  PROVE  HandoffInv'
<1> DEFINE p == handlers[h].p
<1>1. /\ handlers[h].at = "rest" /\ UNCHANGED <<handlerFrame, taskVars, m_mapFinished>>
  BY DEF HandlerRests, At
<1>2. \/ handlers' = [handlers EXCEPT ![h] = [at |-> "nap", p |-> h, since |-> minute]]
      \/ handlers' =
           [handlers EXCEPT ![h] = [at |-> "pass", p |-> p + m_pthreadnum, since |-> 0]]
  BY DEF HandlerRests, HandlerTo, HandlerNaps
<1>3. p \in Policies /\ NPolicies \in Nat
  BY <1>1, TaskAssumption DEF HandoffInv, SharesKept
<1>4. p <= NPolicies
  BY <1>3 DEF Policies
<1>5. /\ h \in 1 .. 2 * NPolicies /\ IsOf(h, h) /\ 0 \in Minutes /\ minute \in Minutes
      /\ p + m_pthreadnum \in 1 .. 2 * NPolicies /\ IsOf(p + m_pthreadnum, h)
  BY <1>4, HandlerPlace
<1>6. {"nap", "pass"} \subseteq HandlerAt
  BY DEF HandlerAt
<1> HIDE DEF p
<1>7. CASE handlers' = [handlers EXCEPT ![h] = [at |-> "nap", p |-> h, since |-> minute]]
  BY <1>1, <1>5, <1>6, <1>7, QuietMove
<1>8. CASE handlers' =
             [handlers EXCEPT ![h] = [at |-> "pass", p |-> p + m_pthreadnum, since |-> 0]]
  BY <1>1, <1>5, <1>6, <1>8, QuietMove
<1> QED  BY <1>2, <1>7, <1>8

LEMMA EndsPassKeeps ==
  ASSUME HandoffInv, NEW h \in Pool, HandlerEndsPass(h)
  PROVE  HandoffInv'
<1>1. /\ handlers[h].at = "pass" /\ UNCHANGED <<handlerFrame, taskVars, m_mapFinished>>
  BY DEF HandlerEndsPass, At
<1>2. \/ handlers' = [handlers EXCEPT ![h] = [at |-> "nap", p |-> h, since |-> minute]]
      \/ handlers' = [handlers EXCEPT ![h] = [at |-> "while", p |-> h, since |-> 0]]
  BY DEF HandlerEndsPass, HandlerTo, HandlerNaps
<1>3. h \in 1 .. 2 * NPolicies /\ IsOf(h, h) /\ 0 \in Minutes /\ minute \in Minutes
  BY HandlerPlace
<1>4. {"nap", "while"} \subseteq HandlerAt
  BY DEF HandlerAt
<1> QED  BY <1>1, <1>2, <1>3, <1>4, QuietMove

LEMMA WakesKeep ==
  ASSUME HandoffInv, NEW h \in Pool, HandlerWakes(h)
  PROVE  HandoffInv'
<1>1. /\ handlers[h].at = "nap" /\ UNCHANGED <<handlerFrame, taskVars, m_mapFinished>>
      /\ handlers' = [handlers EXCEPT ![h] = [at |-> "while", p |-> h, since |-> 0]]
  BY DEF HandlerWakes, At, HandlerTo
<1>2. h \in 1 .. 2 * NPolicies /\ IsOf(h, h) /\ 0 \in Minutes /\ "while" \in HandlerAt
  BY HandlerPlace DEF HandlerAt
<1> QED  BY <1>1, <1>2, QuietMove


\* A run of a task, with a result to store or without.
LEMMA RunsKeep ==
  ASSUME HandoffInv, NEW h \in Pool, HandlerRuns(h)
  PROVE  HandoffInv'
<1> DEFINE p == handlers[h].p
<1>1. /\ handlers[h].at = "pass" /\ p <= NPolicies /\ Wanted(p)
      /\ runs' = [runs EXCEPT ![p] = @ + 1] /\ ranAt' = [ranAt EXCEPT ![p] = minute]
      /\ UNCHANGED <<handlerFrame, m_mapResult, made, m_mapFinished>>
  BY DEF HandlerRuns, At
<1>2. PICK place \in {"store", "rest"} :
        /\ handlers' = [handlers EXCEPT ![h] = [at |-> place, p |-> p, since |-> 0]]
        /\ place = "rest" => kind \in Silent
  BY DEF HandlerRuns, HandlerTo
<1>3. p \in 1 .. 2 * NPolicies /\ IsOf(p, h) /\ p \in Policies /\ 0 \in Minutes
      /\ minute \in Minutes
  BY <1>1, HandlerPlace
<1>4. TypeOK /\ SharesKept /\ FlagsSound /\ ResultsSound /\ OnceSound
  BY DEF HandoffInv
<1>5. place \in HandlerAt
  BY <1>2 DEF HandlerAt
<1> HIDE DEF p
<1>6. /\ SharesKept' /\ SaysStopped' /\ handlers' \in [Pool -> HandlerState]
      /\ \A r \in Policies :
           /\ Storing(r)' <=> (place = "store" /\ p = r) \/ Storing(r)
           /\ Marking(r)' <=> Marking(r)
  BY <1>1, <1>2, <1>3, <1>5, Moves DEF IsAt, At
<1>7. /\ runs \in [Policies -> 0 .. MaxRuns] /\ runs[p] < MaxRuns /\ runs[p] \in Nat
      /\ MaxRuns \in Nat
  BY <1>1, <1>3, <1>4, TaskAssumption DEF TypeOK, Wanted
<1>8. runs' \in [Policies -> 0 .. MaxRuns] /\ runs'[p] = runs[p] + 1
      /\ \A r \in Policies : r # p => runs'[r] = runs[r]
  <2>1. runs[p] + 1 \in 0 .. MaxRuns
    BY <1>7
  <2> QED  BY <1>1, <1>3, <1>7, <2>1
<1>9. ranAt' \in [Policies -> Minutes \union {Never}]
  BY <1>1, <1>3, <1>4 DEF TypeOK
<1>10. TypeOK'
  BY <1>1, <1>4, <1>6, <1>8, <1>9
     DEF TypeOK, handlerFrame, policyVars, HandlerState, Pool
<1>11. /\ kind' = kind /\ bOnce' = bOnce /\ reporter' = reporter /\ tried' = tried
       /\ made' = made /\ m_mapResult' = m_mapResult /\ m_mapFinished' = m_mapFinished
       /\ m_mapReported' = m_mapReported
  BY <1>1 DEF handlerFrame, policyVars
<1>12. kind \in Gated => ~m_mapFinished[p]
  BY <1>1 DEF Wanted
<1>13. ~Storing(p) /\ ~Marking(p)
  BY <1>1, <1>4, AtPolicy DEF At, p
<1>14. FlagsSound'
  BY <1>4, <1>6, <1>11, <1>12 DEF FlagsSound
<1>15. \A r \in Policies : runs[r] \in Nat
  BY <1>7
<1>16. \A r \in Policies : Waits(r)' <=> Waits(r)
  BY <1>6, <1>11 DEF Waits, ReporterAtPolicy
<1>17. ResultsSound'
  BY <1>4, <1>6, <1>7, <1>8, <1>11, <1>16 DEF ResultsSound
<1>18. kind \in Scheduled => place = "store"
  BY <1>2 DEF Silent, Scheduled
<1>19. ASSUME NEW r \in Policies, kind \in Scheduled, bOnce[r]
       PROVE  runs'[r] = Len(made[r]) + (IF Storing(r)' THEN 1 ELSE 0)
  <2>1. runs[r] = Len(made[r]) + (IF Storing(r) THEN 1 ELSE 0)
    BY <1>4, <1>19 DEF OnceSound
  <2>2. made[r] \in Seq(1 .. MaxRuns)
    BY <1>4 DEF TypeOK
  <2>3. Len(made[r]) \in Nat
    BY <2>2
  <2>4. CASE r = p
    <3>1. Storing(r)' /\ ~Storing(r)
      BY <1>6, <1>13, <1>18, <1>19, <2>4
    <3> QED  BY <1>8, <2>1, <2>3, <2>4, <3>1
  <2>5. CASE r # p
    BY <1>6, <1>8, <2>1, <2>5
  <2> QED  BY <2>4, <2>5
<1>20. OnceSound'
  BY <1>4, <1>11, <1>19 DEF OnceSound, ReporterAtPolicy
<1> QED  BY <1>6, <1>10, <1>14, <1>17, <1>20 DEF HandoffInv

\* The result is stored: it waits from now on.
LEMMA StoresKeep ==
  ASSUME HandoffInv, NEW h \in Pool, HandlerStores(h)
  PROVE  HandoffInv'
<1> DEFINE p == handlers[h].p
<1>1. /\ handlers[h].at = "store"
      /\ m_mapResult' = [m_mapResult EXCEPT ![p] = runs[p]]
      /\ made' = [made EXCEPT ![p] = Noted(@, runs[p])]
      /\ handlers' = [handlers EXCEPT ![h] = [at |-> "mark", p |-> p, since |-> 0]]
      /\ UNCHANGED <<handlerFrame, runs, ranAt, m_mapFinished>>
  BY DEF HandlerStores, At, HandlerTo
<1>2. TypeOK /\ SharesKept /\ FlagsSound /\ ResultsSound /\ OnceSound
  BY DEF HandoffInv
<1>3. p \in 1 .. 2 * NPolicies /\ IsOf(p, h) /\ 0 \in Minutes
  BY HandlerPlace
<1>4. p \in Policies
  BY <1>1, <1>2 DEF SharesKept
<1>5. Storing(p) /\ ~Marking(p)
  BY <1>1, <1>2, AtPolicy DEF At
<1>6. "mark" \in HandlerAt
  BY DEF HandlerAt
<1>7. handlers[h].p = p
  OBVIOUS
<1> HIDE DEF p
<1>8. /\ SharesKept' /\ SaysStopped' /\ handlers' \in [Pool -> HandlerState]
      /\ \A r \in Policies :
           /\ Storing(r)' <=> Storing(r) /\ r # p
           /\ Marking(r)' <=> p = r \/ Marking(r)
  <2>1. /\ SharesKept' /\ SaysStopped' /\ handlers' \in [Pool -> HandlerState]
        /\ \A r \in Policies :
             /\ Storing(r)' <=> Storing(r) /\ ~IsAt(h, "store", r)
             /\ Marking(r)' <=> p = r \/ (Marking(r) /\ ~IsAt(h, "mark", r))
    BY <1>1, <1>3, <1>4, <1>6, Moves DEF At
  <2> QED  BY <1>1, <1>7, <2>1 DEF IsAt, At
<1>9. runs[p] \in 1 .. MaxRuns
  <2>1. runs[p] >= 1 /\ runs[p] \in 0 .. MaxRuns
    BY <1>2, <1>4, <1>5 DEF ResultsSound, TypeOK
  <2> QED  BY <2>1
<1>10. made \in [Policies -> Seq(1 .. MaxRuns)]
  BY <1>2 DEF TypeOK
<1>11. Noted(made[p], runs[p]) \in Seq(1 .. MaxRuns)
  <2>1. made[p] \in Seq(1 .. MaxRuns)
    BY <1>4, <1>10
  <2>2. Append(made[p], runs[p]) \in Seq(1 .. MaxRuns)
    BY <1>9, <2>1
  <2>3. <<runs[p]>> \in Seq(1 .. MaxRuns)
    BY <1>9
  <2> QED  BY <2>2, <2>3 DEF Noted
<1>12. made' \in [Policies -> Seq(1 .. MaxRuns)]
  BY <1>1, <1>4, <1>10, <1>11
<1>13. m_mapResult \in [Policies -> 0 .. MaxRuns] /\ runs[p] \in 0 .. MaxRuns
  BY <1>2, <1>4 DEF TypeOK
<1>14. m_mapResult' \in [Policies -> 0 .. MaxRuns]
  BY <1>1, <1>4, <1>13
<1>15. TypeOK'
  BY <1>1, <1>2, <1>8, <1>12, <1>14
     DEF TypeOK, handlerFrame, policyVars, HandlerState, Pool
<1>16. /\ kind' = kind /\ bOnce' = bOnce /\ reporter' = reporter /\ tried' = tried
       /\ runs' = runs /\ m_mapFinished' = m_mapFinished /\ m_mapReported' = m_mapReported
  BY <1>1 DEF handlerFrame, policyVars
<1>17. /\ m_mapResult'[p] = runs[p] /\ made'[p] = Noted(made[p], runs[p])
       /\ \A r \in Policies : r # p => m_mapResult'[r] = m_mapResult[r] /\ made'[r] = made[r]
  BY <1>1, <1>4, <1>10, <1>13
<1>18. kind \in Gated => ~m_mapFinished[p]
  BY <1>2, <1>4, <1>5 DEF FlagsSound
<1>19. FlagsSound'
  BY <1>2, <1>8, <1>16, <1>18 DEF FlagsSound
<1>20. \A r \in Policies : r # p => (Waits(r)' <=> Waits(r))
  BY <1>8, <1>16 DEF Waits, ReporterAtPolicy
<1>21. kind \in Gated => made[p] = tried[p]
  BY <1>2, <1>4, <1>5, <1>18 DEF ResultsSound, Waits
<1>22. ASSUME NEW r \in Policies
       PROVE  /\ Storing(r)' => runs[r] >= 1
              /\ Marking(r)' \/ m_mapFinished[r] => m_mapResult'[r] >= 1
              /\ kind \in Gated =>
                   made'[r] = IF Waits(r)' THEN Append(tried[r], m_mapResult'[r]) ELSE tried[r]
  <2>1. CASE r = p
    <3>1. runs[p] >= 1 /\ ~Storing(r)'
      BY <1>8, <1>9, <2>1
    <3>2. m_mapResult'[r] = runs[p] /\ made'[r] = Noted(made[r], runs[p])
      BY <1>17, <2>1
    <3>3. kind \in Gated => made'[r] = Append(tried[r], m_mapResult'[r])
      BY <1>21, <2>1, <3>2 DEF Noted
    <3>4. Marking(r)'
      BY <1>8, <2>1
    <3>5. Waits(r)'
      BY <3>4 DEF Waits
    <3> QED  BY <3>1, <3>2, <3>3, <3>5
  <2>2. CASE r # p
    BY <1>2, <1>8, <1>17, <1>20, <2>2 DEF ResultsSound
  <2> QED  BY <2>1, <2>2
<1>23. ResultsSound'
  BY <1>16, <1>22 DEF ResultsSound
<1>24. ASSUME NEW r \in Policies, kind \in Scheduled, bOnce[r]
       PROVE  runs[r] = Len(made'[r]) + (IF Storing(r)' THEN 1 ELSE 0)
  <2>1. runs[r] = Len(made[r]) + (IF Storing(r) THEN 1 ELSE 0)
    BY <1>2, <1>24 DEF OnceSound
  <2>2. CASE r = p
    <3>1. made'[r] = Append(made[r], runs[p])
      BY <1>17, <1>24, <2>2 DEF Noted, Gated
    <3>2. Len(made'[r]) = Len(made[r]) + 1 /\ Len(made[r]) \in Nat
      BY <1>9, <1>10, <3>1
    <3>3. Storing(r) /\ ~Storing(r)'
      BY <1>5, <1>8, <2>2
    <3>4. runs[r] = Len(made[r]) + 1
      BY <2>1, <3>3
    <3> QED  BY <3>2, <3>3, <3>4
  <2>3. CASE r # p
    BY <1>8, <1>17, <2>1, <2>3
  <2> QED  BY <2>2, <2>3
<1>25. OnceSound'
  BY <1>2, <1>16, <1>24 DEF OnceSound, ReporterAtPolicy
<1> QED  BY <1>8, <1>15, <1>19, <1>23, <1>25 DEF HandoffInv

\* The flag is set.  Without the flags that Gated plugins look at, the report thread may
\* be busy with the same policy.
LEMMA MarksKeep ==
  ASSUME HandoffInv, NEW h \in Pool, HandlerMarks(h)
  PROVE  HandoffInv'
<1> DEFINE p == handlers[h].p
<1>1. /\ handlers[h].at = "mark"
      /\ m_mapFinished' = [m_mapFinished EXCEPT ![p] = TRUE]
      /\ handlers' = [handlers EXCEPT ![h] = [at |-> "rest", p |-> p, since |-> 0]]
      /\ UNCHANGED <<handlerFrame, taskVars>>
  BY DEF HandlerMarks, At, HandlerTo
<1>2. TypeOK /\ SharesKept /\ FlagsSound /\ ResultsSound /\ OnceSound
  BY DEF HandoffInv
<1>3. p \in 1 .. 2 * NPolicies /\ IsOf(p, h) /\ 0 \in Minutes
  BY HandlerPlace
<1>4. p \in Policies
  BY <1>1, <1>2 DEF SharesKept
<1>5. Marking(p) /\ ~Storing(p)
  BY <1>1, <1>2, AtPolicy DEF At
<1>6. "rest" \in HandlerAt
  BY DEF HandlerAt
<1>7. handlers[h].p = p
  OBVIOUS
<1> HIDE DEF p
<1>8. /\ SharesKept' /\ SaysStopped' /\ handlers' \in [Pool -> HandlerState]
      /\ \A r \in Policies :
           /\ Storing(r)' <=> Storing(r)
           /\ Marking(r)' <=> Marking(r) /\ r # p
  <2>1. /\ SharesKept' /\ SaysStopped' /\ handlers' \in [Pool -> HandlerState]
        /\ \A r \in Policies :
             /\ Storing(r)' <=> Storing(r) /\ ~IsAt(h, "store", r)
             /\ Marking(r)' <=> Marking(r) /\ ~IsAt(h, "mark", r)
    BY <1>1, <1>3, <1>4, <1>6, Moves DEF At
  <2> QED  BY <1>1, <1>7, <2>1 DEF IsAt, At
<1>9. m_mapFinished \in [Policies -> BOOLEAN]
  BY <1>2 DEF TypeOK
<1>10. m_mapFinished' \in [Policies -> BOOLEAN] /\ m_mapFinished'[p]
       /\ \A r \in Policies : r # p => m_mapFinished'[r] = m_mapFinished[r]
  BY <1>1, <1>4, <1>9
<1>11. TypeOK'
  BY <1>1, <1>2, <1>8, <1>10
     DEF TypeOK, handlerFrame, policyVars, taskVars, HandlerState, Pool
<1>12. /\ kind' = kind /\ bOnce' = bOnce /\ reporter' = reporter /\ tried' = tried
       /\ runs' = runs /\ made' = made /\ m_mapResult' = m_mapResult
       /\ m_mapReported' = m_mapReported
  BY <1>1 DEF handlerFrame, policyVars, taskVars
<1>13. FlagsSound'
  <2>1. reporter.at \in {"send", "stop", "reset", "once"} => reporter.p \in Policies
    BY <1>2 DEF FlagsSound
  <2>2. reporter.at \in {"send", "stop", "reset"} => m_mapFinished'[reporter.p]
    BY <1>2, <1>10, <2>1 DEF FlagsSound
  <2>3. kind \in Gated =>
          \A r \in Policies : Storing(r)' \/ Marking(r)' => ~m_mapFinished'[r]
    BY <1>2, <1>5, <1>8, <1>10 DEF FlagsSound
  <2> QED  BY <1>2, <1>12, <2>1, <2>2, <2>3 DEF FlagsSound
<1>14. kind \in Gated => ~m_mapFinished[p]
  BY <1>2, <1>4, <1>5 DEF FlagsSound
<1>15. ASSUME NEW r \in Policies, kind \in Gated
       PROVE  Waits(r)' <=> Waits(r)
  <2>1. CASE r = p
    <3>1. ~ReporterAtPolicy({"stop", "reset"}, r)
      BY <1>2, <1>14, <1>15, <2>1 DEF ReporterAtPolicy, FlagsSound
    <3> QED  BY <1>5, <1>10, <1>12, <2>1, <3>1 DEF Waits, ReporterAtPolicy
  <2>2. CASE r # p
    BY <1>8, <1>10, <1>12, <2>2 DEF Waits, ReporterAtPolicy
  <2> QED  BY <2>1, <2>2
<1>16. ResultsSound'
  BY <1>2, <1>5, <1>8, <1>10, <1>12, <1>15 DEF ResultsSound
<1>17. OnceSound'
  BY <1>2, <1>8, <1>12 DEF OnceSound, ReporterAtPolicy
<1> QED  BY <1>8, <1>11, <1>13, <1>16, <1>17 DEF HandoffInv


-----------------------------------------------------------------------------
(* The steps of the report thread *)

LEMMA ReporterPlace ==
  ASSUME HandoffInv
  PROVE  /\ NPolicies \in Nat \ {0} /\ reporter.p \in 1 .. NPolicies + 1
         /\ reporter.at \in ReporterAt /\ reporter = [at |-> reporter.at, p |-> reporter.p]
         /\ reporter.at \in {"send", "stop", "reset", "once"} => reporter.p \in Policies
         /\ reporter.p \in Policies => reporter.p + 1 \in 1 .. NPolicies + 1
         /\ reporter.p <= NPolicies => reporter.p \in Policies
<1>1. /\ reporter \in [at : ReporterAt, p : 1 .. NPolicies + 1] /\ NPolicies \in Nat \ {0}
      /\ reporter.at \in {"send", "stop", "reset", "once"} => reporter.p \in Policies
  BY TaskAssumption DEF HandoffInv, TypeOK, FlagsSound
<1> QED  BY <1>1 DEF Policies

\* While no handler moves, what is stored and marked stays, and so do the shares.
LEMMA HandlersStay ==
  ASSUME HandoffInv, UNCHANGED <<policyVars, handlers>>
  PROVE  /\ SharesKept'
         /\ \A r \in Policies : (Storing(r)' <=> Storing(r)) /\ (Marking(r)' <=> Marking(r))
<1>1. SharesKept /\ m_pthreadnum' = m_pthreadnum /\ Pool' = Pool /\ handlers' = handlers
  BY DEF HandoffInv, policyVars, Pool
<1>2. \A h \in Pool : IsOf(handlers[h].p, h)'
  BY <1>1 DEF SharesKept, IsOf
<1>3. SharesKept'
  BY <1>1, <1>2 DEF SharesKept, Policies
<1> QED  BY <1>1, <1>3 DEF Storing, Marking, IsAt, At

LEMMA TickKeeps ==
  ASSUME HandoffInv, Tick
  PROVE  HandoffInv'
<1>1. SharesKept'
      /\ \A r \in Policies : (Storing(r)' <=> Storing(r)) /\ (Marking(r)' <=> Marking(r))
  BY HandlersStay DEF Tick
<1>2. FlagsSound' /\ ResultsSound' /\ OnceSound'
  BY <1>1, QuietStep DEF Tick
<1>3. minute' \in Minutes
  BY TaskAssumption DEF Tick, HandoffInv, TypeOK, Minutes
<1>4. TypeOK'
  BY <1>3 DEF HandoffInv, TypeOK, Tick, policyVars, taskVars, Pool
<1>5. SaysStopped'
  BY DEF HandoffInv, SaysStopped, Tick, policyVars, At, Pool
<1> QED  BY <1>1, <1>2, <1>4, <1>5 DEF HandoffInv

LEMMA WorkerStopsKeeps ==
  ASSUME HandoffInv, WorkerStops
  PROVE  HandoffInv'
<1>1. SharesKept'
      /\ \A r \in Policies : (Storing(r)' <=> Storing(r)) /\ (Marking(r)' <=> Marking(r))
  BY HandlersStay DEF WorkerStops
<1>2. FlagsSound' /\ ResultsSound' /\ OnceSound'
  BY <1>1, QuietStep DEF WorkerStops
<1>3. TypeOK'
  BY DEF HandoffInv, TypeOK, WorkerStops, Stop, policyVars, taskVars, Pool
<1>4. SaysStopped'
  BY DEF HandoffInv, TypeOK, SaysStopped, WorkerStops, Stop, policyVars, At, Pool
<1> QED  BY <1>1, <1>2, <1>3, <1>4 DEF HandoffInv

LEMMA ReporterLoopsKeeps ==
  ASSUME HandoffInv, ReporterLoops
  PROVE  HandoffInv'
<1>1. SharesKept'
      /\ \A r \in Policies : (Storing(r)' <=> Storing(r)) /\ (Marking(r)' <=> Marking(r))
  BY HandlersStay DEF ReporterLoops, reporterFrame
<1>2. {reporter.at, reporter'.at} \subseteq {"scan", "alive", "gone"}
  BY DEF ReporterLoops, ReporterTo
<1>3. FlagsSound' /\ ResultsSound' /\ OnceSound'
  BY <1>1, <1>2, QuietStep DEF ReporterLoops, reporterFrame
<1>4. reporter' \in [at : ReporterAt, p : 1 .. NPolicies + 1]
  BY ReporterPlace DEF ReporterLoops, ReporterTo, ReporterAt
<1>5. m_bIsRunning' \in BOOLEAN
  BY DEF ReporterLoops, HandoffInv, TypeOK
<1>6. TypeOK'
  BY <1>4, <1>5 DEF HandoffInv, TypeOK, ReporterLoops, reporterFrame, policyVars, taskVars,
                    Pool
<1>7. SaysStopped'
  BY DEF HandoffInv, SaysStopped, ReporterLoops, reporterFrame, policyVars, At, Pool
<1> QED  BY <1>1, <1>3, <1>6, <1>7 DEF HandoffInv

\* A scan goes on, or finds a result to report: of a task that is to run once, the first.
LEMMA ReporterScansKeeps ==
  ASSUME HandoffInv, ReporterScans
  PROVE  HandoffInv'
<1>1. SharesKept'
      /\ \A r \in Policies : (Storing(r)' <=> Storing(r)) /\ (Marking(r)' <=> Marking(r))
  BY HandlersStay DEF ReporterScans, reporterFrame
<1>2. /\ reporter.at = "scan"
      /\ UNCHANGED <<reporterFrame, b_state, m_mapFinished, m_mapReported, m_bIsRunning, tried>>
  BY DEF ReporterScans
<1>3. \/ reporter' = [at |-> "alive", p |-> reporter.p]
      \/ reporter' = [at |-> "scan", p |-> reporter.p + 1] /\ reporter.p <= NPolicies
      \/ reporter' = [at |-> "send", p |-> reporter.p] /\ reporter.p <= NPolicies
         /\ IsToReport(reporter.p)
  BY ReporterPlace DEF ReporterScans, ReporterTo
<1>4. reporter' \in [at : ReporterAt, p : 1 .. NPolicies + 1]
  BY <1>3, ReporterPlace DEF ReporterAt
<1>5. TypeOK'
  BY <1>2, <1>4 DEF HandoffInv, TypeOK, reporterFrame, policyVars, taskVars, Pool
<1>6. SaysStopped'
  BY <1>2 DEF HandoffInv, SaysStopped, reporterFrame, policyVars, At, Pool
<1>7. FlagsSound' /\ ResultsSound' /\ OnceSound'
  <2>1. CASE reporter'.at \in {"scan", "alive"}
    <3>1. {reporter.at, reporter'.at} \subseteq {"scan", "alive", "gone"}
      BY <1>2, <2>1
    <3> QED  BY <1>1, <1>2, <3>1, QuietStep DEF reporterFrame
  <2>2. CASE reporter' = [at |-> "send", p |-> reporter.p] /\ reporter.p <= NPolicies
             /\ IsToReport(reporter.p)
    <3> DEFINE q == reporter.p
    <3>1. q \in Policies /\ reporter'.at = "send" /\ reporter'.p = q /\ m_mapFinished[q]
          /\ ~(kind \in Scheduled /\ bOnce[q] /\ m_mapReported[q])
      BY <2>2, ReporterPlace DEF IsToReport
    <3>2. FlagsSound /\ ResultsSound /\ OnceSound
      BY DEF HandoffInv
    <3> HIDE DEF q
    <3>3. FlagsSound'
      BY <1>1, <1>2, <3>1, <3>2 DEF FlagsSound, reporterFrame, policyVars, Policies
    <3>4. \A r \in Policies : Waits(r)' <=> Waits(r)
      BY <1>1, <1>2, <3>1 DEF Waits, ReporterAtPolicy
    <3>5. ResultsSound'
      BY <1>1, <1>2, <3>2, <3>4 DEF ResultsSound, reporterFrame, policyVars, taskVars
    <3>6. \A r \in Policies :
            /\ ~ReporterAtPolicy({"reset", "once"}, r)'
            /\ ~ReporterAtPolicy({"reset", "once"}, r)
            /\ ReporterAtPolicy({"send"}, r)' => r = q
      BY <1>2, <3>1 DEF ReporterAtPolicy
    <3>7. OnceSound'
      BY <1>1, <1>2, <3>1, <3>2, <3>6
         DEF OnceSound, reporterFrame, policyVars, taskVars
    <3> QED  BY <3>3, <3>5, <3>7
  <2> QED  BY <1>3, <2>1, <2>2
<1> QED  BY <1>1, <1>5, <1>6, <1>7 DEF HandoffInv


\* A report: the result waits no more.
LEMMA ReporterSendsKeeps ==
  ASSUME HandoffInv, ReporterSends
  PROVE  HandoffInv'
<1>1. SharesKept'
      /\ \A r \in Policies : (Storing(r)' <=> Storing(r)) /\ (Marking(r)' <=> Marking(r))
  BY HandlersStay DEF ReporterSends, reporterFrame
<1>2. /\ reporter.at = "send"
      /\ UNCHANGED <<reporterFrame, b_state, m_mapFinished, m_mapReported, m_bIsRunning>>
  BY DEF ReporterSends
<1>3. PICK p \in Policies : p = reporter.p
  BY <1>2, ReporterPlace
<1>4. \/ /\ tried' = [tried EXCEPT ![p] = Noted(@, m_mapResult[p])]
         /\ reporter' = [at |-> IF kind \in Commanded THEN "stop" ELSE "reset", p |-> p]
      \/ kind = "ping" /\ tried' = tried /\ reporter' = [at |-> "scan", p |-> p + 1]
  BY <1>3 DEF ReporterSends, ReporterTo
<1>5. TypeOK /\ FlagsSound /\ ResultsSound /\ OnceSound /\ SaysStopped
  BY DEF HandoffInv
<1>6. m_mapFinished[p]
  BY <1>2, <1>3, <1>5 DEF FlagsSound
<1>7. /\ p \in 1 .. NPolicies + 1 /\ p + 1 \in 1 .. NPolicies + 1
  BY <1>3, ReporterPlace
<1>8. reporter' \in [at : ReporterAt, p : 1 .. NPolicies + 1]
  BY <1>4, <1>7 DEF ReporterAt
<1>9. m_mapResult[p] \in 1 .. MaxRuns
  <2>1. m_mapResult[p] >= 1 /\ m_mapResult[p] \in 0 .. MaxRuns
    BY <1>3, <1>5, <1>6 DEF ResultsSound, TypeOK
  <2> QED  BY <2>1
<1>10. tried \in [Policies -> Seq(1 .. MaxRuns)]
  BY <1>5 DEF TypeOK
<1>11. Noted(tried[p], m_mapResult[p]) \in Seq(1 .. MaxRuns)
  <2>1. tried[p] \in Seq(1 .. MaxRuns)
    BY <1>10
  <2>2. Append(tried[p], m_mapResult[p]) \in Seq(1 .. MaxRuns)
    BY <1>9, <2>1
  <2>3. <<m_mapResult[p]>> \in Seq(1 .. MaxRuns)
    BY <1>9
  <2> QED  BY <2>2, <2>3 DEF Noted
<1>12. tried' \in [Policies -> Seq(1 .. MaxRuns)]
  BY <1>4, <1>10, <1>11
<1>13. TypeOK'
  BY <1>2, <1>5, <1>8, <1>12 DEF TypeOK, reporterFrame, policyVars, taskVars, Pool
<1>14. SaysStopped'
  BY <1>2, <1>5 DEF SaysStopped, reporterFrame, policyVars, At, Pool
<1>15. /\ kind' = kind /\ bOnce' = bOnce /\ runs' = runs /\ made' = made
       /\ m_mapResult' = m_mapResult /\ m_mapFinished' = m_mapFinished
       /\ m_mapReported' = m_mapReported
  BY <1>2 DEF reporterFrame, policyVars, taskVars
<1>16. FlagsSound'
  BY <1>1, <1>4, <1>5, <1>6, <1>15 DEF FlagsSound
<1>17. ~(kind \in Gated /\ kind = "ping") /\ Scheduled \subseteq Gated
       /\ ~(kind \in Scheduled /\ kind \in Commanded)
  BY DEF Gated, Scheduled, Commanded, Breaking
<1>18. \A r \in Policies : r # p => tried'[r] = tried[r]
  BY <1>4, <1>10
<1>19. ASSUME kind \in Gated
       PROVE  /\ tried'[p] = Append(tried[p], m_mapResult[p])
              /\ reporter'.at \in {"stop", "reset"} /\ reporter'.p = p
              /\ kind \in Scheduled => reporter'.at = "reset"
  BY <1>3, <1>4, <1>10, <1>17, <1>19 DEF Noted
<1>20. ASSUME NEW r \in Policies, kind \in Gated
       PROVE  made[r] = IF Waits(r)' THEN Append(tried'[r], m_mapResult[r]) ELSE tried'[r]
  <2>1. made[r] = IF Waits(r) THEN Append(tried[r], m_mapResult[r]) ELSE tried[r]
    BY <1>5, <1>20 DEF ResultsSound
  <2>2. CASE r = p
    <3>1. ~Marking(r)
      BY <1>5, <1>6, <1>20, <2>2 DEF FlagsSound
    <3>2. Waits(r)
      BY <1>2, <1>6, <2>2 DEF Waits, ReporterAtPolicy
    <3>3. ~Waits(r)'
      BY <1>1, <1>19, <1>20, <2>2, <3>1 DEF Waits, ReporterAtPolicy
    <3> QED  BY <1>19, <1>20, <2>1, <2>2, <3>2, <3>3
  <2>3. CASE r # p
    <3>1. Waits(r)' <=> Waits(r)
      BY <1>1, <1>2, <1>3, <1>15, <1>19, <1>20, <2>3 DEF Waits, ReporterAtPolicy
    <3> QED  BY <1>18, <2>1, <2>3, <3>1
  <2> QED  BY <2>2, <2>3
<1>21. ResultsSound'
  BY <1>1, <1>5, <1>15, <1>20 DEF ResultsSound
<1>22. ASSUME NEW r \in Policies, kind \in Scheduled, bOnce[r]
       PROVE  /\ Len(tried'[r]) <= 1
              /\ tried'[r] # <<>>
                   <=> m_mapReported[r] \/ ReporterAtPolicy({"reset", "once"}, r)'
              /\ ~ReporterAtPolicy({"send"}, r)'
              /\ runs[r] = Len(made[r]) + (IF Storing(r)' THEN 1 ELSE 0)
  <2>1. /\ Len(tried[r]) <= 1
        /\ tried[r] # <<>> <=> m_mapReported[r] \/ ReporterAtPolicy({"reset", "once"}, r)
        /\ ReporterAtPolicy({"send"}, r) => tried[r] = <<>>
        /\ runs[r] = Len(made[r]) + (IF Storing(r) THEN 1 ELSE 0)
    BY <1>5, <1>22 DEF OnceSound
  <2>2. reporter'.at = "reset" /\ reporter'.p = p
    BY <1>17, <1>19, <1>22
  <2>3. CASE r = p
    <3>1. tried[r] = <<>>
      BY <1>2, <1>3, <2>1, <2>3 DEF ReporterAtPolicy
    <3>2. tried'[r] = Append(<<>>, m_mapResult[p])
      BY <1>17, <1>19, <1>22, <2>3, <3>1
    <3>3. Len(tried'[r]) = 1 /\ tried'[r] # <<>>
      BY <1>9, <3>2
    <3>4. ReporterAtPolicy({"reset", "once"}, r)' /\ ~ReporterAtPolicy({"send"}, r)'
      BY <2>2, <2>3 DEF ReporterAtPolicy
    <3>5. Len(tried'[r]) <= 1
      BY <3>3
    <3>6. runs[r] = Len(made[r]) + (IF Storing(r)' THEN 1 ELSE 0)
      BY <1>1, <2>1
    <3> QED  BY <3>3, <3>4, <3>5, <3>6
  <2>4. CASE r # p
    <3>1. /\ ~ReporterAtPolicy({"reset", "once"}, r)'
          /\ ~ReporterAtPolicy({"reset", "once"}, r)
          /\ ~ReporterAtPolicy({"send"}, r)'
      BY <1>2, <1>3, <2>2, <2>4 DEF ReporterAtPolicy
    <3> QED  BY <1>1, <1>18, <2>1, <2>4, <3>1
  <2> QED  BY <2>3, <2>4
<1>23. OnceSound'
  BY <1>15, <1>22 DEF OnceSound
<1> QED  BY <1>1, <1>13, <1>14, <1>16, <1>21, <1>23 DEF HandoffInv

LEMMA ReporterStopsKeeps ==
  ASSUME HandoffInv, ReporterStops
  PROVE  HandoffInv'
<1>1. SharesKept'
      /\ \A r \in Policies : (Storing(r)' <=> Storing(r)) /\ (Marking(r)' <=> Marking(r))
  BY HandlersStay DEF ReporterStops, reporterFrame
<1>2. /\ reporter.at = "stop" /\ reporter' = [at |-> "reset", p |-> reporter.p]
      /\ UNCHANGED <<reporterFrame, m_mapFinished, m_mapReported, tried>>
  BY DEF ReporterStops, ReporterTo
<1>3. TypeOK /\ FlagsSound /\ ResultsSound /\ OnceSound /\ SaysStopped
  BY DEF HandoffInv
<1>4. reporter' \in [at : ReporterAt, p : 1 .. NPolicies + 1] /\ reporter.p \in Policies
  BY <1>2, ReporterPlace DEF ReporterAt
<1>5. TypeOK'
  BY <1>2, <1>3, <1>4
     DEF TypeOK, ReporterStops, Stop, reporterFrame, policyVars, taskVars, Pool
<1>6. SaysStopped'
  BY <1>2, <1>3
     DEF TypeOK, SaysStopped, ReporterStops, Stop, reporterFrame, policyVars, At, Pool
<1>7. FlagsSound'
  BY <1>1, <1>2, <1>3, <1>4 DEF FlagsSound, reporterFrame, policyVars, Policies
<1>8. \A r \in Policies : Waits(r)' <=> Waits(r)
  BY <1>1, <1>2 DEF Waits, ReporterAtPolicy
<1>9. ResultsSound'
  BY <1>1, <1>2, <1>3, <1>8 DEF ResultsSound, reporterFrame, policyVars, taskVars
<1>10. kind \notin Scheduled
  BY <1>2, <1>3 DEF FlagsSound, Scheduled, Commanded
<1>11. OnceSound'
  BY <1>2, <1>10 DEF OnceSound, reporterFrame, policyVars
<1> QED  BY <1>1, <1>5, <1>6, <1>7, <1>9, <1>11 DEF HandoffInv


\* A flag is reset: the next result may come.
LEMMA ReporterResetsKeeps ==
  ASSUME HandoffInv, ReporterResets
  PROVE  HandoffInv'
<1>1. SharesKept'
      /\ \A r \in Policies : (Storing(r)' <=> Storing(r)) /\ (Marking(r)' <=> Marking(r))
  BY HandlersStay DEF ReporterResets, reporterFrame
<1>2. /\ reporter.at = "reset"
      /\ UNCHANGED <<reporterFrame, b_state, m_mapReported, m_bIsRunning, tried>>
  BY DEF ReporterResets
<1>3. PICK p \in Policies : p = reporter.p
  BY <1>2, ReporterPlace
<1>4. /\ m_mapFinished' = [m_mapFinished EXCEPT ![p] = FALSE]
      /\ \/ kind \in Scheduled /\ reporter' = [at |-> "once", p |-> p]
         \/ kind \notin Scheduled /\ reporter' = [at |-> "scan", p |-> p + 1]
  BY <1>3 DEF ReporterResets, ReporterTo
<1>5. TypeOK /\ FlagsSound /\ ResultsSound /\ OnceSound /\ SaysStopped
  BY DEF HandoffInv
<1>6. p \in 1 .. NPolicies + 1 /\ p + 1 \in 1 .. NPolicies + 1
  BY <1>3, ReporterPlace
<1>7. reporter' \in [at : ReporterAt, p : 1 .. NPolicies + 1]
  BY <1>4, <1>6 DEF ReporterAt
<1>8. /\ m_mapFinished' \in [Policies -> BOOLEAN] /\ ~m_mapFinished'[p]
      /\ \A r \in Policies : r # p => m_mapFinished'[r] = m_mapFinished[r]
  BY <1>4, <1>5 DEF TypeOK
<1>9. TypeOK'
  BY <1>2, <1>5, <1>7, <1>8 DEF TypeOK, reporterFrame, policyVars, taskVars, Pool
<1>10. SaysStopped'
  BY <1>2, <1>5 DEF SaysStopped, reporterFrame, policyVars, At, Pool
<1>11. /\ kind' = kind /\ bOnce' = bOnce /\ runs' = runs /\ made' = made /\ tried' = tried
       /\ m_mapResult' = m_mapResult /\ m_mapReported' = m_mapReported
  BY <1>2 DEF reporterFrame, policyVars, taskVars
<1>12. FlagsSound'
  BY <1>1, <1>3, <1>4, <1>5, <1>8, <1>11 DEF FlagsSound
<1>13. m_mapFinished[p]
  BY <1>2, <1>3, <1>5 DEF FlagsSound
<1>14. ASSUME NEW r \in Policies, kind \in Gated
       PROVE  Waits(r)' <=> Waits(r)
  <2>1. CASE r = p
    <3>1. ~Marking(r)
      BY <1>5, <1>13, <1>14, <2>1 DEF FlagsSound
    <3>2. ~Waits(r)
      BY <1>2, <1>3, <2>1, <3>1 DEF Waits, ReporterAtPolicy
    <3>3. ~Waits(r)'
      BY <1>1, <1>8, <2>1, <3>1 DEF Waits
    <3> QED  BY <3>2, <3>3
  <2>2. CASE r # p
    <3>1. reporter'.at \notin {"stop", "reset"} /\ ~(reporter.p = r)
      BY <1>3, <1>4, <2>2
    <3> QED  BY <1>1, <1>8, <2>2, <3>1 DEF Waits, ReporterAtPolicy
  <2> QED  BY <2>1, <2>2
<1>15. ResultsSound'
  BY <1>1, <1>5, <1>8, <1>11, <1>14 DEF ResultsSound
<1>16. ASSUME kind \in Scheduled, NEW r \in Policies
       PROVE  /\ ReporterAtPolicy({"reset", "once"}, r)'
                   <=> ReporterAtPolicy({"reset", "once"}, r)
              /\ ~ReporterAtPolicy({"send"}, r)'
  BY <1>2, <1>3, <1>4, <1>16 DEF ReporterAtPolicy
<1>17. OnceSound'
  BY <1>1, <1>5, <1>11, <1>16 DEF OnceSound
<1> QED  BY <1>1, <1>9, <1>10, <1>12, <1>15, <1>17 DEF HandoffInv

LEMMA ReporterNotesKeeps ==
  ASSUME HandoffInv, ReporterNotes
  PROVE  HandoffInv'
<1>1. SharesKept'
      /\ \A r \in Policies : (Storing(r)' <=> Storing(r)) /\ (Marking(r)' <=> Marking(r))
  BY HandlersStay DEF ReporterNotes, reporterFrame
<1>2. /\ reporter.at = "once"
      /\ UNCHANGED <<reporterFrame, b_state, m_mapFinished, m_bIsRunning, tried>>
  BY DEF ReporterNotes
<1>3. PICK p \in Policies : p = reporter.p
  BY <1>2, ReporterPlace
<1>4. /\ m_mapReported' = [m_mapReported EXCEPT ![p] = TRUE]
      /\ reporter' = [at |-> "scan", p |-> p + 1]
  BY <1>3 DEF ReporterNotes, ReporterTo
<1>5. TypeOK /\ FlagsSound /\ ResultsSound /\ OnceSound /\ SaysStopped
  BY DEF HandoffInv
<1>6. p + 1 \in 1 .. NPolicies + 1
  BY <1>3, ReporterPlace
<1>7. reporter' \in [at : ReporterAt, p : 1 .. NPolicies + 1]
  BY <1>4, <1>6 DEF ReporterAt
<1>8. /\ m_mapReported' \in [Policies -> BOOLEAN] /\ m_mapReported'[p]
      /\ \A r \in Policies : r # p => m_mapReported'[r] = m_mapReported[r]
  BY <1>4, <1>5 DEF TypeOK
<1>9. TypeOK'
  BY <1>2, <1>5, <1>7, <1>8 DEF TypeOK, reporterFrame, policyVars, taskVars, Pool
<1>10. SaysStopped'
  BY <1>2, <1>5 DEF SaysStopped, reporterFrame, policyVars, At, Pool
<1>11. /\ kind' = kind /\ bOnce' = bOnce /\ runs' = runs /\ made' = made /\ tried' = tried
       /\ m_mapResult' = m_mapResult /\ m_mapFinished' = m_mapFinished
  BY <1>2 DEF reporterFrame, policyVars, taskVars
<1>12. FlagsSound'
  BY <1>1, <1>4, <1>5, <1>11 DEF FlagsSound
<1>13. \A r \in Policies : Waits(r)' <=> Waits(r)
  BY <1>1, <1>2, <1>4, <1>11 DEF Waits, ReporterAtPolicy
<1>14. ResultsSound'
  BY <1>1, <1>5, <1>11, <1>13 DEF ResultsSound
<1>15. ASSUME NEW r \in Policies
       PROVE  /\ m_mapReported'[r] \/ ReporterAtPolicy({"reset", "once"}, r)'
                   <=> m_mapReported[r] \/ ReporterAtPolicy({"reset", "once"}, r)
              /\ ~ReporterAtPolicy({"send"}, r)'
  BY <1>2, <1>3, <1>4, <1>8 DEF ReporterAtPolicy
<1>16. OnceSound'
  BY <1>1, <1>5, <1>11, <1>15 DEF OnceSound
<1> QED  BY <1>1, <1>9, <1>10, <1>12, <1>14, <1>16 DEF HandoffInv

-----------------------------------------------------------------------------
(* The inductive invariant *)

LEMMA InitHandoff == Init => HandoffInv
<1> SUFFICES ASSUME Init
             PROVE  HandoffInv
  OBVIOUS
<1>1. NPolicies \in Nat \ {0} /\ m_pthreadnum \in 1 .. NPolicies /\ MaxRuns \in Nat
      /\ 0 \in Minutes
  BY TaskAssumption DEF Init, Minutes
<1>2. Pool \subseteq Policies /\ Pool \subseteq 1 .. 2 * NPolicies
  BY <1>1 DEF Pool, Policies
<1>3. handlers \in [Pool -> [at : HandlerAt, p : 1 .. 2 * NPolicies, since : Minutes]]
  BY <1>1, <1>2 DEF Init, HandlerAt
<1>4. TypeOK
  <2>1. <<>> \in Seq(1 .. MaxRuns) /\ 0 \in 0 .. MaxRuns /\ 1 \in 1 .. NPolicies + 1
    BY <1>1
  <2>2. /\ m_mapResult \in [Policies -> 0 .. MaxRuns] /\ runs \in [Policies -> 0 .. MaxRuns]
        /\ made \in [Policies -> Seq(1 .. MaxRuns)]
        /\ tried \in [Policies -> Seq(1 .. MaxRuns)]
        /\ ranAt \in [Policies -> Minutes \union {Never}]
    BY <2>1 DEF Init
  <2>3. /\ reporter \in [at : ReporterAt, p : 1 .. NPolicies + 1] /\ minute \in Minutes
        /\ m_mapFinished \in [Policies -> BOOLEAN] /\ m_mapReported \in [Policies -> BOOLEAN]
        /\ b_state \in [Pool -> BOOLEAN] /\ m_bIsRunning \in BOOLEAN
    BY <1>1, <2>1 DEF Init, ReporterAt
  <2>4. /\ kind \in Kinds /\ m_pthreadnum \in Pools
        /\ cron \in [Policies -> Crons] /\ bOnce \in [Policies -> BOOLEAN]
    BY DEF Init
  <2> QED  BY <1>3, <2>2, <2>3, <2>4 DEF TypeOK
<1>5. \A h \in Pool : handlers[h].at = "while" /\ handlers[h].p = h
  BY DEF Init
<1>6. SharesKept
  BY <1>4, <1>5, ShareBegins DEF SharesKept
<1>7. \A p \in Policies : ~Storing(p) /\ ~Marking(p)
  BY <1>5 DEF Storing, Marking, IsAt, At
<1>8. /\ reporter.at = "scan" /\ \A p \in Policies : ~m_mapFinished[p]
  BY DEF Init
<1>9. FlagsSound
  BY <1>7, <1>8 DEF FlagsSound
<1>10. ResultsSound
  BY <1>7, <1>8 DEF Init, ResultsSound, Waits
<1>11. \A p \in Policies :
         /\ tried[p] = <<>> /\ made[p] = <<>> /\ runs[p] = 0 /\ ~m_mapReported[p]
         /\ ~ReporterAtPolicy({"reset", "once"}, p) /\ ~ReporterAtPolicy({"send"}, p)
  BY DEF Init, ReporterAtPolicy
<1>12. Len(<<>>) = 0
  OBVIOUS
<1>13. OnceSound
  <2>1. ASSUME NEW p \in Policies
        PROVE  /\ Len(tried[p]) <= 1
               /\ runs[p] = Len(made[p]) + (IF Storing(p) THEN 1 ELSE 0)
    <3>1. Len(tried[p]) = 0 /\ Len(made[p]) = 0 /\ runs[p] = 0
      BY <1>11, <1>12
    <3>2. (IF Storing(p) THEN 1 ELSE 0) = 0
      BY <1>7
    <3> QED  BY <3>1, <3>2
  <2> QED  BY <1>11, <2>1 DEF OnceSound
<1>14. SaysStopped
  BY DEF Init, SaysStopped
<1> QED  BY <1>4, <1>6, <1>9, <1>10, <1>13, <1>14 DEF HandoffInv

LEMMA NextHandoff == HandoffInv /\ [Next]_vars => HandoffInv'
<1> SUFFICES ASSUME HandoffInv, [Next]_vars
             PROVE  HandoffInv'
  OBVIOUS
<1>1. CASE Tick
  BY <1>1, TickKeeps
<1>2. CASE WorkerStops
  BY <1>2, WorkerStopsKeeps
<1>3. CASE \E h \in Pool : Handler(h)
  <2>1. PICK h \in Pool : Handler(h)
    BY <1>3
  <2> QED  BY <2>1, LoopsKeep, RunsKeep, SkipsKeep, StoresKeep, MarksKeep, RestsKeep,
              EndsPassKeeps, WakesKeep DEF Handler
<1>4. CASE Reporter
  BY <1>4, ReporterScansKeeps, ReporterSendsKeeps, ReporterStopsKeeps, ReporterResetsKeeps,
     ReporterNotesKeeps, ReporterLoopsKeeps DEF Reporter
<1>5. CASE UNCHANGED vars
  <2>1. /\ SharesKept'
        /\ \A r \in Policies : (Storing(r)' <=> Storing(r)) /\ (Marking(r)' <=> Marking(r))
    BY <1>5, HandlersStay DEF vars
  <2>2. FlagsSound' /\ ResultsSound' /\ OnceSound'
    BY <1>5, <2>1, QuietStep DEF vars
  <2>3. TypeOK' /\ SaysStopped'
    BY <1>5 DEF vars, HandoffInv, TypeOK, SaysStopped, policyVars, taskVars, At, Pool
  <2> QED  BY <2>1, <2>2, <2>3 DEF HandoffInv
<1> QED  BY <1>1, <1>2, <1>3, <1>4, <1>5 DEF Next

LEMMA HandoffHolds == Spec => []HandoffInv
BY InitHandoff, NextHandoff, PTL DEF Spec

-----------------------------------------------------------------------------
(* The theorems *)

\* A handler has a result to store only while the flag of its policy is not set and its
\* last report is over, and a plugin says that it does not run only after its handlers
\* have gone: no lock is needed between a handler and the report thread.
THEOREM HandoffSafe == Spec => []TaskInv
<1>1. HandoffInv => TaskInv
  <2> SUFFICES ASSUME HandoffInv
               PROVE  Exclusive
    BY DEF HandoffInv, TaskInv
  <2>1. SharesKept /\ FlagsSound
    BY DEF HandoffInv
  <2>2. ASSUME kind \in Gated, NEW h \in Pool, NEW p \in Policies,
               handlers[h].at \in {"store", "mark"}, handlers[h].p = p
        PROVE  ~m_mapFinished[p] /\ ~(reporter.at \in {"send", "stop", "reset"} /\ reporter.p = p)
    <3>1. Storing(p) \/ Marking(p)
      BY <2>1, <2>2, AtPolicy DEF At
    <3> QED  BY <2>1, <2>2, <3>1 DEF FlagsSound
  <2> QED  BY <2>2 DEF Exclusive
<1> QED  BY <1>1, HandoffHolds, PTL

\* The plugins that look at the flag before a run hand each result to ReportData once, in
\* the order of the runs, and at most one result waits.
THEOREM EachResultOnce == Spec => []EachOnce
<1>1. HandoffInv => EachOnce
  <2> SUFFICES ASSUME HandoffInv, kind \in Gated, NEW p \in Policies
               PROVE  IsPrefix(tried[p], made[p]) /\ Len(made[p]) <= Len(tried[p]) + 1
    BY DEF EachOnce
  <2>1. /\ tried[p] \in Seq(1 .. MaxRuns) /\ m_mapResult[p] \in 0 .. MaxRuns
        /\ Len(tried[p]) \in Nat
    BY DEF HandoffInv, TypeOK
  <2>2. made[p] = tried[p] \/ made[p] = Append(tried[p], m_mapResult[p])
    BY DEF HandoffInv, ResultsSound
  <2>3. CASE made[p] = tried[p]
    BY <2>1, <2>3 DEF IsPrefix
  <2>4. CASE made[p] = Append(tried[p], m_mapResult[p])
    BY <2>1, <2>4 DEF IsPrefix
  <2> QED  BY <2>2, <2>3, <2>4
<1> QED  BY <1>1, HandoffHolds, PTL

\* However slow the report thread is, a task that is to run once runs at most twice and
\* is reported once.
THEOREM OnceIsOnce == Spec => []OnceBounded
<1>1. HandoffInv => OnceBounded
  <2> SUFFICES ASSUME HandoffInv, NEW p \in Policies, kind \in Scheduled, bOnce[p]
               PROVE  runs[p] <= 2 /\ Len(tried[p]) <= 1
    BY DEF OnceBounded
  <2>1. tried[p] \in Seq(1 .. MaxRuns) /\ Len(tried[p]) \in Nat
    BY DEF HandoffInv, TypeOK
  <2>2. Len(tried[p]) <= 1
    BY DEF HandoffInv, OnceSound
  <2>3. runs[p] = Len(made[p]) + (IF Storing(p) THEN 1 ELSE 0)
    BY DEF HandoffInv, OnceSound
  <2>4. made[p] = IF Waits(p) THEN Append(tried[p], m_mapResult[p]) ELSE tried[p]
    BY DEF HandoffInv, ResultsSound, Gated
  <2>5. CASE Storing(p)
    <3>1. ~Waits(p)
      <4>1. ~m_mapFinished[p]
        BY <2>5 DEF HandoffInv, FlagsSound, Gated
      <4>2. ~Marking(p)
        BY <2>5, AtPolicy DEF HandoffInv, Storing, IsAt, At
      <4> QED  BY <4>1, <4>2 DEF Waits
    <3>2. runs[p] = Len(tried[p]) + 1
      BY <2>3, <2>4, <2>5, <3>1
    <3> QED  BY <2>1, <2>2, <3>2
  <2>6. CASE ~Storing(p)
    <3>1. runs[p] = Len(made[p])
      <4>1. Len(made[p]) \in Nat
        BY DEF HandoffInv, TypeOK
      <4> QED  BY <2>3, <2>6, <4>1
    <3>2. Len(made[p]) <= Len(tried[p]) + 1
      BY <2>1, <2>4
    <3> QED  BY <2>1, <2>2, <3>1, <3>2
  <2> QED  BY <2>2, <2>5, <2>6
<1> QED  BY <1>1, HandoffHolds, PTL

-----------------------------------------------------------------------------
(* The turns of a handler *)

\* Handler h goes from one place to another, and to policy q.
Goes(h, from, to, q) ==
  /\ At(h, from) /\ handlers'[h].at = to /\ handlers'[h].p = q
  /\ \A g \in Pool \ {h} : handlers'[g] = handlers[g]

LEMMA Lands ==
  ASSUME HandoffInv, NEW h \in Pool, NEW from, NEW to, NEW q, NEW s, At(h, from),
         handlers' = [handlers EXCEPT ![h] = [at |-> to, p |-> q, since |-> s]]
  PROVE  Goes(h, from, to, q) /\ handlers'[h].since = s
<1>1. handlers \in [Pool -> HandlerState]
  BY PoolType DEF HandoffInv
<1> QED  BY <1>1 DEF Goes

LEMMA Turns ==
  ASSUME HandoffInv, NEW h \in Pool, Handler(h)
  PROVE  /\ UNCHANGED handlerFrame
         /\ \/ HandlerLoops(h) /\ Goes(h, "while", IF b_state[h] THEN "pass" ELSE "gone", h)
            \/ HandlerRuns(h)
               /\ \/ Goes(h, "pass", "store", handlers[h].p)
                  \/ kind \in Silent /\ Goes(h, "pass", "rest", handlers[h].p)
            \/ HandlerSkips(h)
               /\ \/ Goes(h, "pass", "rest", handlers[h].p)
                  \/ Goes(h, "pass", "pass", handlers[h].p + m_pthreadnum)
            \/ HandlerStores(h) /\ Goes(h, "store", "mark", handlers[h].p)
            \/ HandlerMarks(h) /\ Goes(h, "mark", "rest", handlers[h].p)
            \/ HandlerRests(h)
               /\ \/ Goes(h, "rest", "nap", h)
                  \/ Goes(h, "rest", "pass", handlers[h].p + m_pthreadnum)
            \/ HandlerEndsPass(h)
               /\ \/ kind \in Scheduled /\ Goes(h, "pass", "while", h)
                  \/ kind \notin Scheduled /\ Goes(h, "pass", "nap", h)
            \/ HandlerWakes(h) /\ Goes(h, "nap", "while", h)
<1>1. UNCHANGED handlerFrame
  BY DEF Handler, HandlerLoops, HandlerRuns, HandlerSkips, HandlerStores, HandlerMarks,
         HandlerRests, HandlerEndsPass, HandlerWakes
<1>2. ASSUME HandlerLoops(h)
      PROVE  Goes(h, "while", IF b_state[h] THEN "pass" ELSE "gone", h)
  BY <1>2, Lands DEF HandlerLoops, HandlerTo
<1>3. ASSUME HandlerRuns(h)
      PROVE  \/ Goes(h, "pass", "store", handlers[h].p)
             \/ kind \in Silent /\ Goes(h, "pass", "rest", handlers[h].p)
  BY <1>3, Lands DEF HandlerRuns, HandlerTo
<1>4. ASSUME HandlerSkips(h)
      PROVE  \/ Goes(h, "pass", "rest", handlers[h].p)
             \/ Goes(h, "pass", "pass", handlers[h].p + m_pthreadnum)
  BY <1>4, Lands DEF HandlerSkips, HandlerTo
<1>5. ASSUME HandlerStores(h)
      PROVE  Goes(h, "store", "mark", handlers[h].p)
  BY <1>5, Lands DEF HandlerStores, HandlerTo
<1>6. ASSUME HandlerMarks(h)
      PROVE  Goes(h, "mark", "rest", handlers[h].p)
  BY <1>6, Lands DEF HandlerMarks, HandlerTo
<1>7. ASSUME HandlerRests(h)
      PROVE  \/ Goes(h, "rest", "nap", h)
             \/ Goes(h, "rest", "pass", handlers[h].p + m_pthreadnum)
  BY <1>7, Lands DEF HandlerRests, HandlerTo, HandlerNaps
<1>8. ASSUME HandlerEndsPass(h)
      PROVE  \/ kind \in Scheduled /\ Goes(h, "pass", "while", h)
             \/ kind \notin Scheduled /\ Goes(h, "pass", "nap", h)
  BY <1>8, Lands DEF HandlerEndsPass, HandlerTo, HandlerNaps
<1>9. ASSUME HandlerWakes(h)
      PROVE  Goes(h, "nap", "while", h)
  BY <1>9, Lands DEF HandlerWakes, HandlerTo
<1> QED  BY <1>1, <1>2, <1>3, <1>4, <1>5, <1>6, <1>7, <1>8, <1>9 DEF Handler

\* What is stored and marked after a turn.
LEMMA Turned ==
  ASSUME HandoffInv, NEW h \in Pool, NEW from, NEW to, NEW q, Goes(h, from, to, q),
         UNCHANGED handlerFrame
  PROVE  \A r \in Policies :
           /\ Storing(r)' <=> (to = "store" /\ q = r)
                              \/ (Storing(r) /\ ~(from = "store" /\ handlers[h].p = r))
           /\ Marking(r)' <=> (to = "mark" /\ q = r)
                              \/ (Marking(r) /\ ~(from = "mark" /\ handlers[h].p = r))
<1>1. Pool' = Pool /\ SharesKept
  BY DEF handlerFrame, policyVars, Pool, HandoffInv
<1>2. \A f, g \in Pool : handlers[f].p = handlers[g].p => f = g
  BY <1>1 DEF SharesKept
<1>3. ASSUME NEW r \in Policies
      PROVE  Storing(r)' <=> (to = "store" /\ q = r)
                             \/ (Storing(r) /\ ~(from = "store" /\ handlers[h].p = r))
  BY <1>1, <1>2 DEF Goes, Storing, IsAt, At
<1>4. ASSUME NEW r \in Policies
      PROVE  Marking(r)' <=> (to = "mark" /\ q = r)
                             \/ (Marking(r) /\ ~(from = "mark" /\ handlers[h].p = r))
  BY <1>1, <1>2 DEF Goes, Marking, IsAt, At
<1> QED  BY <1>3, <1>4

-----------------------------------------------------------------------------
(* The rounds of a handler through its share *)

LEMMA ShareFirst ==
  ASSUME TypeOK, NEW h \in Pool, NEW p \in Nat, IsOf(p, h)
  PROVE  h <= p
<1>1. PICK k \in Nat : p = h + k * m_pthreadnum
  BY DEF IsOf
<1>2. m_pthreadnum \in Nat /\ h \in Nat
  BY PoolType DEF Policies
<1>3. k * m_pthreadnum \in Nat
  BY <1>2
<1> QED  BY <1>1, <1>2, <1>3

\* A handler that goes on leaves out none of its policies.
LEMMA ShareNext ==
  ASSUME TypeOK, NEW h \in Pool, NEW p \in Nat, NEW q \in Nat, IsOf(p, h), IsOf(q, h), p < q
  PROVE  p + m_pthreadnum <= q
<1> DEFINE m == m_pthreadnum
<1>1. m \in Nat \ {0} /\ h \in Nat
  BY PoolType DEF Policies
<1>2. PICK k \in Nat : p = h + k * m
  BY DEF IsOf
<1>3. PICK l \in Nat : q = h + l * m
  BY DEF IsOf
<1>4. k * m \in Nat /\ l * m \in Nat
  BY <1>1
<1>5. \A i, j \in Nat : i <= j => i * m <= j * m
  <2> SUFFICES ASSUME NEW i \in Nat, NEW j \in Nat, i <= j PROVE i * m <= j * m
    OBVIOUS
  <2>1. (j - i) * m \in Nat /\ j * m = i * m + (j - i) * m
    BY <1>1
  <2>2. i * m \in Nat /\ j * m \in Nat
    BY <1>1
  <2> HIDE DEF m
  <2> QED  BY <2>1, <2>2
<1>6. (k + 1) * m = k * m + m
  BY <1>1
<1> HIDE DEF m
<1>7. ~(l <= k)
  <2>1. l <= k => l * m <= k * m
    BY <1>5
  <2> QED  BY <1>1, <1>2, <1>3, <1>4, <2>1
<1>8. k + 1 <= l
  BY <1>7
<1>9. (k + 1) * m <= l * m
  BY <1>5, <1>8
<1> QED  BY <1>1, <1>2, <1>3, <1>4, <1>6, <1>9 DEF m

\* Every policy is some handler's.
LEMMA ShareCovers ==
  ASSUME TypeOK, NEW p \in Policies
  PROVE  \E h \in Pool : IsOf(p, h)
<1> DEFINE m == m_pthreadnum
           k == (p - 1) \div m
           r == (p - 1) % m
<1>1. m \in Nat \ {0} /\ p \in Nat \ {0} /\ p - 1 \in Nat
  BY PoolType DEF Policies
<1>2. k \in Int /\ r \in 0 .. m - 1 /\ p - 1 = m * k + r
  BY <1>1
<1>3. k >= 0
  <2> SUFFICES ASSUME k <= -1 PROVE FALSE
    BY <1>2
  <2>1. m * (-1 - k) >= 0
    BY <1>1, <1>2
  <2>2. m * k <= -m
    BY <1>1, <1>2, <2>1
  <2> QED  BY <1>1, <1>2, <2>2
<1>4. k <= m * k
  <2>1. (m - 1) * k >= 0
    BY <1>1, <1>2, <1>3
  <2> QED  BY <1>1, <1>2, <2>1
<1>5. m * k \in Int /\ m * k = k * m
  BY <1>1, <1>2
<1> HIDE DEF k, r
<1>6. k \in 0 .. p
  BY <1>1, <1>2, <1>3, <1>4, <1>5
<1>7. r + 1 \in Pool /\ p = (r + 1) + k * m
  BY <1>1, <1>2, <1>5 DEF Pool
<1> QED  BY <1>6, <1>7 DEF IsOf

\* A turn of one handler leaves the policies of the others alone.
LEMMA OthersStay ==
  ASSUME HandoffInv, NEW h \in Pool, Handler(h), NEW g \in Pool, g # h,
         NEW p \in Policies, IsOf(p, g)
  PROVE  /\ runs'[p] = runs[p] /\ ranAt'[p] = ranAt[p] /\ m_mapFinished'[p] = m_mapFinished[p]
         /\ Storing(p)' <=> Storing(p)
         /\ Marking(p)' <=> Marking(p)
         /\ handlers'[g] = handlers[g]
<1>1. TypeOK /\ SharesKept
  BY DEF HandoffInv
<1>2. p \in Nat /\ handlers[h].p \in Nat /\ IsOf(handlers[h].p, h)
  BY HandlerPlace DEF Policies
<1>3. handlers[h].p # p
  BY <1>1, <1>2, ShareUnique
<1>4. runs'[p] = runs[p] /\ ranAt'[p] = ranAt[p] /\ m_mapFinished'[p] = m_mapFinished[p]
  BY <1>1, <1>3
     DEF Handler, HandlerLoops, HandlerRuns, HandlerSkips, HandlerStores, HandlerMarks,
         HandlerRests, HandlerEndsPass, HandlerWakes, taskVars, TypeOK
<1>5. PICK from, to, q : /\ Goes(h, from, to, q) /\ UNCHANGED handlerFrame
                         /\ to \in {"store", "mark"} => q = handlers[h].p
  BY Turns
<1> QED  BY <1>3, <1>4, <1>5, Turned DEF Goes

\* A handler looks ahead to less and less, until it begins a round.
LEMMA AheadShrinks ==
  ASSUME HandoffInv, NEW h \in Pool, Handler(h), NEW p \in Policies, Ahead(h, p)'
  PROVE  Ahead(h, p) \/ (HandlerLoops(h) /\ b_state[h])
<1>1. TypeOK /\ p \in Nat /\ handlers[h].p \in Nat /\ m_pthreadnum \in Nat \ {0} /\ h \in Nat
  BY HandlerPlace, PoolType DEF HandoffInv, Policies
<1>2. UNCHANGED handlerFrame /\ m_pthreadnum' = m_pthreadnum
  BY Turns DEF handlerFrame, policyVars
<1>3. /\ IsOf(p, h)
      /\ \/ handlers'[h].at = "pass" /\ handlers'[h].p <= p
         \/ handlers'[h].at \in {"store", "mark", "rest"} /\ handlers'[h].p < p
  BY <1>2 DEF Ahead, At, IsOf
<1>4. handlers[h].at \in {"pass", "store", "mark", "rest"} /\ handlers[h].p < p => Ahead(h, p)
  BY <1>1, <1>3 DEF Ahead, At
<1>5. CASE Goes(h, "while", IF b_state[h] THEN "pass" ELSE "gone", h) /\ HandlerLoops(h)
  BY <1>3, <1>5 DEF Goes
<1>6. CASE \/ Goes(h, "pass", "store", handlers[h].p) \/ Goes(h, "pass", "rest", handlers[h].p)
           \/ Goes(h, "store", "mark", handlers[h].p) \/ Goes(h, "mark", "rest", handlers[h].p)
  BY <1>3, <1>4, <1>6 DEF Goes, At
<1>7. CASE \/ Goes(h, "pass", "pass", handlers[h].p + m_pthreadnum)
           \/ Goes(h, "rest", "pass", handlers[h].p + m_pthreadnum)
  BY <1>1, <1>3, <1>4, <1>7 DEF Goes, At
<1>8. CASE \E from, q : Goes(h, from, "nap", q) \/ Goes(h, from, "while", q)
  BY <1>3, <1>8 DEF Goes
<1> QED  BY <1>5, <1>6, <1>7, <1>8, Turns

-----------------------------------------------------------------------------
(* Commands run twice at most *)

LEMMA InitRounds == Init => RoundsSound
<1> SUFFICES ASSUME Init PROVE RoundsSound
  OBVIOUS
<1>1. \A p \in Policies : ~Storing(p) /\ ~Marking(p) /\ ~m_mapFinished[p] /\ runs[p] = 0
  BY DEF Init, Storing, Marking, IsAt, At
<1>2. \A h \in Pool : b_state[h] /\ reporter.at = "scan"
  BY DEF Init
<1>3. \A g, h \in Pool : b_state[g] = b_state[h]
  BY DEF Init
<1>4. \A h \in Pool, p \in Policies : runs[p] <= IF Ahead(h, p) THEN 1 ELSE 2
  BY <1>1
<1> QED  BY <1>1, <1>2, <1>3, <1>4 DEF RoundsSound

\* A policy is run, or what was stored for it stays.
LEMMA RunsOrNot ==
  ASSUME HandoffInv, NEW h \in Pool, Handler(h), NEW p \in Policies,
         ~(HandlerRuns(h) /\ handlers[h].p = p)
  PROVE  /\ runs'[p] = runs[p]
         /\ (Storing(p)' \/ Marking(p)' \/ m_mapFinished'[p])
              <=> (Storing(p) \/ Marking(p) \/ m_mapFinished[p])
         /\ Marking(p)' \/ m_mapFinished'[p] =>
              Marking(p) \/ m_mapFinished[p] \/ HandlerStores(h)
<1>1. TypeOK /\ SharesKept /\ UNCHANGED handlerFrame
  BY Turns DEF HandoffInv
<1>2. runs'[p] = runs[p]
  BY <1>1 DEF Handler, HandlerLoops, HandlerRuns, HandlerSkips, HandlerStores, HandlerMarks,
              HandlerRests, HandlerEndsPass, HandlerWakes, taskVars, TypeOK
<1>3. CASE HandlerStores(h)
  <2>1. Goes(h, "store", "mark", handlers[h].p) /\ m_mapFinished' = m_mapFinished
    BY <1>3, Lands DEF HandlerStores, HandlerTo
  <2>2. handlers[h].p = p => Storing(p)
    BY <1>1, <2>1, AtPolicy DEF Goes
  <2> QED  BY <1>1, <1>2, <1>3, <2>1, <2>2, Turned
<1>4. CASE HandlerMarks(h)
  <2>1. /\ Goes(h, "mark", "rest", handlers[h].p)
        /\ m_mapFinished' = [m_mapFinished EXCEPT ![handlers[h].p] = TRUE]
    BY <1>4, Lands DEF HandlerMarks, HandlerTo
  <2>2. handlers[h].p = p => Marking(p)
    BY <1>1, <2>1, AtPolicy DEF Goes
  <2>3. m_mapFinished'[p] <=> m_mapFinished[p] \/ handlers[h].p = p
    BY <1>1, <2>1 DEF TypeOK
  <2> QED  BY <1>1, <1>2, <2>1, <2>2, <2>3, Turned
<1>5. CASE ~HandlerStores(h) /\ ~HandlerMarks(h)
  <2>1. m_mapFinished' = m_mapFinished
    BY <1>5 DEF Handler, HandlerLoops, HandlerRuns, HandlerSkips, HandlerRests,
                HandlerEndsPass, HandlerWakes
  <2>2. \E from, to, q : /\ Goes(h, from, to, q) /\ from \notin {"store", "mark"}
                         /\ to # "mark" /\ (to = "store" => q # p)
    BY <1>5, Turns
  <2> QED  BY <1>1, <1>2, <2>1, <2>2, Turned
<1> QED  BY <1>3, <1>4, <1>5

\* A handler's own policies.
LEMMA OwnRounds ==
  ASSUME RoundsInv, kind \in Commanded, NEW h \in Pool, Handler(h), NEW p \in Policies,
         IsOf(p, h)
  PROVE  /\ b_state[h] =>
              runs'[p] = IF Storing(p)' \/ Marking(p)' \/ m_mapFinished'[p] THEN 1 ELSE 0
         /\ runs'[p] <= IF Ahead(h, p)' THEN 1 ELSE 2
<1>1. HandoffInv /\ TypeOK /\ SharesKept /\ UNCHANGED handlerFrame
  BY Turns DEF RoundsInv, HandoffInv
<1>2. /\ b_state[h] => runs[p] = IF Storing(p) \/ Marking(p) \/ m_mapFinished[p] THEN 1 ELSE 0
      /\ runs[p] <= IF Ahead(h, p) THEN 1 ELSE 2
      /\ runs[p] \in Nat
  BY <1>1 DEF RoundsInv, RoundsSound, TypeOK
<1>3. Ahead(h, p)' => Ahead(h, p) \/ (HandlerLoops(h) /\ b_state[h])
  BY <1>1, AheadShrinks
<1>4. CASE HandlerRuns(h) /\ handlers[h].p = p
  <2>1. /\ At(h, "pass") /\ Wanted(p) /\ runs' = [runs EXCEPT ![p] = @ + 1]
        /\ m_mapFinished' = m_mapFinished
    BY <1>4 DEF HandlerRuns
  <2>2. kind \in Gated /\ kind \notin Silent
    BY DEF Gated, Silent, Commanded
  <2>3. ~m_mapFinished[p] /\ ~Storing(p) /\ ~Marking(p)
    BY <1>1, <1>4, <2>1, <2>2, AtPolicy DEF Wanted, At
  <2>4. Goes(h, "pass", "store", p)
    BY <1>1, <1>4, <2>2, Lands DEF HandlerRuns, HandlerTo
  <2>5. Storing(p)'
    BY <1>1, <2>4, Turned
  <2>6. Ahead(h, p)
    BY <1>4, <2>1 DEF Ahead, Policies
  <2>7. ~Ahead(h, p)'
    BY <1>1, <2>4 DEF Goes, Ahead, At, Policies
  <2>8. runs'[p] = runs[p] + 1
    BY <1>1, <2>1 DEF TypeOK
  <2> QED  BY <1>2, <2>3, <2>5, <2>6, <2>7, <2>8
<1>5. CASE ~(HandlerRuns(h) /\ handlers[h].p = p)
  <2>1. /\ runs'[p] = runs[p]
        /\ (Storing(p)' \/ Marking(p)' \/ m_mapFinished'[p])
             <=> (Storing(p) \/ Marking(p) \/ m_mapFinished[p])
    BY <1>1, <1>5, RunsOrNot
  <2>3. HandlerLoops(h) /\ b_state[h] => runs[p] <= 1
    BY <1>2
  <2> QED  BY <1>2, <1>3, <2>1, <2>3
<1> QED  BY <1>4, <1>5

LEMMA HandlerRounds ==
  ASSUME RoundsInv, NEW h \in Pool, Handler(h)
  PROVE  RoundsSound'
<1>1. HandoffInv /\ RoundsSound /\ UNCHANGED handlerFrame
  BY Turns DEF RoundsInv
<1>2. /\ kind' = kind /\ Pool' = Pool /\ b_state' = b_state /\ reporter' = reporter
      /\ m_pthreadnum' = m_pthreadnum
  BY <1>1 DEF handlerFrame, policyVars, Pool
<1>3. ASSUME kind \in Commanded, NEW g \in Pool, NEW p \in Policies, IsOf(p, g)
      PROVE  /\ b_state[g] =>
                  runs'[p] = IF Storing(p)' \/ Marking(p)' \/ m_mapFinished'[p] THEN 1 ELSE 0
             /\ runs'[p] <= IF Ahead(g, p)' THEN 1 ELSE 2
  <2>1. CASE g = h
    BY <1>3, <2>1, OwnRounds
  <2>2. CASE g # h
    <3>1. /\ runs'[p] = runs[p] /\ m_mapFinished'[p] = m_mapFinished[p]
          /\ Storing(p)' <=> Storing(p)
          /\ Marking(p)' <=> Marking(p)
          /\ handlers'[g] = handlers[g]
      BY <1>1, <1>3, <2>2, OthersStay
    <3>2. Ahead(g, p)' <=> Ahead(g, p)
      BY <1>2, <3>1 DEF Ahead, IsOf, At
    <3> QED  BY <1>1, <1>3, <3>1, <3>2 DEF RoundsSound
  <2> QED  BY <2>1, <2>2
<1> QED  BY <1>1, <1>2, <1>3 DEF RoundsSound, IsOf

\* The other threads' steps change flags and the report thread's place.
LEMMA OtherRounds ==
  ASSUME RoundsInv, UNCHANGED <<policyVars, handlers, runs>>,
         \/ b_state' = b_state /\ m_mapFinished' = m_mapFinished
            /\ (kind \in Commanded /\ reporter'.at = "reset" => reporter.at = "reset")
         \/ \A g, h \in Pool : ~b_state'[h] /\ b_state'[g] = b_state'[h]
  PROVE  RoundsSound'
<1>1. HandoffInv /\ RoundsSound
  BY DEF RoundsInv
<1>2. \A r \in Policies : (Storing(r)' <=> Storing(r)) /\ (Marking(r)' <=> Marking(r))
  BY <1>1, HandlersStay
<1>3. Pool' = Pool /\ \A h \in Pool, p \in Policies :
        /\ Ahead(h, p)' <=> Ahead(h, p)
        /\ IsOf(p, h)' <=> IsOf(p, h)
  BY DEF policyVars, Pool, Ahead, IsOf, At
<1>4. kind' = kind /\ runs' = runs
  BY DEF policyVars
<1>5. CASE b_state' = b_state /\ m_mapFinished' = m_mapFinished
           /\ (kind \in Commanded /\ reporter'.at = "reset" => reporter.at = "reset")
  BY <1>1, <1>2, <1>3, <1>4, <1>5 DEF RoundsSound
<1>6. CASE \A g, h \in Pool : ~b_state'[h] /\ b_state'[g] = b_state'[h]
  BY <1>1, <1>3, <1>4, <1>6 DEF RoundsSound
<1> QED  BY <1>5, <1>6

LEMMA RoundsStep ==
  ASSUME RoundsInv, [Next]_vars
  PROVE  RoundsInv'
<1>1. HandoffInv /\ HandoffInv' /\ RoundsSound
  BY NextHandoff DEF RoundsInv
<1>2. CASE \E h \in Pool : Handler(h)
  BY <1>1, <1>2, HandlerRounds DEF RoundsInv
<1>3. CASE WorkerStops \/ ReporterStops
  <2>1. /\ UNCHANGED <<policyVars, handlers, runs>> /\ b_state' = [h \in Pool |-> FALSE]
    BY <1>3 DEF WorkerStops, ReporterStops, Stop, reporterFrame, taskVars
  <2>2. \A g, h \in Pool : ~b_state'[h] /\ b_state'[g] = b_state'[h]
    BY <2>1
  <2> QED  BY <1>1, <2>1, <2>2, OtherRounds DEF RoundsInv
<1>4. CASE ReporterResets
  <2>1. /\ UNCHANGED <<policyVars, handlers, runs, b_state>> /\ reporter.at = "reset"
    BY <1>4 DEF ReporterResets, reporterFrame, taskVars
  <2>2. CASE kind \in Commanded
    <3>1. \A g, h \in Pool : ~b_state'[h] /\ b_state'[g] = b_state'[h]
      <4>1. \A h \in Pool : IsOf(h, h) /\ h \in Policies
        BY <1>1, HandlerPlace
      <4> QED  BY <1>1, <2>1, <2>2, <4>1 DEF RoundsSound
    <3> QED  BY <1>1, <2>1, <3>1, OtherRounds DEF RoundsInv
  <2>3. CASE kind \notin Commanded
    BY <1>1, <2>1, <2>3 DEF RoundsInv, RoundsSound, policyVars
  <2> QED  BY <2>2, <2>3
<1>5. CASE Tick \/ ReporterScans \/ ReporterSends \/ ReporterNotes \/ ReporterLoops
             \/ UNCHANGED vars
  <2>1. /\ UNCHANGED <<policyVars, handlers, runs, b_state, m_mapFinished>>
    BY <1>5 DEF Tick, ReporterScans, ReporterSends, ReporterNotes, ReporterLoops,
                reporterFrame, taskVars, vars
  <2>2. kind \in Commanded /\ reporter'.at = "reset" => reporter.at = "reset"
    BY <1>5 DEF Tick, ReporterScans, ReporterSends, ReporterNotes, ReporterLoops,
                ReporterTo, vars
  <2> QED  BY <1>1, <2>1, <2>2, OtherRounds DEF RoundsInv
<1> QED  BY <1>2, <1>3, <1>4, <1>5 DEF Next, Reporter

LEMMA RoundsHold == Spec => []RoundsInv
<1>1. Init => RoundsInv
  BY InitHandoff, InitRounds DEF RoundsInv
<1> QED  BY <1>1, RoundsStep, PTL DEF Spec

\* A task that is to run once, and a command, run twice at most, however the threads are
\* interleaved and whether reports fail or not: controller and threatint stop themselves
\* before they reset a flag.
THEOREM RunsAreBounded == Spec => []RunsBounded
<1>1. RoundsInv => CommandsBounded
  <2> SUFFICES ASSUME RoundsInv, NEW p \in Policies, kind \in Commanded
               PROVE  runs[p] <= 2
    BY DEF CommandsBounded
  <2>1. TypeOK /\ RoundsSound
    BY DEF RoundsInv, HandoffInv
  <2>2. PICK h \in Pool : IsOf(p, h)
    BY <2>1, ShareCovers
  <2>3. runs[p] \in Nat /\ runs[p] <= IF Ahead(h, p) THEN 1 ELSE 2
    BY <2>1, <2>2 DEF RoundsSound, TypeOK
  <2> QED  BY <2>3
<1> QED  BY <1>1, OnceIsOnce, RoundsHold, PTL DEF RunsBounded

-----------------------------------------------------------------------------
(* The last task of a thread begins once in a minute *)

\* What MinutesSound says of a handler and the last task of its share.
Rested(at, p, since, last, running) ==
  /\ at = "while" => ranAt[last] < minute \/ ~running
  /\ at = "pass" => ranAt[last] < minute
  /\ at \in {"store", "mark", "rest"} => ranAt[last] < minute \/ p = last
  /\ at = "nap" => ranAt[last] <= since

LEMMA MinuteTypes ==
  ASSUME HandoffInv
  PROVE  /\ minute \in Nat
         /\ \A p \in Policies : ranAt[p] \in Int
         /\ \A h \in Pool : handlers[h].since \in Int /\ handlers[h].at \in HandlerAt
<1>1. Minutes \subseteq Nat /\ Minutes \subseteq Int /\ Never \in Int
  BY TaskAssumption DEF Minutes, Never
<1>2. TypeOK
  BY DEF HandoffInv
<1>3. minute \in Nat
  BY <1>1, <1>2 DEF TypeOK
<1>4. ASSUME NEW p \in Policies
      PROVE  ranAt[p] \in Int
  <2>1. ranAt[p] \in Minutes \union {Never}
    BY <1>2 DEF TypeOK
  <2> QED  BY <1>1, <2>1
<1>5. ASSUME NEW h \in Pool
      PROVE  handlers[h].since \in Int /\ handlers[h].at \in HandlerAt
  <2>1. handlers[h].since \in Minutes /\ handlers[h].at \in HandlerAt
    BY <1>2 DEF TypeOK
  <2> QED  BY <1>1, <2>1
<1> QED  BY <1>3, <1>4, <1>5

LEMMA MinutesAre ==
  MinutesSound <=>
    (kind = "inspector" =>
       \A h \in Pool, p \in Policies : IsOf(p, h) /\ IsLast(p) =>
         /\ ranAt[p] <= minute
         /\ Rested(handlers[h].at, handlers[h].p, handlers[h].since, p, b_state[h]))
BY DEF MinutesSound, Rested, At

\* The last policy of a handler is its only one.
LEMMA LastIsOne ==
  ASSUME HandoffInv, NEW h \in Pool, NEW p \in Policies, NEW q \in Policies,
         IsOf(p, h), IsOf(q, h), IsLast(p), IsLast(q)
  PROVE  p = q
<1>1. TypeOK /\ p \in Nat /\ q \in Nat /\ p <= NPolicies /\ q <= NPolicies
      /\ NPolicies \in Nat /\ m_pthreadnum \in Nat
  BY PoolType DEF HandoffInv, Policies
<1>2. p < q => p + m_pthreadnum <= q
  BY <1>1, ShareNext
<1>3. q < p => q + m_pthreadnum <= p
  BY <1>1, ShareNext
<1> QED  BY <1>1, <1>2, <1>3 DEF IsLast

LEMMA HandlerMinutes ==
  ASSUME MinutesInv, kind = "inspector", NEW h \in Pool, Handler(h), NEW p \in Policies,
         IsOf(p, h), IsLast(p)
  PROVE  /\ ranAt'[p] <= minute'
         /\ Rested(handlers[h].at, handlers[h].p, handlers[h].since, p, b_state[h])'
<1>1. HandoffInv /\ MinutesSound /\ UNCHANGED handlerFrame /\ minute' = minute
      /\ b_state' = b_state
  BY Turns DEF MinutesInv, handlerFrame
<1>2. /\ ranAt[p] <= minute
      /\ Rested(handlers[h].at, handlers[h].p, handlers[h].since, p, b_state[h])
  BY <1>1, MinutesAre
<1>3. minute \in Nat /\ ranAt[p] \in Int /\ handlers[h].at \in HandlerAt
      /\ handlers[h].since \in Int
  BY <1>1, MinuteTypes
<1> DEFINE q == handlers[h].p
<1>4. CASE HandlerRuns(h)
  <2>1. Goes(h, "pass", "store", q)
    BY <1>1, <1>4, Lands DEF HandlerRuns, HandlerTo, Silent
  <2>2. ranAt'[p] = (IF p = q THEN minute ELSE ranAt[p])
    BY <1>1, <1>4 DEF HandlerRuns, HandoffInv, TypeOK
  <2> QED  BY <1>1, <1>2, <1>3, <2>1, <2>2 DEF Goes, Rested, At
<1>5. CASE ~HandlerRuns(h)
  <2>1. ranAt' = ranAt
    BY <1>5 DEF Handler, HandlerLoops, HandlerSkips, HandlerStores, HandlerMarks,
                HandlerRests, HandlerEndsPass, HandlerWakes, taskVars
  <2>2. CASE HandlerLoops(h) /\ Goes(h, "while", IF b_state[h] THEN "pass" ELSE "gone", h)
    BY <1>1, <1>2, <2>1, <2>2 DEF Goes, Rested, At
  <2>3. CASE \/ Goes(h, "pass", "rest", q)
             \/ Goes(h, "pass", "pass", q + m_pthreadnum)
             \/ Goes(h, "pass", "while", h)
    BY <1>1, <1>2, <2>1, <2>3 DEF Goes, Rested, At
  <2>4. CASE Goes(h, "store", "mark", q) \/ Goes(h, "mark", "rest", q)
    BY <1>1, <1>2, <2>1, <2>4 DEF Goes, Rested, At
  <2>5. CASE HandlerRests(h)
    <3>1. At(h, "rest")
      BY <2>5 DEF HandlerRests
    <3>2. kind \in Scheduled /\ kind \notin Breaking
      BY DEF Scheduled, Breaking
    <3>3. CASE IsLast(q)
      <4>1. Goes(h, "rest", "nap", h) /\ handlers'[h].since = minute
        BY <1>1, <2>5, <3>2, <3>3, Lands DEF HandlerRests, HandlerNaps
      <4> QED  BY <1>1, <1>2, <2>1, <4>1 DEF Goes, Rested
    <3>4. CASE ~IsLast(q)
      <4>1. Goes(h, "rest", "pass", q + m_pthreadnum)
        BY <1>1, <2>5, <3>2, <3>4, Lands DEF HandlerRests, HandlerTo
      <4>2. ranAt[p] < minute
        BY <1>2, <3>1, <3>4 DEF Rested, At
      <4> QED  BY <1>1, <1>2, <2>1, <4>1, <4>2 DEF Goes, Rested
    <3> QED  BY <3>3, <3>4
  <2>6. CASE HandlerEndsPass(h) /\ kind \notin Scheduled
    BY <2>6 DEF Scheduled
  <2>7. CASE HandlerWakes(h) /\ Goes(h, "nap", "while", h)
    <3>1. b_state[h] => minute > handlers[h].since
      BY <2>7 DEF HandlerWakes
    <3>2. ranAt[p] <= handlers[h].since
      BY <1>2, <2>7 DEF Rested, Goes, At
    <3>3. ranAt[p] < minute \/ ~b_state[h]
      BY <1>3, <3>1, <3>2
    <3> QED  BY <1>1, <1>2, <2>1, <2>7, <3>3 DEF Goes, Rested
  <2> QED  BY <1>1, <1>5, <2>2, <2>3, <2>4, <2>5, <2>6, <2>7, Turns
<1> QED  BY <1>4, <1>5

LEMMA MinutesStep ==
  ASSUME MinutesInv, [Next]_vars
  PROVE  MinutesInv'
<1>1. HandoffInv' /\ HandoffInv /\ MinutesSound
  BY NextHandoff DEF MinutesInv
<1>2. CASE \E h \in Pool : Handler(h)
  <2>1. PICK h \in Pool : Handler(h)
    BY <1>2
  <2>2. /\ kind' = kind /\ Pool' = Pool /\ b_state' = b_state /\ minute' = minute
        /\ \A g \in Pool, p \in Policies : /\ IsOf(p, g)' <=> IsOf(p, g)
                                           /\ IsLast(p)' <=> IsLast(p)
    BY <1>1, <2>1, Turns DEF handlerFrame, policyVars, Pool, IsOf, IsLast
  <2>3. ASSUME kind = "inspector", NEW g \in Pool, NEW p \in Policies, IsOf(p, g), IsLast(p)
        PROVE  /\ ranAt'[p] <= minute'
               /\ Rested(handlers[g].at, handlers[g].p, handlers[g].since, p, b_state[g])'
    <3>1. CASE g = h
      BY <2>1, <2>3, <3>1, HandlerMinutes
    <3>2. CASE g # h
      <4>1. ranAt'[p] = ranAt[p] /\ handlers'[g] = handlers[g]
        BY <1>1, <2>1, <2>3, <3>2, OthersStay
      <4>2. /\ ranAt[p] <= minute
            /\ Rested(handlers[g].at, handlers[g].p, handlers[g].since, p, b_state[g])
        BY <1>1, <2>3, MinutesAre
      <4> QED  BY <2>2, <4>1, <4>2 DEF Rested
    <3> QED  BY <3>1, <3>2
  <2>4. MinutesSound'
    BY <2>2, <2>3 DEF MinutesSound, Rested, At
  <2> QED  BY <1>1, <2>4 DEF MinutesInv
<1>3. CASE Tick \/ WorkerStops \/ Reporter \/ UNCHANGED vars
  <2>1. /\ UNCHANGED <<policyVars, handlers, ranAt>>
        /\ minute' = minute \/ minute' = minute + 1
        /\ b_state' = b_state \/ b_state' = [h \in Pool |-> FALSE]
    BY <1>3 DEF Tick, WorkerStops, Stop, Reporter, ReporterScans, ReporterSends,
                ReporterStops, ReporterResets, ReporterNotes, ReporterLoops, reporterFrame,
                taskVars, vars
  <2>2. /\ kind' = kind /\ Pool' = Pool
        /\ \A g \in Pool, p \in Policies : /\ IsOf(p, g)' <=> IsOf(p, g)
                                           /\ IsLast(p)' <=> IsLast(p)
    BY <2>1 DEF policyVars, Pool, IsOf, IsLast
  <2>3. minute \in Nat /\ \A p \in Policies : ranAt[p] \in Int
    BY <1>1, MinuteTypes
  <2>4. ASSUME kind = "inspector", NEW g \in Pool, NEW p \in Policies, IsOf(p, g), IsLast(p)
        PROVE  /\ ranAt'[p] <= minute'
               /\ Rested(handlers[g].at, handlers[g].p, handlers[g].since, p, b_state[g])'
    <3>1. /\ ranAt[p] <= minute
          /\ Rested(handlers[g].at, handlers[g].p, handlers[g].since, p, b_state[g])
      BY <1>1, <2>4, MinutesAre
    <3>2. /\ ranAt[p] <= minute' /\ (ranAt[p] < minute => ranAt[p] < minute')
          /\ b_state'[g] => b_state[g]
      BY <2>1, <2>3, <3>1
    <3> QED  BY <2>1, <3>1, <3>2 DEF Rested
  <2>5. MinutesSound'
    BY <2>2, <2>4 DEF MinutesSound, Rested, At
  <2> QED  BY <1>1, <2>5 DEF MinutesInv
<1> QED  BY <1>2, <1>3 DEF Next

LEMMA InitMinutes == Init => MinutesSound
<1> SUFFICES ASSUME Init PROVE MinutesSound
  OBVIOUS
<1>1. /\ minute = 0 /\ \A p \in Policies : ranAt[p] = -1
      /\ \A h \in Pool : handlers[h].at = "while"
  BY DEF Init, Never
<1>2. \A p \in Policies : ranAt[p] < minute /\ ranAt[p] <= minute
  BY <1>1
<1>3. \A h \in Pool, p \in Policies :
        /\ ranAt[p] <= minute
        /\ Rested(handlers[h].at, handlers[h].p, handlers[h].since, p, b_state[h])
  BY <1>1, <1>2 DEF Rested
<1> QED  BY <1>3, MinutesAre

\* A handler of inspector that has run its last task does not run it again in the same
\* minute: it sleeps into the next one, unless the plugin is told to stop.
THEOREM BeginsOnceAMinute == Spec => OnceAMinute
<1> DEFINE Begin ==
      \A p \in Policies :
        runs'[p] # runs[p] /\ kind = "inspector" /\ IsLast(p) => ranAt[p] # minute
<1>1. Init => MinutesInv
  BY InitHandoff, InitMinutes DEF MinutesInv
<1>2. MinutesInv /\ [Next]_vars => [Begin]_vars
  <2> SUFFICES ASSUME MinutesInv, Next, NEW p \in Policies, runs'[p] # runs[p],
                      kind = "inspector", IsLast(p)
               PROVE  ranAt[p] # minute
    OBVIOUS
  <2>1. HandoffInv /\ TypeOK /\ MinutesSound
    BY DEF MinutesInv, HandoffInv
  <2>2. PICK h \in Pool : HandlerRuns(h)
    BY DEF Next, Tick, WorkerStops, Handler, HandlerLoops, HandlerSkips, HandlerStores,
           HandlerMarks, HandlerRests, HandlerEndsPass, HandlerWakes, Reporter,
           ReporterScans, ReporterSends, ReporterStops, ReporterResets, ReporterNotes,
           ReporterLoops, reporterFrame, taskVars
  <2>3. At(h, "pass") /\ handlers[h].p = p
    BY <2>1, <2>2 DEF HandlerRuns, TypeOK
  <2>4. ranAt[p] \in Int /\ minute \in Int
    BY <2>1, MinuteTypes
  <2>5. IsOf(p, h)
    BY <2>1, <2>3, HandlerPlace
  <2>6. ranAt[p] < minute
    BY <2>1, <2>3, <2>5 DEF MinutesSound, At
  <2> QED  BY <2>4, <2>6
<1>3. MinutesInv /\ [Next]_vars => MinutesInv'
  BY MinutesStep
<1> QED  BY <1>1, <1>2, <1>3, PTL DEF Spec, OnceAMinute
=============================================================================
