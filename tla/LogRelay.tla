-------------------------------- MODULE LogRelay --------------------------------
(***************************************************************************)
(* What a plugin that listens on a port promises: the records it accepts   *)
(* are passed on in the order of their arrival and each of them once, those*)
(* of the sources that the policy filters are dropped, and nothing else is *)
(* lost as long as the port is open.                                       *)
(***************************************************************************)
EXTENDS Sequences

CONSTANTS Records, Sources, SourceOf(_)

VARIABLES waiting, reported, filtered, open

relayVars == <<waiting, reported, filtered, open>>

Init == waiting = <<>> /\ reported = <<>> /\ filtered = {} /\ open = FALSE

Accept(rec) ==
  /\ waiting' = Append(waiting, rec)
  /\ UNCHANGED <<reported, filtered, open>>

Report ==
  /\ waiting # <<>>
  /\ SourceOf(Head(waiting)) \notin filtered
  /\ reported' = Append(reported, Head(waiting))
  /\ waiting' = Tail(waiting)
  /\ UNCHANGED <<filtered, open>>

Filter ==
  /\ waiting # <<>>
  /\ SourceOf(Head(waiting)) \in filtered
  /\ waiting' = Tail(waiting)
  /\ UNCHANGED <<reported, filtered, open>>

Open == open' = TRUE /\ UNCHANGED <<waiting, reported, filtered>>

Close == open' = FALSE /\ UNCHANGED <<waiting, reported, filtered>>

Forget == ~open /\ waiting' = <<>> /\ UNCHANGED <<reported, filtered, open>>

Configure ==
  /\ ~open
  /\ filtered' \in SUBSET Sources
  /\ UNCHANGED <<waiting, reported, open>>

Next ==
  \/ \E rec \in Records : Accept(rec)
  \/ Report \/ Filter \/ Open \/ Close \/ Forget \/ Configure

Spec == Init /\ [][Next]_relayVars
=============================================================================
