------------------------------ MODULE PluginLife ------------------------------
(***************************************************************************)
(* What a plugin promises its manager, whatever it does inside: the        *)
(* interface CScModuleBase of common/BDScModuleBase.h as CBDScModuleMgr    *)
(* relies on it.  A stopped plugin takes policies; a start that succeeds   *)
(* leads to a running plugin; a stop leads to a stopped one; a plugin is   *)
(* only freed when it is stopped.  A plugin that was given nothing to do   *)
(* stops by itself, and a self-stopping one when it has reported a result. *)
(***************************************************************************)
CONSTANT
  SelfStopping  \* the plugin's report thread calls the plugin's own Stop

VARIABLES
  life,    \* the plugin's state
  tasked   \* the last policies left the plugin something to do

lifeVars == <<life, tasked>>

Init == life = "unloaded" /\ tasked = FALSE

Move(from, to) == life \in from /\ life' = to

Load == Move({"unloaded"}, "stopped") /\ tasked' = FALSE
Configure == Move({"stopped"}, "stopped") /\ tasked' \in BOOLEAN
BeginStart == Move({"stopped"}, "starting") /\ UNCHANGED tasked
FailStart == Move({"starting"}, "stopped") /\ UNCHANGED tasked
Up == Move({"starting"}, "running") /\ UNCHANGED tasked
BeginStop == Move({"running"}, "stopping") /\ UNCHANGED tasked
Down == Move(IF tasked THEN {"stopping"} ELSE {"running", "stopping"}, "stopped")
        /\ UNCHANGED tasked
Quit == SelfStopping /\ Move({"running"}, "stopped") /\ UNCHANGED tasked
Unload == Move({"stopped"}, "unloaded") /\ tasked' = FALSE

Next ==
  \/ Load \/ Configure \/ BeginStart \/ FailStart \/ Up \/ BeginStop \/ Down
  \/ Quit \/ Unload

Spec == Init /\ [][Next]_lifeVars

\* A start and a stop come to their end.
Progress == WF_lifeVars(Up) /\ WF_lifeVars(Down)
=============================================================================
