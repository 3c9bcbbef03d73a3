----------------------------- MODULE ModeSwitch -----------------------------
(***************************************************************************)
(* What switching the Wi-Fi mode promises, without queues, events or       *)
(* tasks.  A mode is recorded at any time; a run takes the recorded mode   *)
(* once and brings up its interface and no other, taking down first what   *)
(* else is up; it ends with its interface up, or gives up with none.       *)
(*                                                                         *)
(* The constants StopFails and Disturbed weaken the promise by what the    *)
(* firmware cannot answer for: then a running interface may be exchanged   *)
(* for another one directly, and a run that gives up may leave one behind. *)
(***************************************************************************)
CONSTANTS
  Modes,      \* what can be asked for; also the interfaces
  NoMode,     \* nothing recorded yet
  Off,        \* no interface is up
  StopFails,  \* taking the interface down may fail
  Disturbed   \* others take the interface down as well

VARIABLES
  target,     \* the mode last recorded
  run,        \* the mode the current, or last, run has taken
  phase,      \* "idle": no run has taken a mode; "down": its interface is
              \* not up yet; "up": it is
  on          \* the interface that is up

vars == <<target, run, phase, on>>

Unclean == StopFails \/ Disturbed

Record ==
  /\ target' \in Modes
  /\ UNCHANGED <<run, phase, on>>

Take ==
  /\ phase = "idle" /\ target # NoMode
  /\ run' = target
  /\ phase' = "down"
  /\ UNCHANGED <<target, on>>

Lower ==
  /\ phase = "down" \/ Disturbed
  /\ on' = Off
  /\ UNCHANGED <<target, run, phase>>

Exchange ==
  /\ Unclean
  /\ phase = "down" /\ on # Off
  /\ on' = run
  /\ UNCHANGED <<target, run, phase>>

Raise ==
  /\ phase = "down"
  /\ on = Off \/ (Unclean /\ on = run)
  /\ on' = run
  /\ phase' = "up"
  /\ UNCHANGED <<target, run>>

Finish ==
  /\ phase = "up"
  /\ on = run \/ Disturbed
  /\ phase' = "idle"
  /\ UNCHANGED <<target, run, on>>

GiveUp ==
  /\ phase = "down"
  /\ on = Off \/ Unclean
  /\ phase' = "idle"
  /\ UNCHANGED <<target, run, on>>

Init == target = NoMode /\ run = NoMode /\ phase = "idle" /\ on = Off

Next == Record \/ Take \/ Lower \/ Exchange \/ Raise \/ Finish \/ GiveUp

Spec == Init /\ [][Next]_vars
=============================================================================
