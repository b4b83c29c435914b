---------------------------- MODULE ThumbnailCall ----------------------------
(***************************************************************************)
(* What a caller of ThumbnailCreator::create relies on when the plugin     *)
(* uses an external renderer: calls do not overlap, a call starts at most  *)
(* one renderer, and no renderer outlives the call that started it.        *)
(***************************************************************************)
VARIABLES
  phase,     \* "idle" or "busy"
  renderer,  \* "none", "alive" or "dead" (ended, not yet waited for)
  started,   \* the current call has started, or given up starting, a renderer
  answer     \* result of the last call

vars == <<phase, renderer, started, answer>>

Init == phase = "idle" /\ renderer = "none" /\ started = FALSE /\ answer = "none"

Begin == /\ phase = "idle" /\ phase' = "busy"
         /\ UNCHANGED <<renderer, started, answer>>

Start == /\ phase = "busy" /\ ~started
         /\ started' = TRUE /\ renderer' = "alive"
         /\ UNCHANGED <<phase, answer>>

\* The renderer could not be started.
GiveUp == /\ phase = "busy" /\ ~started
          /\ started' = TRUE
          /\ UNCHANGED <<phase, renderer, answer>>

End == /\ renderer = "alive" /\ renderer' = "dead"
       /\ UNCHANGED <<phase, started, answer>>

Reap == /\ phase = "busy" /\ renderer = "dead" /\ renderer' = "none"
        /\ UNCHANGED <<phase, started, answer>>

Answer == /\ phase = "busy" /\ renderer = "none"
          /\ phase' = "idle" /\ started' = FALSE
          /\ answer' \in {"pass", "fail"}
          /\ UNCHANGED renderer

Next == Begin \/ Start \/ GiveUp \/ End \/ Reap \/ Answer

Spec == Init /\ [][Next]_vars
=============================================================================
