----------------------------- MODULE TraderStatus -----------------------------
(***************************************************************************)
(* What the API promises of one trader, whoever asks and whatever runs     *)
(* underneath: its status follows the documented machine                   *)
(*    idle -> running <-> paused, running | paused -> stopped -> running   *)
(* and its configuration does not move while it runs.  A start that turns  *)
(* out impossible is taken back to idle, as long as it is being tried: a   *)
(* pause or a stop that was accepted since stands.                         *)
(***************************************************************************)
CONSTANT Configs

VARIABLES
  status,
  config,
  trial    \* a start was accepted and it is not known yet whether it holds

Init ==
  /\ status = "idle"
  /\ config \in Configs
  /\ trial = FALSE

(* A start, which is tried, or a resume, which is not. *)
Begin ==
  /\ status \in {"idle", "paused", "stopped"}
  /\ status' = "running"
  /\ trial' \in BOOLEAN
  /\ UNCHANGED config

Suspend ==
  /\ status = "running"
  /\ status' = "paused"
  /\ trial' = FALSE
  /\ UNCHANGED config

End ==
  /\ status \in {"running", "paused"}
  /\ status' = "stopped"
  /\ trial' = FALSE
  /\ UNCHANGED config

Settle ==
  /\ trial
  /\ trial' = FALSE
  /\ UNCHANGED <<status, config>>

FallBack ==
  /\ trial
  /\ status = "running"
  /\ status' = "idle"
  /\ trial' = FALSE
  /\ UNCHANGED config

Configure ==
  /\ status # "running"
  /\ config' \in Configs
  /\ UNCHANGED <<status, trial>>

Next == Begin \/ Suspend \/ End \/ Settle \/ FallBack \/ Configure

Spec == Init /\ [][Next]_<<status, config, trial>>

===============================================================================
