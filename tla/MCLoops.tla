------------------------------- MODULE MCLoops -------------------------------
(***************************************************************************)
(* The TLC instance of what runs in loops: a trader whose starts and stops *)
(* overlap, and a backtest run.  A behaviour is of one of them, its part;  *)
(* the other rests where no action of it that is fair is enabled.          *)
(***************************************************************************)
EXTENDS TraderLifecycle, BacktestRuns

VARIABLE part

loopsVars == <<part, vars, runVars>>

LoopsInit == part \in {"trader", "backtest"} /\ Init /\ RunsInit
LoopsNext ==
  /\ UNCHANGED part
  /\ IF part = "trader" THEN Next ELSE UNCHANGED vars
  /\ IF part = "backtest" THEN RunsNext ELSE UNCHANGED runVars

LoopsSpec == LoopsInit /\ [][LoopsNext]_loopsVars /\ Fairness /\ RunsFairness
===============================================================================
