--------------------------------- MODULE MCApi ---------------------------------
(***************************************************************************)
(* The TLC instance of the decisions of a cycle and of the components of   *)
(* the API that keep rows and counters: strategies, model configurations,  *)
(* the Telegram binding, exchange accounts, user accounts, a tab's login,  *)
(* lists, and the limiter and the signature check in front of them.  They  *)
(* share no state here, so a behaviour is of one of them, its part; the    *)
(* others rest in one initial state.                                       *)
(***************************************************************************)
EXTENDS Decisions, Configuration, UserAccounts, Sessions, Listings, RequestGate,
        SignedRequests, TLC

(* Model values that stand for clients and for ids in every part. *)
CONSTANTS c1, c2, i1, i2

VARIABLE part

apiVars ==
  <<part, decisionVars, strategyVars, modelVars, bindingVars, accountVars, userVars,
    sessionVars, listingVars, gateVars, signedVars>>

Parts ==
  {"decisions", "strategies", "models", "telegram", "accounts", "users", "tab",
   "lists", "gate", "signatures"}

Only(p, choice) == part # p => choice

Init ==
  /\ part \in Parts
  /\ DecisionsInit /\ StrategiesInit /\ ModelsInit /\ BindingInit /\ AccountsInit
  /\ UsersInit /\ SessionsInit /\ ListingsInit /\ GateInit
  /\ SignedInit
  /\ Only("decisions", risk.maxPositions = 0)
  /\ Only("strategies", \A i \in StrategyIds : owner[i] = Walker)
  /\ Only("accounts", \A t \in AccountTraders : exchangeOf[t] = "okx")
  /\ Only("users", \A t \in ResetTokens : ownerOf[t] = CHOOSE e \in Emails : TRUE)
  /\ Only("lists", \A t \in Traders : holder[t] = Walker)
  /\ Only("gate", ~inRedis)
  /\ Only("signatures", keeper = "redis")

Next ==
  /\ UNCHANGED part
  /\ IF part = "decisions" THEN DecisionsNext ELSE UNCHANGED decisionVars
  /\ IF part = "strategies" THEN StrategiesNext ELSE UNCHANGED strategyVars
  /\ IF part = "models" THEN ModelsNext ELSE UNCHANGED modelVars
  /\ IF part = "telegram" THEN BindingNext ELSE UNCHANGED bindingVars
  /\ IF part = "accounts" THEN AccountsNext ELSE UNCHANGED accountVars
  /\ IF part = "users" THEN UsersNext ELSE UNCHANGED userVars
  /\ IF part = "tab" THEN SessionsNext ELSE UNCHANGED sessionVars
  /\ IF part = "lists" THEN ListingsNext ELSE UNCHANGED listingVars
  /\ IF part = "gate" THEN GateNext ELSE UNCHANGED gateVars
  /\ IF part = "signatures" THEN SignedNext ELSE UNCHANGED signedVars

Spec == Init /\ [][Next]_apiVars

(* The type invariants of the parts. *)
TypesOK ==
  /\ DecisionsTypeOK /\ StrategiesTypeOK /\ ModelsTypeOK /\ BindingTypeOK
  /\ AccountsTypeOK /\ UsersTypeOK /\ SessionsTypeOK /\ ListingsTypeOK /\ GateTypeOK
  /\ SignedTypeOK

(* What a request to store credentials may give of each type in use. *)
MCGiven ==
  {{}, {"api_key", "secret_key"}, {"api_key", "secret_key", "passphrase"},
   {"hyperliquid_wallet", "hyperliquid_private_key"}}

(* What a model may say, and what a strategy may allow: two positions, or  *)
(* nothing of use, which the default of three replaces.                    *)
D(action, symb, qty, price, lev) ==
  [action |-> action, symbol |-> symb, qty |-> qty, price |-> price, lev |-> lev]
MCSaid ==
  {D("open_long", "BTC", 2, 36, 3), D("open_short", "ALT", 2, 5, 1),
   D("open_short", "ALT", 4, 5, 5), D("open_long", "ALT", 40, 0, 1),
   Bare("close_long", "BTC"), Bare("close_short", "ALT"), Bare("hold", "none"),
   D("open_long", "none", 4, 5, 1), Bare("other", "ALT")}

Risk(positions) ==
  [maxPositions |-> positions, majorLev |-> 5, altLev |-> 2, majorRatio |-> 5,
   altRatio |-> 0, usage |-> 30]
MCRisks == {Risk(2), Risk(0)}

MCSources == <<"hyperliquid", "okx", "coinank">>

(* Clients and ids are interchangeable in the safety properties. *)
Symmetry == Permutations({c1, c2}) \cup Permutations({i1, i2})
================================================================================
