---------------------------- MODULE Configuration ----------------------------
(***************************************************************************)
(* What a user configures through the API: strategies, model               *)
(* configurations, the Telegram binding and exchange accounts.  They keep  *)
(* tables of their own and do not call one another.                        *)
(***************************************************************************)
EXTENDS Strategies, ModelAccounts, TelegramBinding, ExchangeAccounts

(* What the API told its clients of a secret is what is stored: of the     *)
(* models' keys and of the bot's token.                                    *)
StoredAsTold == ModelsStored /\ [](~overtaken => BindingAsAcknowledged)
==============================================================================
