--------------------------- MODULE TelegramBinding ---------------------------
(***************************************************************************)
(* A user's Telegram binding: one row, changed by requests of two steps    *)
(* each (service/telegram_svc.go, store/telegram_store.go), while the      *)
(* models it may name come and go (model_svc.go).                          *)
(***************************************************************************)
EXTENDS Naturals

CONSTANTS
  BotModels,  \* ids of models
  BotClients, \* requests that may be under way at once
  BotTokens,  \* bot tokens
  NoBinding   \* Telegram is not configured

VARIABLES
  known,    \* models that have a row
  telegram, \* the user's binding
  bind,     \* what each client's request is doing
  bound,    \* history: the binding the last request acknowledged
  overtaken \* history: was it written back from a copy out of date?

bindingVars == <<known, telegram, bind, bound, overtaken>>

Bindings == [token : BotTokens, model : BotModels, chat : BOOLEAN]
NoBind == [pc |-> "idle"]

BindingInit ==
  /\ known = {}
  /\ telegram = NoBinding
  /\ bind = [c \in BotClients |-> NoBind]
  /\ bound = NoBinding
  /\ overtaken = FALSE

(* ModelService.Create and Delete, which know nothing of the binding.      *)
ModelsChange ==
  /\ \E i \in BotModels : known' = IF i \in known THEN known \ {i} ELSE known \cup {i}
  /\ UNCHANGED <<telegram, bind, bound, overtaken>>

StartBind(c, what) == bind[c] = NoBind /\ bind' = [bind EXCEPT ![c] = what]
FinishBind(c) == bind' = [bind EXCEPT ![c] = NoBind]

(* Mutant: the fields a request leaves empty are stored empty. *)
UpsertAfresh(new) == telegram' = new

(* UpsertTelegramConfig: under the store's lock; an empty chat id keeps    *)
(* the one that is stored.                                                 *)
UpsertTelegramConfig(new) ==
  telegram' = IF telegram = NoBinding THEN new
              ELSE [new EXCEPT !.chat = @ \/ telegram.chat]

(* Save, first half: the model exists and the token is encrypted.          *)
TelegramSaveChecks(c) ==
  /\ \E i \in known, k \in BotTokens, chat \in BOOLEAN :
       StartBind(c, [pc |-> "bind", seen |-> telegram,
                     new |-> [token |-> k, model |-> i, chat |-> chat]])
  /\ UNCHANGED <<known, telegram, bound, overtaken>>

TelegramSaves(c) ==
  LET r == bind[c] IN
  /\ r.pc = "bind"
  /\ UpsertTelegramConfig(r.new)
  /\ bound' = [r.new EXCEPT !.chat = @ \/ (telegram # NoBinding /\ telegram.chat)]
  /\ overtaken' = FALSE
  /\ FinishBind(c)
  /\ UNCHANGED known

(* SetModel, first half: the binding is read and the model exists.         *)
TelegramSetModelReads(c) ==
  /\ telegram # NoBinding
  /\ \E i \in known :
       StartBind(c, [pc |-> "rebind", seen |-> telegram, new |-> [telegram EXCEPT !.model = i]])
  /\ UNCHANGED <<known, telegram, bound, overtaken>>

TelegramSetsModel(c) ==
  LET r == bind[c] IN
  /\ r.pc = "rebind"
  /\ UpsertTelegramConfig(r.new)
  /\ IF telegram = r.seen
     THEN bound' = r.new /\ UNCHANGED overtaken
     ELSE overtaken' = TRUE /\ UNCHANGED bound
  /\ FinishBind(c)
  /\ UNCHANGED known

(* Delete takes the row with its token.                                    *)
TelegramDelete ==
  /\ telegram # NoBinding
  /\ telegram' = NoBinding
  /\ bound' = NoBinding
  /\ overtaken' = FALSE
  /\ UNCHANGED <<known, bind>>

BindingNext ==
  \/ ModelsChange
  \/ TelegramDelete
  \/ \E c \in BotClients :
       \/ TelegramSaveChecks(c)
       \/ TelegramSaves(c)
       \/ TelegramSetModelReads(c)
       \/ TelegramSetsModel(c)

BindingSpec == BindingInit /\ [][BindingNext]_bindingVars

(***************************************************************************)
(* Properties.                                                             *)
(***************************************************************************)

BindingTypeOK ==
  /\ known \subseteq BotModels
  /\ telegram \in Bindings \cup {NoBinding}
  /\ bind \in [BotClients -> {NoBind} \cup [pc : {"bind", "rebind"},
                                           seen : Bindings \cup {NoBinding}, new : Bindings]]
  /\ bound \in Bindings \cup {NoBinding}
  /\ overtaken \in BOOLEAN

(* telegram_svc.go:47, telegram_store.go:33: the binding is what the last  *)
(* request said it is: changing the model keeps the token and the chat,    *)
(* saving keeps the chat; unless a change of model wrote back a binding    *)
(* that was saved or deleted since it was read.                            *)
BindingAsAcknowledged == telegram = bound
=============================================================================
