----------------------------- MODULE ModelAccounts -----------------------------
(***************************************************************************)
(* The AI models a user has configured: ModelService and the table below   *)
(* it.  Their keys are stored encrypted under the server's RSA key.        *)
(*                                                                         *)
(* Update and Test copy a row, take their time (Test asks the provider     *)
(* and may wait 15 s) and write the whole row back.  gorm is               *)
(* external: Save inserts the row when it is not there any more, and       *)
(* Delete removes it for good (DeletedAt is no gorm.DeletedAt).            *)
(***************************************************************************)
EXTENDS Naturals

CONSTANTS
  ModelIds,     \* ids newID may draw
  ModelClients, \* requests that may be under way at once
  Keys,         \* API keys
  NoKey,        \* a request that gives none
  KeyInEnv,     \* is RSA_PRIVATE_KEY set?
  MaxRestarts   \* bound on the restarts of the server

ASSUME ModelsAssumption ==
  /\ NoKey \notin Keys
  /\ KeyInEnv \in BOOLEAN
  /\ MaxRestarts \in Nat

VARIABLES
  models,    \* ids that have a row
  row,       \* the row of a model
  modelCall, \* what each client's request is doing
  pair,      \* which RSA key the process has
  restarts,  \* how often the server was restarted
  acked,     \* history: the key the last acknowledged request left a model
  outdated   \* history: rows last written back from a copy out of date

modelVars ==
  <<models, row, modelCall, pair, restarts, acked, outdated>>

Sealed(k) == [key |-> k, pair |-> pair]
Readable(s) == s.pair = pair

Secrets == [key : Keys \cup {NoKey}, pair : 0..MaxRestarts]
ModelRows == [secret : Secrets, state : {"inactive", "active", "error"}]

NoCall == [pc |-> "idle"]
NoRow == [secret |-> [key |-> NoKey, pair |-> 0], state |-> "inactive"]

ModelsInit ==
  /\ models = {}
  /\ row = [i \in ModelIds |-> NoRow]
  /\ modelCall = [c \in ModelClients |-> NoCall]
  /\ pair = 0
  /\ restarts = 0
  /\ acked = [i \in ModelIds |-> NoKey]
  /\ outdated = {}

-----------------------------------------------------------------------------
(* Models *)

Begin(c, what) == modelCall[c] = NoCall /\ modelCall' = [modelCall EXCEPT ![c] = what]
Return(c) == modelCall' = [modelCall EXCEPT ![c] = NoCall]

(* Mutant: the save is an insert that leaves a row that is there alone. *)
InsertModel(i, copy, new) ==
  /\ models' = models \cup {i}
  /\ row' = IF i \in models THEN row ELSE [row EXCEPT ![i] = new]
  /\ IF i \in models /\ row[i] = copy
     THEN /\ acked' = [acked EXCEPT ![i] = new.secret.key]
          /\ UNCHANGED outdated
     ELSE /\ outdated' = outdated \cup {i}
          /\ UNCHANGED acked

(* UpdateModel: the whole row, whatever became of it since copy was taken. *)
SaveModel(i, copy, new) ==
  /\ models' = models \cup {i}
  /\ row' = [row EXCEPT ![i] = new]
  /\ IF i \in models /\ row[i] = copy
     THEN /\ acked' = [acked EXCEPT ![i] = new.secret.key]
          /\ UNCHANGED outdated
     ELSE /\ outdated' = outdated \cup {i}
          /\ UNCHANGED acked

(* newID is random: it never draws an id that a row or a request names.    *)
Named(i) ==
  \/ i \in models
  \/ \E c \in ModelClients : modelCall[c].pc \in {"update", "test"} /\ modelCall[c].id = i

(* Create: the row begins inactive. *)
ModelCreate(k) ==
  /\ \E i \in ModelIds :
       /\ ~Named(i)
       /\ models' = models \cup {i}
       /\ row' = [row EXCEPT ![i] = [secret |-> Sealed(k), state |-> "inactive"]]
       /\ acked' = [acked EXCEPT ![i] = k]
  /\ UNCHANGED <<modelCall, pair, restarts, outdated>>

(* Update, first half: GetModel. *)
ModelUpdateReads(c) ==
  /\ \E i \in models, k \in Keys \cup {NoKey} :
       Begin(c, [pc |-> "update", id |-> i, copy |-> row[i], key |-> k])
  /\ UNCHANGED <<models, row, pair, restarts, acked, outdated>>

(* Mutant: a stored key that cannot be read counts as the same key. *)
NewKeyIfReadable(copy, k) == k # NoKey /\ Readable(copy.secret) /\ copy.secret.key # k

(* Whether the request rotates the key. *)
IsNewKey(copy, k) == k # NoKey /\ (~Readable(copy.secret) \/ copy.secret.key # k)

(* Update, second half: status and test results stay as they were read. *)
ModelUpdateSaves(c) ==
  LET r == modelCall[c] IN
  /\ r.pc = "update"
  /\ SaveModel(r.id, r.copy,
       IF IsNewKey(r.copy, r.key) THEN [r.copy EXCEPT !.secret = Sealed(r.key)]
                                  ELSE r.copy)
  /\ Return(c)
  /\ UNCHANGED <<pair, restarts>>

(* Mutant: whatever key was tried, the outcome is stored. *)
AnyKeyCounts(copy, k) == TRUE

(* Test writes its outcome back only if it tried the stored key. *)
IsStoredKey(copy, k) == k = NoKey \/ (Readable(copy.secret) /\ copy.secret.key = k)

(* Test, first half: the stored key must be readable if none is given. *)
ModelTestReads(c) ==
  /\ \E i \in models, k \in Keys \cup {NoKey} :
       /\ k = NoKey => Readable(row[i].secret)
       /\ Begin(c, [pc |-> "test", id |-> i, copy |-> row[i], key |-> k])
  /\ UNCHANGED <<models, row, pair, restarts, acked, outdated>>

(* The key that is sent to the provider. *)
Probed(r) == IF r.key = NoKey THEN r.copy.secret.key ELSE r.key

(* Test, second half: the provider has answered, or not in time. *)
ModelTestSaves(c) ==
  LET r == modelCall[c] IN
  /\ r.pc = "test"
  /\ IF IsStoredKey(r.copy, r.key)
     THEN \E verdict \in {"active", "error"} :
            SaveModel(r.id, r.copy, [r.copy EXCEPT !.state = verdict])
     ELSE UNCHANGED <<models, row, acked, outdated>>
  /\ Return(c)
  /\ UNCHANGED <<pair, restarts>>

ModelDelete(i) ==
  /\ i \in models
  /\ models' = models \ {i}
  /\ row' = [row EXCEPT ![i] = NoRow]
  /\ acked' = [acked EXCEPT ![i] = NoKey]
  /\ outdated' = outdated \ {i}
  /\ UNCHANGED <<modelCall, pair, restarts>>

(* LLMModelProvider.GetModel: the models the engines can use. *)
Usable == {i \in models : Readable(row[i].secret)}

-----------------------------------------------------------------------------
(* The server is restarted: NewKeyManager loads its key or makes a new one *)
(* and the requests under way are gone.                                    *)
ModelsRestart ==
  /\ restarts < MaxRestarts
  /\ restarts' = restarts + 1
  /\ pair' = IF KeyInEnv THEN pair ELSE restarts + 1
  /\ modelCall' = [c \in ModelClients |-> NoCall]
  /\ UNCHANGED <<models, row, acked, outdated>>

ModelsNext ==
  \/ \E k \in Keys : ModelCreate(k)
  \/ \E c \in ModelClients :
       \/ ModelUpdateReads(c)
       \/ ModelUpdateSaves(c)
       \/ ModelTestReads(c)
       \/ ModelTestSaves(c)
  \/ \E i \in ModelIds : ModelDelete(i)
  \/ ModelsRestart

ModelsSpec == ModelsInit /\ [][ModelsNext]_modelVars

-----------------------------------------------------------------------------
ModelCalls ==
  {NoCall}
  \cup [pc : {"update", "test"}, id : ModelIds, copy : ModelRows, key : Keys \cup {NoKey}]

ModelsTypeOK ==
  /\ models \subseteq ModelIds
  /\ row \in [ModelIds -> ModelRows]
  /\ modelCall \in [ModelClients -> ModelCalls]
  /\ pair \in 0..MaxRestarts
  /\ restarts \in 0..MaxRestarts
  /\ acked \in [ModelIds -> Keys \cup {NoKey}]
  /\ outdated \subseteq models

(* model_svc.go:77, :114: a model holds the key of the last request that   *)
(* changed it and is gone once deleted, unless a request that had read it  *)
(* earlier wrote its copy back.                                            *)
AsAcknowledged(i) ==
  IF i \in models THEN acked[i] = row[i].secret.key ELSE acked[i] = NoKey

(* model_svc.go:145 (L5): a verdict is stored with the key it is about,    *)
(* even if the key was rotated while the provider was asked.               *)
VerdictOfStoredKey ==
  [][\A c \in ModelClients :
       modelCall[c].pc = "test" /\ modelCall'[c] = NoCall /\ row' # row =>
         row'[modelCall[c].id].secret.key = Probed(modelCall[c])]_modelVars

(* model_svc.go:96: after an update that gives a key, the model holds that *)
(* key in a form this process can read, also when the old one could not be *)
(* read because the server's RSA key is new.                               *)
UpdateSealsAnew ==
  [][\A c \in ModelClients :
       modelCall[c].pc = "update" /\ modelCall'[c] = NoCall /\ restarts' = restarts =>
         LET r == modelCall[c] IN
         r.key # NoKey => r.id \in Usable' /\ row'[r.id].secret.key = r.key]_modelVars

(* The secret of a model is the one its clients were told it has.          *)
ModelsStored ==
  /\ []\A i \in ModelIds \ outdated : AsAcknowledged(i)
  /\ VerdictOfStoredKey
  /\ UpdateSealsAnew
================================================================================
