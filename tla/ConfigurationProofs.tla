-------------------------- MODULE ConfigurationProofs --------------------------
(***************************************************************************)
(* Proofs about what a user configures: the strategies, for any numbers of *)
(* owners, strategies, requests, traders and sections; the models and the  *)
(* Telegram binding, for any numbers of requests, keys and restarts; the   *)
(* exchange accounts, for any numbers of accounts, types and traders; and  *)
(* what a cycle decides under a strategy (Decisions), for any answers,     *)
(* limits and books.  At the end, the types of all that MCApi puts side by *)
(* side.                                                                   *)
(***************************************************************************)
EXTENDS MCApi, AccessProofs, Counting, TLAPS

EditRequests ==
  [pc : {"idle", "update", "activate", "delete"}, id : StrategyIds \cup {NoStrategy},
   flag : BOOLEAN, read : Configs, change : Changes, began : SUBSET StrategyTraders]

(* A request under way is about a strategy that was created. *)
RequestsKnowIds == \A c \in StrategyClients : request[c].pc # "idle" => request[c].id \in born

StrategiesTyped == StrategiesTypeOK /\ RequestsKnowIds

LEMMA MergeIsConfig ==
  ASSUME NEW old \in Configs, NEW change \in Changes
  PROVE  MergeConfigInto(old, change) \in Configs
BY DEF MergeConfigInto, Configs, Changes

LEMMA DefaultIsConfig == DefaultConfig \in Configs /\ NoChange \in Changes
BY StrategiesAssumption DEF DefaultConfig, Configs, NoChange, Changes

LEMMA IdleIsRequest == Idle \in EditRequests
BY DefaultIsConfig DEF Idle, EditRequests

(* What a request becomes when it begins. *)
LEMMA Edits ==
  ASSUME NEW i \in StrategyIds, NEW f \in BOOLEAN, NEW cfg \in Configs, NEW change \in Changes
  PROVE  LET r == [Idle EXCEPT !.pc = "update", !.id = i, !.flag = f, !.read = cfg,
                               !.change = change]
         IN  /\ r \in EditRequests
             /\ r.pc = "update" /\ r.id = i /\ r.flag = f /\ r.read = cfg
             /\ r.change = change
BY IdleIsRequest DEF EditRequests

LEMMA Asks ==
  ASSUME NEW i \in StrategyIds, NEW kind \in {"activate", "delete"}
  PROVE  LET r == [Idle EXCEPT !.pc = kind, !.id = i]
         IN  r \in EditRequests /\ r.pc = kind /\ r.id = i
BY IdleIsRequest DEF EditRequests

LEMMA TypesBegin == StrategiesInit => StrategiesTyped
BY IdleIsRequest, DefaultIsConfig
DEF StrategiesInit, EditRequests, StrategiesTyped, StrategiesTypeOK, RequestsKnowIds, Idle, Statuses


LEMMA TypesKept == StrategiesTyped /\ [StrategiesNext]_strategyVars => StrategiesTyped'
<1> SUFFICES ASSUME StrategiesTyped, [StrategiesNext]_strategyVars
             PROVE  StrategiesTyped'
  OBVIOUS
<1> USE StrategiesAssumption DEF StrategiesTyped, StrategiesTypeOK, RequestsKnowIds, EditRequests
<1>a. ASSUME NEW i \in StrategyIds, NEW cfg \in Configs, Insert(i, cfg) PROVE StrategiesTyped'
  BY <1>a DEF Insert
<1>1. CASE CreateStrategy
  BY <1>1, <1>a, MergeIsConfig, DefaultIsConfig DEF CreateStrategy
<1>2. CASE DuplicateStrategy
  BY <1>2, <1>a DEF DuplicateStrategy
<1>3. ASSUME NEW c \in StrategyClients, UpdateReads(c) PROVE StrategiesTyped'
  <2>1. PICK i \in table, change \in Changes :
          request' = [request EXCEPT ![c] =
            [Idle EXCEPT !.pc = "update", !.id = i, !.flag = i \in active,
                         !.read = config[i], !.change = change]]
    BY <1>3 DEF UpdateReads
  <2> DEFINE f == i \in active
             r == [Idle EXCEPT !.pc = "update", !.id = i, !.flag = f,
                               !.read = config[i], !.change = change]
  <2>2. f \in BOOLEAN /\ i \in born /\ i \in StrategyIds /\ config[i] \in Configs
    OBVIOUS
  <2>3. request' = [request EXCEPT ![c] = r]
    BY <2>1, Zenon
  <2> HIDE DEF f
  <2>4. r \in EditRequests /\ r.id = i
    BY <2>2, Edits
  <2> HIDE DEF r
  <2> QED BY <1>3, <2>2, <2>3, <2>4 DEF UpdateReads
<1>4. ASSUME NEW c \in StrategyClients, UpdateSaves(c) PROVE StrategiesTyped'
  <2>1. MergeConfigInto(request[c].read, request[c].change) \in Configs
    BY MergeIsConfig
  <2>2. request[c].id \in born /\ request[c].id \in StrategyIds
    BY <1>4 DEF UpdateSaves
  <2> QED BY <1>4, <2>1, <2>2, IdleIsRequest DEF UpdateSaves, Finish, Idle
<1>5. ASSUME NEW c \in StrategyClients, ActivateChecks(c) PROVE StrategiesTyped'
  <2>1. PICK i \in table :
          request' = [request EXCEPT ![c] = [Idle EXCEPT !.pc = "activate", !.id = i]]
    BY <1>5 DEF ActivateChecks
  <2> DEFINE r == [Idle EXCEPT !.pc = "activate", !.id = i]
  <2>2. i \in born /\ i \in StrategyIds
    OBVIOUS
  <2>3. r \in EditRequests /\ r.id = i
    BY <2>2, Asks
  <2>4. request' = [request EXCEPT ![c] = r]
    BY <2>1
  <2> HIDE DEF r
  <2> QED BY <1>5, <2>2, <2>3, <2>4 DEF ActivateChecks
<1>6. ASSUME NEW c \in StrategyClients, ActivateCommits(c) PROVE StrategiesTyped'
  BY <1>6, IdleIsRequest DEF ActivateCommits, Finish, Idle
<1>7. ASSUME NEW c \in StrategyClients, DeleteChecks(c) PROVE StrategiesTyped'
  <2>1. PICK i \in table :
          request' = [request EXCEPT ![c] = [Idle EXCEPT !.pc = "delete", !.id = i]]
    BY <1>7 DEF DeleteChecks
  <2> DEFINE r == [Idle EXCEPT !.pc = "delete", !.id = i]
  <2>2. i \in born /\ i \in StrategyIds
    OBVIOUS
  <2>3. r \in EditRequests /\ r.id = i
    BY <2>2, Asks
  <2>4. request' = [request EXCEPT ![c] = r]
    BY <2>1
  <2> HIDE DEF r
  <2> QED BY <1>7, <2>2, <2>3, <2>4 DEF DeleteChecks
<1>8. ASSUME NEW c \in StrategyClients, DeleteCommits(c) PROVE StrategiesTyped'
  BY <1>8, IdleIsRequest DEF DeleteCommits, Finish, Idle
<1>b. ASSUME NEW t \in StrategyTraders, NoteUse(t)
      PROVE  /\ request' \in [StrategyClients -> EditRequests]
             /\ \A c \in StrategyClients : /\ request'[c].pc = request[c].pc
                                           /\ request'[c].id = request[c].id
  BY <1>b DEF NoteUse
<1>9. ASSUME NEW t \in StrategyTraders, StrategyTraderStarts(t) PROVE StrategiesTyped'
  BY <1>9, <1>b DEF StrategyTraderStarts, SetStatus, Statuses
<1>10. ASSUME NEW t \in StrategyTraders, StrategyTraderPauses(t) PROVE StrategiesTyped'
  BY <1>10 DEF StrategyTraderPauses, SetStatus, Statuses
<1>11. ASSUME NEW t \in StrategyTraders, StrategyTraderStops(t) PROVE StrategiesTyped'
  BY <1>11 DEF StrategyTraderStops, SetStatus, Statuses
<1>12. ASSUME NEW t \in StrategyTraders, TraderRebinds(t) PROVE StrategiesTyped'
  BY <1>12, <1>b DEF TraderRebinds
<1>13. CASE UNCHANGED strategyVars
  BY <1>13 DEF strategyVars
<1> QED
  BY <1>1, <1>2, <1>3, <1>4, <1>5, <1>6, <1>7, <1>8, <1>9, <1>10, <1>11, <1>12, <1>13
  DEF StrategiesNext

LEMMA TypedAlways == StrategiesSpec => []StrategiesTyped
BY TypesBegin, TypesKept, PTL DEF StrategiesSpec

(* For any sizes, every variable keeps its type: a switched-on row is in   *)
(* the table, and so is one that was written back from an old copy.        *)
THEOREM TypeCorrect == StrategiesSpec => []StrategiesTypeOK
BY TypedAlways, PTL DEF StrategiesTyped

-----------------------------------------------------------------------------
(* One active strategy a user. *)

LEMMA OneActiveKept ==
  StrategiesTyped /\ OneActiveUnlessBehind /\ [StrategiesNext]_strategyVars => OneActiveUnlessBehind'
<1> SUFFICES ASSUME StrategiesTyped, OneActiveUnlessBehind, [StrategiesNext]_strategyVars
             PROVE  OneActiveUnlessBehind'
  OBVIOUS
<1> USE DEF StrategiesTyped, StrategiesTypeOK, OneActiveUnlessBehind, GetActive
<1>1. CASE UNCHANGED <<owner, active, behind>>
  BY <1>1
<1>2. ASSUME NEW c \in StrategyClients, UpdateSaves(c) PROVE OneActiveUnlessBehind'
  <2>1. CASE Current(c)
    <3>1. UNCHANGED <<owner, active, behind>>
      BY <1>2, <2>1 DEF UpdateSaves, Current
    <3> QED BY <3>1, <1>1
  <2>2. CASE ~Current(c)
    <3>1. /\ behind' = behind \cup {request[c].id}
          /\ active' \ behind' \subseteq active \ behind
          /\ owner' = owner
      BY <1>2, <2>2 DEF UpdateSaves
    <3> QED BY <3>1
  <2> QED BY <2>1, <2>2
<1>3. ASSUME NEW c \in StrategyClients, ActivateCommits(c) PROVE OneActiveUnlessBehind'
  <2> DEFINE me == owner[request[c].id]
  <2>1. CASE request[c].id \in table
    <3>1. /\ active' = {i \in active : owner[i] # me} \cup {request[c].id}
          /\ behind' = {i \in behind : owner[i] # me}
          /\ owner' = owner
      BY <1>3, <2>1 DEF ActivateCommits
    <3>2. ASSUME NEW u \in StrategyUsers,
                 NEW i \in GetActive(u)' \ behind', NEW j \in GetActive(u)' \ behind'
          PROVE  i = j
      <4>1. CASE u = me
        BY <3>1, <4>1
      <4>2. CASE u # me
        <5>1. i \in GetActive(u) \ behind /\ j \in GetActive(u) \ behind
          BY <3>1, <4>2
        <5> QED BY <5>1
      <4> QED BY <4>1, <4>2
    <3> QED BY <3>2
  <2>2. CASE request[c].id \notin table
    <3>1. UNCHANGED <<owner, active, behind>>
      BY <1>3, <2>2 DEF ActivateCommits
    <3> QED BY <3>1, <1>1
  <2> QED BY <2>1, <2>2
<1>4. ASSUME NEW c \in StrategyClients, DeleteCommits(c) PROVE OneActiveUnlessBehind'
  <2>1. active' \ behind' \subseteq active \ behind /\ owner' = owner
    BY <1>4 DEF DeleteCommits
  <2> QED BY <2>1
<1>5. \/ UNCHANGED <<owner, active, behind>>
      \/ \E c \in StrategyClients : UpdateSaves(c) \/ ActivateCommits(c) \/ DeleteCommits(c)
  BY DEF StrategiesNext, strategyVars, CreateStrategy, DuplicateStrategy, Insert, UpdateReads,
         ActivateChecks, DeleteChecks, StrategyTraderStarts, StrategyTraderPauses,
         StrategyTraderStops, SetStatus, TraderRebinds
<1> QED BY <1>1, <1>2, <1>3, <1>4, <1>5

(* However activations, edits and deletions overlap, a user has two active *)
(* strategies only when an edit wrote back a row that had changed.         *)
THEOREM OneActive == StrategiesSpec => []OneActiveUnlessBehind
<1>1. StrategiesInit => OneActiveUnlessBehind
  BY DEF StrategiesInit, OneActiveUnlessBehind, GetActive
<1> QED BY <1>1, OneActiveKept, TypedAlways, PTL DEF StrategiesSpec

-----------------------------------------------------------------------------
(* Traders and the strategies they run. *)

UsedBy(t, i) == runs[t] = i /\ status[t] \in {"running", "paused"}

(* What a deletion has yet to look at: a trader in use of the strategy     *)
(* came to be so after the deletion's check.                               *)
LateUsersNoted ==
  \A c \in StrategyClients, t \in StrategyTraders :
    request[c].pc = "delete" /\ UsedBy(t, request[c].id) => t \in request[c].began

LEMMA LateKept ==
  StrategiesTyped /\ LateUsersNoted /\ [StrategiesNext]_strategyVars => LateUsersNoted'
<1> SUFFICES ASSUME StrategiesTyped, LateUsersNoted, [StrategiesNext]_strategyVars
             PROVE  LateUsersNoted'
  OBVIOUS
<1> USE DEF StrategiesTyped, StrategiesTypeOK, LateUsersNoted, UsedBy
<1>1. CASE UNCHANGED <<request, runs, status>>
  BY <1>1
<1>2. ASSUME NEW c \in StrategyClients, UNCHANGED <<runs, status>>,
             NEW r, r.pc # "delete", request' = [request EXCEPT ![c] = r]
      PROVE  LateUsersNoted'
  BY <1>2
<1>3. ASSUME NEW c \in StrategyClients, DeleteChecks(c) PROVE LateUsersNoted'
  <2>1. PICK i \in table :
          ~InUse(i) /\ request' = [request EXCEPT ![c] = [Idle EXCEPT !.pc = "delete", !.id = i]]
    BY <1>3 DEF DeleteChecks
  <2>2. request'[c].id = i /\ \A d \in StrategyClients \ {c} : request'[d] = request[d]
    BY <2>1, Asks
  <2>3. \A t \in StrategyTraders : ~UsedBy(t, i)'
    BY <1>3, <2>1 DEF DeleteChecks, InUse
  <2> QED BY <1>3, <2>2, <2>3 DEF DeleteChecks
<1>4. ASSUME NEW t \in StrategyTraders, NoteUse(t),
             \A q \in StrategyTraders \ {t} : runs'[q] = runs[q] /\ status'[q] = status[q]
      PROVE  LateUsersNoted'
  <2>1. ASSUME NEW c \in StrategyClients, request'[c].pc = "delete"
        PROVE  /\ request[c].pc = "delete"
               /\ request'[c].id = request[c].id
               /\ request'[c].began = request[c].began \cup {t}
    BY <1>4, <2>1 DEF NoteUse, EditRequests
  <2> QED BY <1>4, <2>1
<1>5. ASSUME NEW t \in StrategyTraders, StrategyTraderPauses(t) \/ StrategyTraderStops(t)
      PROVE  LateUsersNoted'
  BY <1>5 DEF StrategyTraderPauses, StrategyTraderStops, SetStatus
<1>6. ASSUME NEW c \in StrategyClients, UpdateReads(c) \/ ActivateChecks(c)
      PROVE  LateUsersNoted'
  <2>1. \A d \in StrategyClients \ {c} : request'[d] = request[d]
    BY <1>6 DEF UpdateReads, ActivateChecks
  <2>2. request'[c].pc # "delete"
    <3>1. CASE UpdateReads(c)
      <4>1. PICK i \in table, change \in Changes :
              request' = [request EXCEPT ![c] =
                [Idle EXCEPT !.pc = "update", !.id = i, !.flag = i \in active,
                             !.read = config[i], !.change = change]]
        BY <3>1 DEF UpdateReads
      <4> QED BY <4>1 DEF Idle
    <3>2. CASE ActivateChecks(c)
      <4>1. PICK i \in table :
              request' = [request EXCEPT ![c] = [Idle EXCEPT !.pc = "activate", !.id = i]]
        BY <3>2 DEF ActivateChecks
      <4> QED BY <4>1 DEF Idle
    <3> QED BY <1>6, <3>1, <3>2
  <2>3. UNCHANGED <<runs, status>>
    BY <1>6 DEF UpdateReads, ActivateChecks
  <2> QED BY <2>1, <2>2, <2>3
<1>7. ASSUME NEW c \in StrategyClients, UpdateSaves(c) \/ ActivateCommits(c) \/ DeleteCommits(c)
      PROVE  LateUsersNoted'
  <2>1. request' = [request EXCEPT ![c] = Idle] /\ UNCHANGED <<runs, status>>
    BY <1>7 DEF UpdateSaves, ActivateCommits, DeleteCommits, Finish
  <2>2. Idle.pc # "delete"
    BY DEF Idle
  <2> HIDE DEF Idle
  <2> QED BY <2>1, <2>2, <1>2
<1>8. ASSUME NEW t \in StrategyTraders, StrategyTraderStarts(t) \/ TraderRebinds(t)
      PROVE  LateUsersNoted'
  BY <1>8, <1>4 DEF StrategyTraderStarts, SetStatus, TraderRebinds
<1>9. CASE CreateStrategy \/ DuplicateStrategy \/ UNCHANGED strategyVars
  BY <1>9, <1>1 DEF CreateStrategy, DuplicateStrategy, Insert, strategyVars
<1> QED BY <1>3, <1>5, <1>6, <1>7, <1>8, <1>9 DEF StrategiesNext

(* A section of a trader's configuration changes only by an edit of it. *)
LEMMA EditStep ==
  ASSUME StrategiesTyped, [StrategiesNext]_strategyVars, NEW t \in StrategyTraders, NEW s \in Sections,
         runs'[t] = runs[t], runs[t] \in (table \cap table') \ behind',
         CycleConfig(t)'[s] # CycleConfig(t)[s]
  PROVE  \E c \in StrategyClients : request[c].id = runs[t] /\ request[c].change[s] \in Settings
<1> USE DEF StrategiesTyped, StrategiesTypeOK
<1> DEFINE i == runs[t]
<1>1. i \in born /\ i \in StrategyIds /\ config'[i][s] # config[i][s]
  BY DEF CycleConfig
<1>2. CASE \E k \in StrategyIds, cfg \in Configs : Insert(k, cfg)
  BY <1>1, <1>2 DEF Insert
<1>3. ASSUME NEW c \in StrategyClients, UpdateSaves(c)
      PROVE  request[c].id = i /\ request[c].change[s] \in Settings
  <2>1. request[c].id = i
    BY <1>1, <1>3 DEF UpdateSaves
  <2>2. request[c].read = config[i]
    BY <1>3, <2>1 DEF UpdateSaves, Current
  <2>3. config'[i][s] = MergeConfigInto(config[i], request[c].change)[s]
    BY <1>1, <1>3, <2>1, <2>2 DEF UpdateSaves
  <2>4. request[c].change[s] \in Settings
    BY <1>1, <2>3 DEF MergeConfigInto
  <2> QED BY <2>1, <2>4
<1>4. CASE UNCHANGED config
  BY <1>1, <1>4
<1>5. CASE CreateStrategy
  BY <1>2, <1>5, MergeIsConfig, DefaultIsConfig DEF CreateStrategy
<1>6. CASE DuplicateStrategy
  BY <1>2, <1>6 DEF DuplicateStrategy
<1>7. \/ CreateStrategy \/ DuplicateStrategy \/ UNCHANGED config
      \/ \E c \in StrategyClients : UpdateSaves(c)
  BY DEF StrategiesNext, strategyVars, UpdateReads, ActivateChecks, ActivateCommits,
         DeleteChecks, DeleteCommits, StrategyTraderStarts, StrategyTraderPauses,
         StrategyTraderStops, SetStatus, TraderRebinds
<1> QED BY <1>3, <1>4, <1>5, <1>6, <1>7

(* For any sizes: a strategy is deleted under a running or paused trader   *)
(* only when the trader came to it after the deletion looked, and a        *)
(* trader's configuration changes only where some edit named it.           *)
THEOREM TradersKeep == StrategiesSpec => TradersKeepTheirStrategy
<1>1. StrategiesInit => LateUsersNoted
  BY DEF StrategiesInit, LateUsersNoted, Idle
<1>2. StrategiesSpec => []LateUsersNoted
  BY <1>1, LateKept, TypedAlways, PTL DEF StrategiesSpec
<1>3. LateUsersNoted
        => [\A c \in StrategyClients :
              request[c].pc = "delete" /\ request'[c].pc = "idle" =>
                \A t \in StrategyTraders :
                  runs[t] = request[c].id /\ status[t] \in {"running", "paused"} =>
                    t \in request[c].began]_strategyVars
  BY DEF LateUsersNoted, UsedBy
<1>4. StrategiesTyped /\ [StrategiesNext]_strategyVars
        => [\A t \in StrategyTraders, s \in Sections :
              /\ runs'[t] = runs[t]
              /\ runs[t] \in (table \cap table') \ behind'
              /\ CycleConfig(t)'[s] # CycleConfig(t)[s]
              => \E c \in StrategyClients :
                   /\ request[c].id = runs[t]
                   /\ request[c].change[s] \in Settings]_strategyVars
  BY EditStep
<1> QED
  BY <1>2, <1>3, <1>4, TypedAlways, PTL
  DEF StrategiesSpec, TradersKeepTheirStrategy, DeleteSparesTraders, EditsKeepTheRest

-----------------------------------------------------------------------------
(* Models. *)

ModelsInv == ModelsTypeOK /\ \A i \in ModelIds \ outdated : AsAcknowledged(i)

LEMMA ModelsBegin == ModelsInit => ModelsInv
BY ModelsAssumption
DEF ModelsInit, ModelsInv, ModelsTypeOK, NoRow, ModelRows, Secrets, ModelCalls, AsAcknowledged

LEMMA SaveKeeps ==
  ASSUME ModelsInv, NEW i \in ModelIds, NEW copy, NEW new \in ModelRows, SaveModel(i, copy, new)
  PROVE  /\ models' \subseteq ModelIds
         /\ row' \in [ModelIds -> ModelRows]
         /\ acked' \in [ModelIds -> Keys \cup {NoKey}]
         /\ outdated' \subseteq models'
         /\ \A j \in ModelIds \ outdated' : AsAcknowledged(j)'
         /\ row'[i] = new
<1> USE DEF ModelsInv, ModelsTypeOK, SaveModel, ModelRows, Secrets
<1>1. /\ models' \subseteq ModelIds /\ row' \in [ModelIds -> ModelRows]
      /\ acked' \in [ModelIds -> Keys \cup {NoKey}] /\ outdated' \subseteq models'
      /\ row'[i] = new
  OBVIOUS
<1>2. ASSUME NEW j \in ModelIds \ outdated' PROVE AsAcknowledged(j)'
  <2>1. j # i => AsAcknowledged(j) /\ acked'[j] = acked[j] /\ row'[j] = row[j]
                 /\ (j \in models' <=> j \in models)
    OBVIOUS
  <2>2. j = i => acked'[i] = new.secret.key
    OBVIOUS
  <2> QED BY <1>1, <2>1, <2>2 DEF AsAcknowledged
<1> QED BY <1>1, <1>2

(* The calls that are under way are about models, with rows as copies.     *)
LEMMA CallKnown ==
  ASSUME ModelsTypeOK, NEW c \in ModelClients, modelCall[c].pc \in {"update", "test"}
  PROVE  /\ modelCall[c] # NoCall
         /\ modelCall[c].id \in ModelIds
         /\ modelCall[c].copy \in ModelRows
         /\ modelCall[c].key \in Keys \cup {NoKey}
BY DEF ModelsTypeOK, ModelCalls, NoCall

(* What an update and a test write back is a row. *)
LEMMA SavedIsRow ==
  ASSUME ModelsTypeOK, NEW copy \in ModelRows, NEW k \in Keys
  PROVE  /\ Sealed(k) \in Secrets
         /\ [copy EXCEPT !.secret = Sealed(k)] \in ModelRows
         /\ \A v \in {"active", "error"} : [copy EXCEPT !.state = v] \in ModelRows
BY DEF ModelsTypeOK, Sealed, ModelRows, Secrets

LEMMA ModelsKept == ModelsInv /\ [ModelsNext]_modelVars => ModelsInv'
<1> SUFFICES ASSUME ModelsInv, [ModelsNext]_modelVars PROVE ModelsInv'
  OBVIOUS
<1> USE ModelsAssumption DEF ModelsInv
<1>1. ASSUME NEW k \in Keys, ModelCreate(k) PROVE ModelsInv'
  <2>1. PICK i \in ModelIds :
          /\ ~Named(i)
          /\ models' = models \cup {i}
          /\ row' = [row EXCEPT ![i] = [secret |-> Sealed(k), state |-> "inactive"]]
          /\ acked' = [acked EXCEPT ![i] = k]
    BY <1>1 DEF ModelCreate
  <2>2. UNCHANGED <<modelCall, pair, restarts, outdated>> /\ Sealed(k) \in Secrets
    BY <1>1 DEF ModelCreate, Sealed, Secrets, ModelsTypeOK
  <2>3. ModelsTypeOK'
    BY <2>1, <2>2 DEF ModelsTypeOK, ModelRows
  <2>4. ASSUME NEW j \in ModelIds \ outdated' PROVE AsAcknowledged(j)'
    BY <2>1, <2>2, <2>4 DEF ModelsTypeOK, AsAcknowledged, Sealed
  <2> QED BY <2>3, <2>4
<1>2. ASSUME NEW c \in ModelClients, NEW kind \in {"update", "test"}, NEW i \in models,
             NEW k \in Keys \cup {NoKey},
             Begin(c, [pc |-> kind, id |-> i, copy |-> row[i], key |-> k]),
             UNCHANGED <<models, row, pair, restarts, acked, outdated>>
      PROVE  ModelsInv'
  <2>1. [pc |-> kind, id |-> i, copy |-> row[i], key |-> k] \in ModelCalls
    BY DEF ModelsTypeOK, ModelCalls
  <2>2. ModelsTypeOK'
    BY <1>2, <2>1 DEF ModelsTypeOK, Begin
  <2> QED BY <1>2, <2>2 DEF AsAcknowledged
<1>3. ASSUME NEW c \in ModelClients, NEW i \in ModelIds, NEW copy, NEW new \in ModelRows,
             SaveModel(i, copy, new), Return(c), UNCHANGED <<pair, restarts>>
      PROVE  ModelsInv'
  <2>1. modelCall' \in [ModelClients -> ModelCalls]
    BY <1>3 DEF Return, ModelsTypeOK, ModelCalls
  <2> QED BY <1>3, <2>1, SaveKeeps DEF ModelsTypeOK
<1>4. ASSUME NEW c \in ModelClients, ModelUpdateSaves(c) PROVE ModelsInv'
  <2> DEFINE new == IF IsNewKey(modelCall[c].copy, modelCall[c].key)
                    THEN [modelCall[c].copy EXCEPT !.secret = Sealed(modelCall[c].key)]
                    ELSE modelCall[c].copy
  <2>1. new \in ModelRows /\ modelCall[c].id \in ModelIds
    <3>1. modelCall[c].id \in ModelIds /\ modelCall[c].copy \in ModelRows
          /\ modelCall[c].key \in Keys \cup {NoKey}
      BY <1>4, CallKnown DEF ModelUpdateSaves
    <3> QED BY <3>1, SavedIsRow DEF IsNewKey
  <2> QED BY <1>3, <1>4, <2>1 DEF ModelUpdateSaves
<1>5. ASSUME NEW c \in ModelClients, ModelTestSaves(c) PROVE ModelsInv'
  <2>1. modelCall[c].id \in ModelIds /\ modelCall[c].copy \in ModelRows
    BY <1>5, CallKnown DEF ModelTestSaves
  <2>2. CASE IsStoredKey(modelCall[c].copy, modelCall[c].key)
    <3>1. PICK verdict \in {"active", "error"} :
            SaveModel(modelCall[c].id, modelCall[c].copy,
                      [modelCall[c].copy EXCEPT !.state = verdict])
      BY <1>5, <2>2 DEF ModelTestSaves
    <3>2. [modelCall[c].copy EXCEPT !.state = verdict] \in ModelRows
      BY <2>1 DEF ModelRows
    <3> QED BY <1>3, <1>5, <2>1, <3>1, <3>2 DEF ModelTestSaves
  <2>3. CASE ~IsStoredKey(modelCall[c].copy, modelCall[c].key)
    <3>1. UNCHANGED <<models, row, acked, outdated, pair, restarts>>
          /\ modelCall' \in [ModelClients -> ModelCalls]
      BY <1>5, <2>3 DEF ModelTestSaves, Return, ModelsTypeOK, ModelCalls
    <3> QED BY <3>1 DEF ModelsTypeOK, AsAcknowledged
  <2> QED BY <2>2, <2>3
<1>6. ASSUME NEW i \in ModelIds, ModelDelete(i) PROVE ModelsInv'
  <2>1. ModelsTypeOK'
    BY <1>6 DEF ModelDelete, ModelsTypeOK, NoRow, ModelRows, Secrets
  <2>2. ASSUME NEW j \in ModelIds \ outdated' PROVE AsAcknowledged(j)'
    BY <1>6, <2>2 DEF ModelDelete, ModelsTypeOK, AsAcknowledged
  <2> QED BY <2>1, <2>2
<1>7. CASE ModelsRestart
  BY <1>7 DEF ModelsRestart, ModelsTypeOK, ModelCalls, AsAcknowledged
<1>8. CASE UNCHANGED modelVars
  BY <1>8 DEF modelVars, ModelsTypeOK, AsAcknowledged
<1>9. ASSUME NEW c \in ModelClients, ModelUpdateReads(c) \/ ModelTestReads(c) PROVE ModelsInv'
  BY <1>2, <1>9 DEF ModelUpdateReads, ModelTestReads
<1> QED BY <1>1, <1>4, <1>5, <1>6, <1>7, <1>8, <1>9 DEF ModelsNext

(* A call that ends its work, in a process that lives on, has saved.       *)
LEMMA CallEnds ==
  ASSUME ModelsTypeOK, [ModelsNext]_modelVars, NEW c \in ModelClients,
         modelCall[c].pc \in {"update", "test"}, modelCall'[c] = NoCall
  PROVE  ModelUpdateSaves(c) \/ ModelTestSaves(c) \/ ModelsRestart
<1>1. modelCall[c] # NoCall
  BY CallKnown
<1>2. ASSUME NEW d \in ModelClients, d # c,
             \/ ModelUpdateReads(d) \/ ModelUpdateSaves(d)
             \/ ModelTestReads(d) \/ ModelTestSaves(d)
      PROVE  FALSE
  BY <1>1, <1>2 DEF ModelUpdateReads, ModelUpdateSaves, ModelTestReads, ModelTestSaves,
                    Begin, Return, ModelsTypeOK
<1>3. ~ModelUpdateReads(c) /\ ~ModelTestReads(c)
  BY <1>1 DEF ModelUpdateReads, ModelTestReads, Begin
<1>4. modelCall' # modelCall
  BY <1>1
<1> QED BY <1>2, <1>3, <1>4 DEF ModelsNext, ModelCreate, ModelDelete, modelVars

LEMMA VerdictStored ==
  ASSUME ModelsInv, [ModelsNext]_modelVars, NEW c \in ModelClients,
         modelCall[c].pc = "test", modelCall'[c] = NoCall, row' # row
  PROVE  row'[modelCall[c].id].secret.key = Probed(modelCall[c])
<1> USE DEF ModelsInv
<1>1. ModelTestSaves(c)
  BY CallEnds DEF ModelUpdateSaves, ModelsRestart
<1>2. /\ modelCall[c].id \in ModelIds /\ modelCall[c].copy \in ModelRows
      /\ IsStoredKey(modelCall[c].copy, modelCall[c].key)
  BY <1>1, CallKnown DEF ModelTestSaves
<1>3. PICK verdict \in {"active", "error"} :
        SaveModel(modelCall[c].id, modelCall[c].copy, [modelCall[c].copy EXCEPT !.state = verdict])
  BY <1>1, <1>2 DEF ModelTestSaves
<1>4. [modelCall[c].copy EXCEPT !.state = verdict] \in ModelRows
  BY <1>2 DEF ModelRows
<1>5. row'[modelCall[c].id] = [modelCall[c].copy EXCEPT !.state = verdict]
  BY <1>2, <1>3, <1>4, SaveKeeps
<1> QED BY <1>2, <1>5 DEF IsStoredKey, Probed, ModelRows

LEMMA UpdateSealed ==
  ASSUME ModelsInv, [ModelsNext]_modelVars, NEW c \in ModelClients,
         modelCall[c].pc = "update", modelCall'[c] = NoCall, restarts' = restarts,
         modelCall[c].key # NoKey
  PROVE  modelCall[c].id \in Usable' /\ row'[modelCall[c].id].secret.key = modelCall[c].key
<1> USE DEF ModelsInv
<1>1. ModelUpdateSaves(c)
  <2>1. ~ModelTestSaves(c)
    BY DEF ModelTestSaves
  <2>2. ~ModelsRestart
    BY DEF ModelsRestart, ModelsTypeOK
  <2> QED BY <2>1, <2>2, CallEnds
<1>2. /\ modelCall[c].id \in ModelIds /\ modelCall[c].copy \in ModelRows
      /\ modelCall[c].key \in Keys
  BY CallKnown
<1> DEFINE new == IF IsNewKey(modelCall[c].copy, modelCall[c].key)
                  THEN [modelCall[c].copy EXCEPT !.secret = Sealed(modelCall[c].key)]
                  ELSE modelCall[c].copy
<1>3. new \in ModelRows /\ SaveModel(modelCall[c].id, modelCall[c].copy, new)
  BY <1>1, <1>2, SavedIsRow DEF ModelUpdateSaves
<1>4. row'[modelCall[c].id] = new /\ modelCall[c].id \in models' /\ pair' = pair
  <2>1. row'[modelCall[c].id] = new
    BY <1>2, <1>3, SaveKeeps
  <2> QED BY <1>1, <1>3, <2>1 DEF SaveModel, ModelUpdateSaves
<1>5. new.secret.key = modelCall[c].key /\ new.secret.pair = pair
  BY <1>2 DEF IsNewKey, Readable, Sealed, ModelRows, Secrets
<1> QED BY <1>4, <1>5 DEF Usable, Readable

LEMMA ModelsKeepSecrets == ModelsSpec => ModelsStored
<1>1. ModelsInv => \A i \in ModelIds \ outdated : AsAcknowledged(i)
  BY DEF ModelsInv
<1>2. ModelsInv /\ [ModelsNext]_modelVars =>
        [\A c \in ModelClients :
           modelCall[c].pc = "test" /\ modelCall'[c] = NoCall /\ row' # row =>
             row'[modelCall[c].id].secret.key = Probed(modelCall[c])]_modelVars
  BY VerdictStored
<1>3. ModelsInv /\ [ModelsNext]_modelVars =>
        [\A c \in ModelClients :
           modelCall[c].pc = "update" /\ modelCall'[c] = NoCall /\ restarts' = restarts =>
             LET r == modelCall[c] IN
             r.key # NoKey => r.id \in Usable' /\ row'[r.id].secret.key = r.key]_modelVars
  BY UpdateSealed
<1> QED
  BY <1>1, <1>2, <1>3, ModelsBegin, ModelsKept, PTL
     DEF ModelsSpec, ModelsStored, VerdictOfStoredKey, UpdateSealsAnew

-----------------------------------------------------------------------------
(* The Telegram binding. *)

(* A change of model writes back what it read, with another model.         *)
RebindsKeepRest ==
  \A c \in BotClients : bind[c].pc = "rebind" =>
    bind[c].seen # NoBinding /\ bind[c].new.chat = bind[c].seen.chat

BindingInv ==
  BindingTypeOK /\ RebindsKeepRest /\ (~overtaken => BindingAsAcknowledged)

LEMMA BindingBegins == BindingInit => BindingInv
<1> SUFFICES ASSUME BindingInit PROVE BindingInv
  OBVIOUS
<1>1. overtaken \in BOOLEAN /\ (~overtaken => BindingAsAcknowledged)
  BY DEF BindingInit, BindingAsAcknowledged
<1>2. BindingTypeOK
  BY <1>1 DEF BindingInit, BindingTypeOK
<1>3. RebindsKeepRest
  BY DEF BindingInit, RebindsKeepRest, NoBind
<1> QED BY <1>1, <1>2, <1>3 DEF BindingInv

LEMMA UpsertIsBinding ==
  ASSUME BindingTypeOK, NEW new \in Bindings, UpsertTelegramConfig(new)
  PROVE  /\ telegram' \in Bindings
         /\ telegram' = [new EXCEPT !.chat = @ \/ (telegram # NoBinding /\ telegram.chat)]
<1>1. CASE telegram = NoBinding
  <2>1. telegram' = new
    BY <1>1 DEF UpsertTelegramConfig
  <2>2. [new EXCEPT !.chat = @ \/ (telegram # NoBinding /\ telegram.chat)] = [new EXCEPT !.chat = @]
    BY <1>1 DEF Bindings
  <2> QED BY <2>1, <2>2 DEF Bindings
<1>2. CASE telegram # NoBinding
  <2>1. telegram' = [new EXCEPT !.chat = @ \/ telegram.chat] /\ telegram \in Bindings
    BY <1>2 DEF UpsertTelegramConfig, BindingTypeOK
  <2>2. (new.chat \/ telegram.chat) \in BOOLEAN
    BY <2>1 DEF Bindings
  <2>3. telegram' \in Bindings
    BY <2>1, <2>2 DEF Bindings
  <2> QED BY <1>2, <2>1, <2>3
<1> QED BY <1>1, <1>2

LEMMA BindKnown ==
  ASSUME BindingTypeOK, NEW c \in BotClients, bind[c].pc \in {"bind", "rebind"}
  PROVE  bind[c].new \in Bindings /\ bind[c].seen \in Bindings \cup {NoBinding}
BY DEF BindingTypeOK, NoBind

LEMMA BindingKept == BindingInv /\ [BindingNext]_bindingVars => BindingInv'
<1> SUFFICES ASSUME BindingInv, [BindingNext]_bindingVars PROVE BindingInv'
  OBVIOUS
<1> USE DEF BindingInv
<1>1. CASE ModelsChange
  BY <1>1 DEF ModelsChange, BindingTypeOK, RebindsKeepRest, BindingAsAcknowledged
<1>2. CASE TelegramDelete
  BY <1>2 DEF TelegramDelete, BindingTypeOK, RebindsKeepRest, BindingAsAcknowledged
<1>3. ASSUME NEW c \in BotClients, TelegramSaveChecks(c) PROVE BindingInv'
  <2>1. PICK i \in known, k \in BotTokens, chat \in BOOLEAN :
          StartBind(c, [pc |-> "bind", seen |-> telegram,
                        new |-> [token |-> k, model |-> i, chat |-> chat]])
    BY <1>3 DEF TelegramSaveChecks
  <2>2. BindingTypeOK'
    BY <1>3, <2>1 DEF TelegramSaveChecks, StartBind, BindingTypeOK, Bindings
  <2>3. RebindsKeepRest'
    BY <2>1 DEF StartBind, BindingTypeOK, RebindsKeepRest
  <2> QED BY <1>3, <2>2, <2>3 DEF TelegramSaveChecks, BindingAsAcknowledged
<1>4. ASSUME NEW c \in BotClients, FinishBind(c), known' = known,
             telegram' \in Bindings, bound' \in Bindings \cup {NoBinding}, overtaken' \in BOOLEAN
      PROVE  BindingTypeOK' /\ RebindsKeepRest'
  BY <1>4 DEF FinishBind, BindingTypeOK, RebindsKeepRest, NoBind
<1>5. ASSUME NEW c \in BotClients, TelegramSaves(c) PROVE BindingInv'
  <2>1. bind[c].new \in Bindings
    BY <1>5, BindKnown DEF TelegramSaves
  <2>2. telegram' \in Bindings /\ bound' = telegram'
    BY <1>5, <2>1, UpsertIsBinding DEF TelegramSaves
  <2> QED BY <1>4, <1>5, <2>2 DEF TelegramSaves, BindingAsAcknowledged
<1>6. ASSUME NEW c \in BotClients, TelegramSetModelReads(c) PROVE BindingInv'
  <2>1. PICK i \in known :
          StartBind(c, [pc |-> "rebind", seen |-> telegram, new |-> [telegram EXCEPT !.model = i]])
    BY <1>6 DEF TelegramSetModelReads
  <2>2. /\ telegram # NoBinding /\ telegram \in Bindings
        /\ [telegram EXCEPT !.model = i] \in Bindings
        /\ [telegram EXCEPT !.model = i].chat = telegram.chat
    BY <1>6 DEF TelegramSetModelReads, BindingTypeOK, Bindings
  <2> HIDE DEF BindingInv
  <2> DEFINE rebinding == [pc |-> "rebind", seen |-> telegram, new |-> [telegram EXCEPT !.model = i]]
  <2>3. rebinding \in [pc : {"bind", "rebind"}, seen : Bindings \cup {NoBinding}, new : Bindings]
        /\ rebinding.seen # NoBinding /\ rebinding.new.chat = rebinding.seen.chat
    BY <2>2
  <2>4. bind' = [bind EXCEPT ![c] = rebinding]
    BY <2>1 DEF StartBind
  <2> HIDE DEF rebinding
  <2>5. BindingTypeOK'
    BY <1>6, <2>3, <2>4 DEF TelegramSetModelReads, BindingTypeOK, BindingInv
  <2>6. RebindsKeepRest'
    BY <2>3, <2>4 DEF BindingTypeOK, RebindsKeepRest, BindingInv
  <2> QED BY <1>6, <2>5, <2>6 DEF TelegramSetModelReads, BindingAsAcknowledged, BindingInv
<1>7. ASSUME NEW c \in BotClients, TelegramSetsModel(c) PROVE BindingInv'
  <2>1. bind[c].new \in Bindings /\ bind[c].seen # NoBinding
        /\ bind[c].new.chat = bind[c].seen.chat
    BY <1>7, BindKnown DEF TelegramSetsModel, RebindsKeepRest
  <2>2. /\ telegram' \in Bindings
        /\ telegram' = [bind[c].new EXCEPT !.chat = @ \/ (telegram # NoBinding /\ telegram.chat)]
    BY <1>7, <2>1, UpsertIsBinding DEF TelegramSetsModel
  <2>3. telegram = bind[c].seen => telegram' = bind[c].new
    BY <2>1, <2>2 DEF Bindings
  <2>4. /\ bound' \in Bindings \cup {NoBinding} /\ overtaken' \in BOOLEAN
        /\ ~overtaken' => telegram' = bound'
    BY <1>7, <2>1, <2>3 DEF TelegramSetsModel, BindingTypeOK
  <2> QED BY <1>4, <1>7, <2>2, <2>4 DEF TelegramSetsModel, BindingAsAcknowledged
<1>8. CASE UNCHANGED bindingVars
  BY <1>8 DEF bindingVars, BindingTypeOK, RebindsKeepRest, BindingAsAcknowledged
<1> QED BY <1>1, <1>2, <1>3, <1>5, <1>6, <1>7, <1>8 DEF BindingNext

(* For any numbers of models, clients, keys and restarts: a model holds    *)
(* the key its clients were told it holds, sealed so that the process can  *)
(* read it, and the binding is what the last request made of it, except    *)
(* where a request wrote back a copy that was out of date.                 *)
THEOREM SecretsStored == ModelsSpec /\ BindingSpec => StoredAsTold
<1>1. BindingInv => (~overtaken => BindingAsAcknowledged)
  BY DEF BindingInv
<1>2. BindingSpec => [](~overtaken => BindingAsAcknowledged)
  BY <1>1, BindingBegins, BindingKept, PTL DEF BindingSpec
<1> QED BY <1>2, ModelsKeepSecrets, PTL DEF StoredAsTold

-----------------------------------------------------------------------------
(* The exchange accounts. *)

AccountsInv == AccountsTypeOK /\ \A i \in accounts : PrivateFieldsPresent(i)

(* A trader resolves the newest account it can use. *)
LEMMA ResolvesNewest ==
  ASSUME AccountsTypeOK, NEW type, Resolve(type) # NoAccount
  PROVE  /\ Resolve(type) \in Eligible(type)
         /\ \A i \in Eligible(type) : i <= Resolve(type)
<1>1. Eligible(type) # {} /\ Eligible(type) \subseteq 0..created /\ created \in Nat
  <2>1. Eligible(type) # {} /\ created \in Nat
    BY AccountsAssumption DEF Resolve, AccountsTypeOK
  <2>2. Eligible(type) \subseteq accounts /\ accounts \subseteq 1..created
    BY DEF Eligible, AccountsTypeOK
  <2>3. 1..created \subseteq 0..created
    BY <2>1
  <2> HIDE DEF Eligible
  <2> QED BY <2>1, <2>2, <2>3
<1>2. \E m \in Eligible(type) : \A i \in Eligible(type) : i <= m
  <2> HIDE DEF Eligible
  <2> QED BY <1>1, Greatest
<1> QED BY <1>1, <1>2 DEF Resolve

LEMMA RowsTyped ==
  ASSUME AccountsTypeOK
  PROVE  /\ Blank \in Rows
         /\ \A chosen : applyCredentials(chosen) \in Fields
         /\ \A fields \in Fields : \A chosen, emptied :
              applyCredentialsUpdate(fields, chosen, emptied) \in Fields
<1> USE AccountsAssumption
<1>1. Absent \in 0..Absent /\ 0 \in 0..Absent /\ rsa \in 0..Absent
  BY DEF Absent, AccountsTypeOK
<1>2. Blank \in Rows
  BY <1>1 DEF Blank, Rows, Fields
<1>3. \A f : SealedNow(f) \in 0..Absent
  BY <1>1 DEF SealedNow
<1> QED BY <1>1, <1>2, <1>3 DEF applyCredentials, applyCredentialsUpdate, Fields

LEMMA AccountsBegin == AccountsInit => AccountsInv
<1> SUFFICES ASSUME AccountsInit PROVE AccountsInv
  OBVIOUS
<1>1. Blank \in Rows
  BY AccountsAssumption DEF Blank, Rows, Fields, Absent
<1> QED BY <1>1, AccountsAssumption DEF AccountsInit, AccountsInv, AccountsTypeOK, NoEdit

(* Given now or kept, a private field a row must have is there. *)
LEMMA CreatedComplete ==
  ASSUME AccountsTypeOK, NEW chosen, NEW type \in AccountTypes, NEW on, NEW i \in Ids,
         Required(type) \subseteq chosen, chosen \subseteq AccountFields,
         account'[i] = [type |-> type, enabled |-> on, fields |-> applyCredentials(chosen)]
  PROVE  PrivateFieldsPresent(i)'
<1>1. \A f : SealedNow(f) # Absent
  BY AccountsAssumption DEF SealedNow, AccountsTypeOK, Absent
<1> QED BY <1>1 DEF PrivateFieldsPresent, Present, applyCredentials

LEMMA UpdatedComplete ==
  ASSUME AccountsTypeOK, NEW copy \in Rows, NEW type \in AccountTypes, NEW on, NEW i \in Ids,
         NEW chosen, NEW emptied, Complete(copy, type),
         account'[i] = [type |-> type, enabled |-> on,
                        fields |-> applyCredentialsUpdate(copy.fields, chosen, emptied)]
  PROVE  PrivateFieldsPresent(i)'
<1>1. \A f : SealedNow(f) # Absent
  BY AccountsAssumption DEF SealedNow, AccountsTypeOK, Absent
<1>2. Private \cap Public = {}
  BY DEF Private, Public
<1> QED BY <1>1, <1>2 DEF PrivateFieldsPresent, Present, applyCredentialsUpdate, Complete

LEMMA AccountsKept == AccountsInv /\ [AccountsNext]_accountVars => AccountsInv'
<1> SUFFICES ASSUME AccountsInv, [AccountsNext]_accountVars PROVE AccountsInv'
  OBVIOUS
<1> USE AccountsAssumption DEF AccountsInv
<1>1. CASE AccountCreate
  <2>1. PICK type \in AccountTypes, chosen \in GivenFields, on \in BOOLEAN :
          /\ Required(type) \subseteq chosen
          /\ account' = [account EXCEPT ![created + 1] =
               [type |-> type, enabled |-> on, fields |-> applyCredentials(chosen)]]
    BY <1>1 DEF AccountCreate
  <2>2. /\ created \in Nat /\ created < MaxAccounts /\ created' = created + 1
        /\ accounts' = accounts \cup {created + 1} /\ created + 1 \in Ids
        /\ UNCHANGED <<edit, rsa, exchangeOf, using>>
    BY <1>1 DEF AccountCreate, AccountsTypeOK, Ids
  <2>3. 1..created \subseteq 1..created' /\ created' \in 0..MaxAccounts /\ created + 1 \in 1..created'
    BY <2>2
  <2>4. account' \in [Ids -> Rows]
    BY <2>1, <2>2, RowsTyped DEF AccountsTypeOK, Rows
  <2>5. AccountsTypeOK'
    BY <2>2, <2>3, <2>4 DEF AccountsTypeOK
  <2>6. ASSUME NEW i \in accounts' PROVE PrivateFieldsPresent(i)'
    <3>1. CASE i = created + 1
      BY <2>1, <2>2, <3>1, CreatedComplete DEF AccountsTypeOK
    <3>2. CASE i # created + 1
      BY <2>1, <2>2, <2>6, <3>2 DEF AccountsTypeOK, PrivateFieldsPresent, Present
    <3> QED BY <3>1, <3>2
  <2> QED BY <2>5, <2>6
<1>2. ASSUME NEW c \in AccountClients, AccountUpdateReads(c) PROVE AccountsInv'
  <2>1. PICK i \in accounts : edit' = [edit EXCEPT ![c] = [pc |-> "update", id |-> i, copy |-> account[i]]]
    BY <1>2 DEF AccountUpdateReads
  <2>2. i \in Ids /\ i \in 1..created /\ account[i] \in Rows
    BY DEF AccountsTypeOK, Ids
  <2>3. edit' \in [AccountClients -> {NoEdit} \cup [pc : {"update"}, id : 1..created, copy : Rows]]
    BY <2>1, <2>2 DEF AccountsTypeOK
  <2> QED BY <1>2, <2>3 DEF AccountUpdateReads, AccountsTypeOK, PrivateFieldsPresent, Present
<1>3. ASSUME NEW c \in AccountClients, AccountUpdateSaves(c) PROVE AccountsInv'
  <2>1. PICK type \in AccountTypes, on \in BOOLEAN, chosen \in GivenFields,
             emptied \in SUBSET (AccountFields \cap Public) :
          IF Complete(edit[c].copy, type)
          THEN /\ accounts' = accounts \cup {edit[c].id}
               /\ account' = [account EXCEPT ![edit[c].id] =
                    [type |-> type, enabled |-> on,
                     fields |-> applyCredentialsUpdate(edit[c].copy.fields, chosen, emptied)]]
          ELSE UNCHANGED <<accounts, account>>
    BY <1>3 DEF AccountUpdateSaves
  <2>2. /\ edit' = [edit EXCEPT ![c] = NoEdit]
        /\ UNCHANGED <<created, rsa, exchangeOf, using>>
    BY <1>3 DEF AccountUpdateSaves
  <2>3. edit[c].id \in 1..created /\ edit[c].id \in Ids /\ edit[c].copy \in Rows
        /\ edit[c].copy.fields \in Fields
    BY <1>3 DEF AccountUpdateSaves, AccountsTypeOK, NoEdit, Ids, Rows
  <2>4. CASE Complete(edit[c].copy, type)
    <3> DEFINE new == [type |-> type, enabled |-> on,
                       fields |-> applyCredentialsUpdate(edit[c].copy.fields, chosen, emptied)]
    <3>3. new \in Rows /\ AccountsTypeOK
      BY <2>3, RowsTyped DEF Rows
    <3>4. accounts' = accounts \cup {edit[c].id} /\ account' = [account EXCEPT ![edit[c].id] = new]
      BY <2>1, <2>4
    <3> HIDE DEF new
    <3>1. AccountsTypeOK'
      BY <2>2, <2>3, <3>3, <3>4 DEF AccountsTypeOK
    <3>2. ASSUME NEW i \in accounts' PROVE PrivateFieldsPresent(i)'
      <4>1. CASE i = edit[c].id
        <5>1. account'[i] = new
          BY <2>3, <3>3, <3>4, <4>1 DEF AccountsTypeOK
        <5> QED BY <2>3, <2>4, <3>3, <4>1, <5>1, UpdatedComplete DEF new
      <4>2. CASE i # edit[c].id
        <5>1. i \in accounts /\ i \in Ids /\ account'[i] = account[i]
          BY <3>2, <3>3, <3>4, <4>2 DEF AccountsTypeOK, Ids
        <5> QED BY <5>1 DEF PrivateFieldsPresent, Present
      <4> QED BY <4>1, <4>2
    <3> QED BY <3>1, <3>2
  <2>5. CASE ~Complete(edit[c].copy, type)
    BY <2>1, <2>2, <2>5 DEF AccountsTypeOK, PrivateFieldsPresent, Present
  <2> QED BY <2>4, <2>5
<1>4. ASSUME NEW i \in Ids, AccountDelete(i) PROVE AccountsInv'
  <2>1. AccountsTypeOK'
    BY <1>4, RowsTyped DEF AccountDelete, AccountsTypeOK
  <2>2. ASSUME NEW j \in accounts' PROVE PrivateFieldsPresent(j)'
    BY <1>4, <2>2 DEF AccountDelete, AccountsTypeOK, PrivateFieldsPresent, Present
  <2> QED BY <2>1, <2>2
<1>5. ASSUME NEW t \in AccountTraders, TraderResolves(t) PROVE AccountsInv'
  <2>1. Resolve(exchangeOf[t]) \in accounts
    BY <1>5, ResolvesNewest DEF TraderResolves, Eligible
  <2>2. using' \in [AccountTraders -> {NoAccount} \cup 1..created]
    BY <1>5, <2>1 DEF TraderResolves, AccountsTypeOK
  <2> QED BY <1>5, <2>2 DEF TraderResolves, AccountsTypeOK, PrivateFieldsPresent, Present
<1>6. CASE AccountsRestart
  BY <1>6 DEF AccountsRestart, AccountsTypeOK, PrivateFieldsPresent, Present
<1>7. CASE UNCHANGED accountVars
  BY <1>7 DEF accountVars, AccountsTypeOK, PrivateFieldsPresent, Present
<1> QED BY <1>1, <1>2, <1>3, <1>4, <1>5, <1>6, <1>7 DEF AccountsNext

LEMMA LeftForNewer ==
  ASSUME AccountsInv, [AccountsNext]_accountVars, NEW t \in AccountTraders,
         using[t] # NoAccount, using'[t] \notin {NoAccount, using[t]},
         using[t] \in Eligible(exchangeOf[t])
  PROVE  using'[t] > using[t]
<1> USE DEF AccountsInv
<1>1. TraderResolves(t)
  <2>1. ASSUME NEW s \in AccountTraders, TraderResolves(s) PROVE s = t
    BY <2>1 DEF TraderResolves, AccountsTypeOK
  <2>2. ~AccountsRestart /\ using' # using
    BY DEF AccountsRestart
  <2> QED
    BY <2>1, <2>2 DEF AccountsNext, AccountCreate, AccountUpdateReads, AccountUpdateSaves,
                      AccountDelete, accountVars
<1>2. using'[t] = Resolve(exchangeOf[t]) /\ using[t] <= using'[t]
  BY <1>1, ResolvesNewest DEF TraderResolves, AccountsTypeOK
<1>3. using[t] \in Nat /\ using'[t] \in Nat
  <2>1. using'[t] \in accounts /\ using[t] \in accounts
    BY <1>1, <1>2, ResolvesNewest DEF TraderResolves, Eligible
  <2>2. accounts \subseteq 1..created /\ created \in Nat
    BY AccountsAssumption DEF AccountsTypeOK
  <2>3. using'[t] \in 1..created /\ using[t] \in 1..created
    BY <2>1, <2>2
  <2> QED BY <2>2, <2>3
<1> QED BY <1>2, <1>3

(* For any numbers of accounts, requests, types, fields, traders and new   *)
(* RSA keys: every account has the private fields of its type, and a       *)
(* trader leaves an account it can still use only for a newer one.         *)
THEOREM AccountsServe == AccountsSpec => AccountsServeTraders
<1>1. AccountsInv => \A i \in accounts : PrivateFieldsPresent(i)
  BY DEF AccountsInv
<1>2. AccountsInv /\ [AccountsNext]_accountVars =>
        [\A t \in AccountTraders :
           /\ using[t] # NoAccount
           /\ using'[t] \notin {NoAccount, using[t]}
           => using'[t] > using[t] \/ using[t] \notin Eligible(exchangeOf[t])]_accountVars
  BY LeftForNewer
<1> QED
  BY <1>1, <1>2, AccountsBegin, AccountsKept, PTL
     DEF AccountsSpec, AccountsServeTraders, AccountLeftForNewer

-----------------------------------------------------------------------------
(* What a cycle decides                                                    *)

(* What a decision is, the limits a cycle may be under, and what the loop of the risk filter keeps.         *)
Decision ==
  [action : Words, symbol : Symbols \cup {NoSymbol}, qty : Nat, price : Nat, lev : Nat]
Controls == RiskControls \cup {DefaultRisk}
Tally == [out : Seq(Decision), open : Nat]

(* Among the first n. *)
Upto(s, actions, n) == {i \in 1..n : s[i].action \in actions}

LEMMA UptoCounts ==
  ASSUME NEW s, NEW actions, NEW n \in Nat
  PROVE  /\ IsFiniteSet(Upto(s, actions, n)) /\ Cardinality(Upto(s, actions, n)) \in Nat
         /\ n = 0 => Cardinality(Upto(s, actions, n)) = 0
         /\ n > 0 => Cardinality(Upto(s, actions, n)) =
                       Cardinality(Upto(s, actions, n - 1))
                       + (IF s[n].action \in actions THEN 1 ELSE 0)
<1>1. \A m \in Nat : /\ IsFiniteSet(Upto(s, actions, m))
                     /\ Cardinality(Upto(s, actions, m)) \in Nat
  <2> TAKE m \in Nat
  <2>1. IsFiniteSet(1..m)
    BY FS_Interval
  <2>2. Upto(s, actions, m) \in SUBSET (1..m)
    BY DEF Upto
  <2> QED BY <2>1, <2>2, FS_Subset, FS_CardinalityType
<1>2. ASSUME n = 0 PROVE Cardinality(Upto(s, actions, n)) = 0
  <2>1. Upto(s, actions, n) = {}
    BY <1>2 DEF Upto
  <2> QED BY <2>1, FS_EmptySet
<1>3. ASSUME n > 0
      PROVE  Cardinality(Upto(s, actions, n)) =
               Cardinality(Upto(s, actions, n - 1)) + (IF s[n].action \in actions THEN 1 ELSE 0)
  <2>1. n - 1 \in Nat /\ n \notin Upto(s, actions, n - 1)
    BY <1>3 DEF Upto
  <2>2. CASE s[n].action \in actions
    <3>1. Upto(s, actions, n) = Upto(s, actions, n - 1) \cup {n}
      BY <1>3, <2>2 DEF Upto
    <3> QED BY <1>1, <2>1, <2>2, <3>1, FS_AddElement
  <2>3. CASE s[n].action \notin actions
    <3>1. Upto(s, actions, n) = Upto(s, actions, n - 1)
      BY <1>3, <2>3 DEF Upto
    <3> QED BY <1>1, <2>1, <2>3, <3>1
  <2> QED BY <2>2, <2>3
<1> QED BY <1>1, <1>2, <1>3

LEMMA WhereIsUpto ==
  ASSUME NEW S, NEW s \in Seq(S), NEW actions
  PROVE  /\ Where(s, actions) = Upto(s, actions, Len(s))
         /\ IsFiniteSet(Where(s, actions)) /\ Cardinality(Where(s, actions)) \in Nat
<1>1. Len(s) \in Nat /\ DOMAIN s = 1..Len(s)
  OBVIOUS
<1>2. Where(s, actions) = Upto(s, actions, Len(s))
  BY <1>1 DEF Where, Upto
<1> QED BY <1>1, <1>2, UptoCounts

LEMMA NoneInEmpty ==
  ASSUME NEW actions
  PROVE  Where(<<>>, actions) = {} /\ Cardinality(Where(<<>>, actions)) = 0
<1>1. Where(<<>>, actions) = {}
  BY DEF Where
<1> QED BY <1>1, FS_EmptySet

LEMMA WhereAppend ==
  ASSUME NEW S, NEW s \in Seq(S), NEW d \in S, NEW actions
  PROVE  Cardinality(Where(Append(s, d), actions)) =
           Cardinality(Where(s, actions)) + (IF d.action \in actions THEN 1 ELSE 0)
<1> DEFINE t == Append(s, d)
           n == Len(s) + 1
<1>1. /\ t \in Seq(S) /\ Len(t) = n /\ Len(s) \in Nat
      /\ \A i \in 1..Len(s) : t[i] = s[i]
      /\ t[n] = d
  BY AppendProperties
<1>2. Where(t, actions) = Upto(t, actions, n)
  BY <1>1, WhereIsUpto
<1>3. Upto(t, actions, n - 1) = Where(s, actions)
  BY <1>1 DEF Where, Upto
<1>4. n \in Nat /\ n > 0
  BY <1>1
<1>5. Cardinality(Upto(t, actions, n)) =
        Cardinality(Upto(t, actions, n - 1)) + (IF t[n].action \in actions THEN 1 ELSE 0)
  <2> HIDE DEF t, n
  <2> QED BY <1>4, UptoCounts
<1>6. Cardinality(Where(t, actions)) =
        Cardinality(Where(s, actions)) + (IF d.action \in actions THEN 1 ELSE 0)
  <2> HIDE DEF t, n
  <2> QED BY <1>1, <1>2, <1>3, <1>5
<1> QED BY <1>6

(* A set of numbers, moved, has as many.                                   *)
LEMMA Moved ==
  ASSUME NEW S \in SUBSET Int, IsFiniteSet(S), NEW T \in SUBSET Int, NEW k \in Int,
         \A i \in S : i + k \in T, \A j \in T : j - k \in S
  PROVE  IsFiniteSet(T) /\ Cardinality(T) = Cardinality(S)
<1> DEFINE f == [i \in S |-> i + k]
<1>1. f \in [S -> T] /\ \A t \in T : \E i \in S : f[i] = t
  <2>1. \A t \in T : t - k \in S /\ (t - k) + k = t
    OBVIOUS
  <2> QED BY <2>1
<1>2. \A i, j \in S : f[i] = f[j] => i = j
  OBVIOUS
<1>3. f \in Bijection(S, T)
  <2> HIDE DEF f
  <2> QED BY <1>1, <1>2 DEF Bijection, Injection, Surjection, IsInjective
<1>4. ExistsBijection(S, T)
  BY <1>3 DEF ExistsBijection
<1> QED BY <1>4, FS_Bijection

LEMMA WhereTail ==
  ASSUME NEW S, NEW s \in Seq(S), s # <<>>, NEW actions
  PROVE  Cardinality(Where(s, actions)) =
           Cardinality(Where(Tail(s), actions)) + (IF Head(s).action \in actions THEN 1 ELSE 0)
<1> DEFINE W == Where(s, actions)
           V == Where(Tail(s), actions)
<1>1. /\ Tail(s) \in Seq(S) /\ Len(Tail(s)) = Len(s) - 1 /\ Head(s) = s[1]
      /\ Len(s) \in Nat /\ Len(s) > 0
      /\ \A i \in 1..Len(Tail(s)) : Tail(s)[i] = s[i+1]
  BY HeadTailProperties
<1>2. /\ W = Upto(s, actions, Len(s)) /\ IsFiniteSet(W) /\ Cardinality(W) \in Nat
      /\ V = Upto(Tail(s), actions, Len(s) - 1)
      /\ IsFiniteSet(V) /\ Cardinality(V) \in Nat
  BY <1>1, WhereIsUpto
<1>3. /\ \A i \in V : i + 1 \in W \ {1}
      /\ \A j \in W \ {1} : j - 1 \in V
  BY <1>1, <1>2 DEF Upto
<1>4. V \in SUBSET Int /\ W \ {1} \in SUBSET Int
  BY <1>1, <1>2 DEF Upto
<1>5. Cardinality(W \ {1}) = Cardinality(V)
  <2> HIDE DEF V, W
  <2> QED BY <1>2, <1>3, <1>4, Moved
<1>6. 1 \in W <=> Head(s).action \in actions
  BY <1>1, <1>2 DEF Upto
<1>7. Cardinality(W \ {1}) = IF 1 \in W THEN Cardinality(W) - 1 ELSE Cardinality(W)
  <2> HIDE DEF V, W
  <2> QED BY <1>2, FS_RemoveElement
<1> HIDE DEF V, W
<1> QED BY <1>2, <1>5, <1>6, <1>7 DEF V, W

LEMMA WhereConcat ==
  ASSUME NEW S, NEW s \in Seq(S), NEW t \in Seq(S), NEW actions
  PROVE  Cardinality(Where(s \o t, actions)) =
           Cardinality(Where(s, actions)) + Cardinality(Where(t, actions))
<1> DEFINE W == Where(s \o t, actions)
           A == Where(s, actions)
           B == Where(t, actions)
           C == W \ A
<1>1. /\ s \o t \in Seq(S) /\ Len(s \o t) = Len(s) + Len(t)
      /\ Len(s) \in Nat /\ Len(t) \in Nat
      /\ \A i \in 1..Len(s) + Len(t) : (s \o t)[i] = IF i <= Len(s) THEN s[i] ELSE t[i - Len(s)]
  BY ConcatProperties
<1>2. /\ W = Upto(s \o t, actions, Len(s) + Len(t))
      /\ A = Upto(s, actions, Len(s)) /\ IsFiniteSet(A) /\ Cardinality(A) \in Nat
      /\ B = Upto(t, actions, Len(t)) /\ IsFiniteSet(B) /\ Cardinality(B) \in Nat
  BY <1>1, WhereIsUpto
<1>3. /\ A \subseteq W
      /\ \A i \in C : i - Len(s) \in B
      /\ \A i \in B : i + Len(s) \in C
  <2>1. \A i \in A : i \in W
    BY <1>1, <1>2 DEF Upto
  <2>2. \A i \in C : i - Len(s) \in B
    BY <1>1, <1>2 DEF Upto
  <2>3. \A i \in B : i + Len(s) \in C
    <3> TAKE i \in B
    <3>1. i \in 1..Len(t) /\ t[i].action \in actions
      BY <1>2 DEF Upto
    <3>2. i + Len(s) \in 1..Len(s) + Len(t) /\ ~(i + Len(s) <= Len(s)) /\ (i + Len(s)) - Len(s) = i
      BY <1>1, <3>1
    <3>3. (s \o t)[i + Len(s)] = t[i]
      BY <1>1, <3>2
    <3> QED BY <1>2, <3>1, <3>2, <3>3 DEF Upto
  <2> HIDE DEF W, A, B, C
  <2> QED BY <2>1, <2>2, <2>3
<1>4. A \cap C = {} /\ W = A \cup C
  <2> HIDE DEF W, A, B
  <2> QED BY <1>3
<1>5. IsFiniteSet(C) /\ Cardinality(C) = Cardinality(B)
  <2>1. B \in SUBSET Int /\ C \in SUBSET Int /\ Len(s) \in Int
    BY <1>1, <1>2 DEF Upto
  <2> HIDE DEF B, C
  <2> QED BY <1>2, <1>3, <2>1, Moved
<1>6. Cardinality(A \cup C) = Cardinality(A) + Cardinality(C) - Cardinality(A \cap C)
  <2> HIDE DEF A, C
  <2> QED BY <1>2, <1>5, FS_Union
<1>7. Cardinality(A \cap C) = 0
  BY <1>4, FS_EmptySet
<1>8. Cardinality(W) = Cardinality(A) + Cardinality(B)
  <2> HIDE DEF W, A, B, C
  <2>1. Cardinality(W) = Cardinality(A \cup C)
    BY <1>4
  <2>2. Cardinality(A \cup C) = Cardinality(A) + Cardinality(B)
    BY <1>2, <1>5, <1>6, <1>7
  <2> QED BY <2>1, <2>2
<1> QED BY <1>8

(* The limits in force are the strategy's or the default, and numbers.     *)
LEMMA InForce == \A rc \in RiskControls : strategyConfig(rc) \in Controls
BY DEF strategyConfig, Controls

LEMMA LimitsAreNumbers ==
  ASSUME NEW rc \in Controls
  PROVE  /\ MaxPositions(rc) \in Nat
         /\ \A s \in Symbols \cup {NoSymbol} : MaxLev(rc, s) \in Int
<1>1. rc.maxPositions \in Int /\ rc.majorLev \in Int /\ rc.altLev \in Int
  BY DecisionsAssumption DEF Controls, DefaultRisk
<1> QED BY <1>1 DEF MaxPositions, OrElse, MaxLev

LEMMA CappedTells ==
  ASSUME NEW rc \in Controls, NEW d \in Decision
  PROVE  /\ Capped(rc, d) \in Decision /\ From(Capped(rc, d), d) /\ From(d, d)
         /\ Capped(rc, d).action = d.action
         /\ Capped(rc, d) = d \/ Capped(rc, d).lev = MaxLev(rc, Capped(rc, d).symbol)
<1>1. /\ MaxLev(rc, d.symbol) \in Int
      /\ Leverage(d) \in Nat /\ d.lev <= Leverage(d) /\ d.lev \in Nat
      /\ d = [d EXCEPT !.lev = d.lev]
  BY LimitsAreNumbers DEF Decision, Leverage, OrElse
<1>2. From(d, d)
  BY <1>1 DEF From
<1>3. CASE MaxLev(rc, d.symbol) > 0 /\ Leverage(d) > MaxLev(rc, d.symbol)
  <2> DEFINE m == MaxLev(rc, d.symbol)
             e == [d EXCEPT !.lev = m]
  <2>1. Capped(rc, d) = e
    BY <1>3 DEF Capped
  <2>2. m \in Nat /\ m <= Leverage(d)
    BY <1>1, <1>3
  <2>3. e \in Decision /\ e.lev = m /\ e.symbol = d.symbol /\ e.action = d.action
    <3> HIDE DEF m
    <3> QED BY <2>2 DEF Decision
  <2>4. From(e, d)
    <3> HIDE DEF m
    <3> QED BY <2>2, <2>3 DEF From
  <2> HIDE DEF e
  <2> QED BY <1>2, <2>1, <2>3, <2>4
<1>4. CASE ~(MaxLev(rc, d.symbol) > 0 /\ Leverage(d) > MaxLev(rc, d.symbol))
  BY <1>2, <1>4 DEF Capped
<1> QED BY <1>3, <1>4

LEMMA AdmitTyped ==
  ASSUME NEW rc \in Controls, NEW balance, NEW acc \in Tally, NEW d \in Decision
  PROVE  Admit(rc, balance, acc, d) \in Tally
<1>1. Append(acc.out, d) \in Seq(Decision) /\ Append(acc.out, Capped(rc, d)) \in Seq(Decision)
  BY CappedTells, AppendProperties DEF Tally
<1>2. acc.open \in Nat /\ acc.open + 1 \in Nat
  BY DEF Tally
<1> DEFINE kept == [acc EXCEPT !.out = Append(@, d)]
           counted == [out |-> Append(acc.out, Capped(rc, d)), open |-> acc.open + 1]
<1>3. kept \in Tally
  BY <1>1 DEF Tally
<1>4. counted \in Tally
  BY <1>1, <1>2 DEF Tally
<1>5. Admit(rc, balance, acc, d) \in {acc, kept, counted}
  BY DEF Admit
<1> HIDE DEF kept, counted
<1> QED BY <1>3, <1>4, <1>5

(* What the filter has let through after n decisions.                      *)
FilterInv(rc, balance, ds, n, acc) ==
  /\ acc \in Tally
  /\ \A i \in DOMAIN acc.out :
       /\ \E j \in 1..n : From(acc.out[i], ds[j])
       /\ IsOpen(acc.out[i]) => \/ WithinMargin(rc, balance, acc.out[i])
                                \/ acc.out[i].lev = MaxLev(rc, acc.out[i].symbol)
  /\ Cardinality(Where(acc.out, Closes)) = Cardinality(Upto(ds, Closes, n))
  /\ acc.open = RowCount + Cardinality(Where(acc.out, Opens))
  /\ acc.open <= Greater(RowCount, MaxPositions(rc))

LEMMA FilterStep ==
  ASSUME NEW rc \in Controls, NEW balance, NEW ds \in Seq(Decision), RowCount \in Nat,
         NEW n \in 1..Len(ds), NEW acc, FilterInv(rc, balance, ds, n - 1, acc)
  PROVE  FilterInv(rc, balance, ds, n, Admit(rc, balance, acc, ds[n]))
<1> DEFINE d == ds[n]
           new == Admit(rc, balance, acc, d)
           Takes == ~Judged(d) \/ (acc.open < MaxPositions(rc) /\ Fits(rc, balance, d))
           e == IF Judged(d) THEN Capped(rc, d) ELSE d
<1>1. /\ d \in Decision /\ Len(ds) \in Nat /\ n \in Nat /\ n - 1 \in Nat /\ n > 0
      /\ MaxPositions(rc) \in Nat
  BY LimitsAreNumbers
<1>2. /\ acc \in Tally /\ acc.out \in Seq(Decision) /\ acc.open \in Nat
      /\ new \in Tally
  BY <1>1, AdmitTyped DEF FilterInv, Tally
<1>3. /\ e \in Decision /\ From(e, d) /\ e.action = d.action
      /\ IsOpen(e) => e = d \/ e.lev = MaxLev(rc, e.symbol)
  BY <1>1, CappedTells
<1>4. Cardinality(Upto(ds, Closes, n)) =
        Cardinality(Upto(ds, Closes, n - 1)) + (IF d.action \in Closes THEN 1 ELSE 0)
  BY <1>1, UptoCounts
<1>5. CASE Takes
  <2>1. /\ new.out = Append(acc.out, e)
        /\ new.open = acc.open + (IF Judged(d) THEN 1 ELSE 0)
    BY <1>2, <1>5 DEF Admit, Tally
  <2>2. /\ Len(new.out) = Len(acc.out) + 1 /\ DOMAIN new.out = 1..Len(acc.out) + 1
        /\ DOMAIN acc.out = 1..Len(acc.out) /\ Len(acc.out) \in Nat
        /\ \A i \in 1..Len(acc.out) : new.out[i] = acc.out[i]
        /\ new.out[Len(acc.out) + 1] = e
    <3> HIDE DEF new, e
    <3> QED BY <1>2, <1>3, <2>1, AppendProperties
  <2>3. IsOpen(e) => \/ WithinMargin(rc, balance, e)
                     \/ e.lev = MaxLev(rc, e.symbol)
    <3>1. IsOpen(e) => Judged(d)
      BY <1>3 DEF IsOpen, Judged
    <3>2. Judged(d) => WithinMargin(rc, balance, d)
      BY <1>5 DEF Fits
    <3> HIDE DEF e, d
    <3> QED BY <1>3, <3>1, <3>2
  <2>4. \A i \in DOMAIN new.out :
          /\ \E j \in 1..n : From(new.out[i], ds[j])
          /\ IsOpen(new.out[i]) => \/ WithinMargin(rc, balance, new.out[i])
                                   \/ new.out[i].lev = MaxLev(rc, new.out[i].symbol)
    <3> TAKE i \in DOMAIN new.out
    <3>1. CASE i = Len(acc.out) + 1
      <4>1. new.out[i] = e /\ n \in 1..n
        BY <1>1, <2>2, <3>1
      <4> HIDE DEF new, e
      <4> QED BY <1>3, <2>3, <4>1
    <3>2. CASE i # Len(acc.out) + 1
      <4>1. i \in DOMAIN acc.out /\ new.out[i] = acc.out[i]
        BY <2>2, <3>2
      <4>2. \A j \in 1..n - 1 : j \in 1..n
        BY <1>1
      <4> HIDE DEF new
      <4> QED BY <4>1, <4>2 DEF FilterInv
    <3> QED BY <3>1, <3>2
  <2>5. /\ Cardinality(Where(new.out, Closes)) =
             Cardinality(Where(acc.out, Closes)) + (IF d.action \in Closes THEN 1 ELSE 0)
        /\ Cardinality(Where(new.out, Opens)) =
             Cardinality(Where(acc.out, Opens)) + (IF d.action \in Opens THEN 1 ELSE 0)
    <3> HIDE DEF new, e, d
    <3> QED BY <1>2, <1>3, <2>1, WhereAppend
  <2>6. /\ Cardinality(Where(acc.out, Closes)) \in Nat
        /\ Cardinality(Where(acc.out, Opens)) \in Nat
        /\ Cardinality(Upto(ds, Closes, n - 1)) \in Nat
    BY <1>1, <1>2, WhereIsUpto, UptoCounts
  <2>7. Cardinality(Where(new.out, Closes)) = Cardinality(Upto(ds, Closes, n))
    <3> HIDE DEF new, d
    <3> QED BY <1>4, <2>5, <2>6 DEF FilterInv
  <2>8. /\ new.open = RowCount + Cardinality(Where(new.out, Opens))
        /\ new.open <= Greater(RowCount, MaxPositions(rc))
    <3>1. Judged(d) <=> d.action \in Opens
      BY DEF Judged, IsOpen
    <3>2. Judged(d) => acc.open + 1 <= MaxPositions(rc)
      BY <1>1, <1>2, <1>5
    <3>3. Greater(RowCount, MaxPositions(rc)) \in Int /\ MaxPositions(rc) <= Greater(RowCount, MaxPositions(rc))
      BY <1>1 DEF Greater
    <3> HIDE DEF new, d
    <3> QED BY <1>1, <1>2, <2>1, <2>5, <2>6, <3>1, <3>2, <3>3 DEF FilterInv
  <2>9. FilterInv(rc, balance, ds, n, new)
    <3> HIDE DEF new
    <3> QED BY <1>2, <2>4, <2>7, <2>8 DEF FilterInv
  <2> QED BY <2>9
<1>6. CASE ~Takes
  <2>1. new = acc /\ Judged(d)
    BY <1>6 DEF Admit
  <2>2. d.action \notin Closes
    BY <2>1 DEF Judged, IsOpen, Opens, Closes
  <2>3. Cardinality(Upto(ds, Closes, n)) = Cardinality(Upto(ds, Closes, n - 1))
    BY <1>1, <1>4, <2>2, UptoCounts
  <2>4. \A j \in 1..n - 1 : j \in 1..n
    BY <1>1
  <2>5. FilterInv(rc, balance, ds, n, new)
    <3> HIDE DEF new
    <3> QED BY <2>1, <2>3, <2>4 DEF FilterInv
  <2> QED BY <2>5
<1> QED BY <1>5, <1>6

LEMMA TallyRuns ==
  ASSUME NEW L \in Nat, NEW base \in Tally, NEW step \in [1..L -> [Tally -> Tally]]
  PROVE  \E f \in [0..L -> Tally] : f[0] = base /\ \A n \in 1..L : f[n] = step[n][f[n-1]]
BY LoopIsDefined

LEMMA FilterRuns ==
  ASSUME NEW rc \in Controls, NEW balance, NEW ds \in Seq(Decision), RowCount \in Nat
  PROVE  \E acc : /\ FilterInv(rc, balance, ds, Len(ds), acc)
                  /\ filterByRisk(rc, balance, ds) = acc.out
<1> DEFINE L == Len(ds)
           base == [out |-> <<>>, open |-> RowCount]
           step == [n \in 1..L |-> [acc \in Tally |-> Admit(rc, balance, acc, ds[n])]]
           Is(f) == f = [n \in 0..L |-> IF n = 0 THEN base
                                        ELSE Admit(rc, balance, f[n-1], ds[n])]
           g == CHOOSE f : Is(f)
<1>1. L \in Nat /\ base \in Tally /\ \A n \in 1..L : ds[n] \in Decision
  BY DEF Tally
<1>2. step \in [1..L -> [Tally -> Tally]]
  BY <1>1, AdmitTyped
<1>3. PICK f \in [0..L -> Tally] : f[0] = base /\ \A n \in 1..L : f[n] = step[n][f[n-1]]
  <2> HIDE DEF L, base, step
  <2> QED BY <1>1, <1>2, TallyRuns
<1>4. Is(f)
  <2>2. \A n \in 1..L, acc \in Tally : step[n][acc] = Admit(rc, balance, acc, ds[n])
    OBVIOUS
  <2>1. ASSUME NEW n \in 1..L PROVE f[n] = Admit(rc, balance, f[n-1], ds[n])
    <3> HIDE DEF step, L
    <3>1. f[n-1] \in Tally
      <4>1. n - 1 \in 0..L
        BY <1>1
      <4> QED BY <1>3, <4>1
    <3>2. f[n] = step[n][f[n-1]]
      BY <1>3
    <3> QED BY <2>2, <3>1, <3>2
  <2> HIDE DEF L, base, step
  <2> QED BY <1>3, <2>1
<1>5. Is(g)
  <2> HIDE DEF Is
  <2> QED BY <1>4
<1>6. filterByRisk(rc, balance, ds) = g[L].out
  BY DEF filterByRisk
<1>7. g[0] = base /\ \A n \in 1..L : g[n] = Admit(rc, balance, g[n-1], ds[n])
  <2> HIDE DEF g, base, L
  <2> QED BY <1>1, <1>5
<1> DEFINE S == {n \in 0..L : FilterInv(rc, balance, ds, n, g[n])}
<1>8. 0 \in S
  <2>1. FilterInv(rc, balance, ds, 0, base)
    <3>1. Cardinality(Upto(ds, Closes, 0)) = 0
      BY UptoCounts
    <3>2. Cardinality(Where(<<>>, Closes)) = 0 /\ Cardinality(Where(<<>>, Opens)) = 0
      BY NoneInEmpty
    <3>3. MaxPositions(rc) \in Nat
      BY LimitsAreNumbers
    <3> QED BY <1>1, <3>1, <3>2, <3>3 DEF FilterInv, Greater
  <2> HIDE DEF g
  <2> QED BY <1>1, <1>7, <2>1
<1>9. \A n \in 1..L : n - 1 \in S => n \in S
  <2> HIDE DEF g
  <2> QED BY <1>1, <1>7, FilterStep
<1>10. L \in S
  <2> HIDE DEF S, L
  <2>1. \A n \in 0..L : n \in S
    BY <1>1, <1>8, <1>9, CountingUp
  <2> QED BY <1>1, <2>1
<1>11. FilterInv(rc, balance, ds, L, g[L])
  BY <1>10
<1> QED BY <1>6, <1>11

(* The two lists of the loop that puts closings first, after n decisions.  *)
Halves == [closeFirst : Seq(Decision), openActions : Seq(Decision)]

SplitInv(ds, n, acc) ==
  /\ acc \in Halves
  /\ \A i \in DOMAIN acc.closeFirst :
       IsClose(acc.closeFirst[i]) /\ \E j \in 1..n : acc.closeFirst[i] = ds[j]
  /\ \A i \in DOMAIN acc.openActions :
       ~IsClose(acc.openActions[i]) /\ \E j \in 1..n : acc.openActions[i] = ds[j]
  /\ Len(acc.closeFirst) + Len(acc.openActions) = n
  /\ Cardinality(Where(acc.closeFirst, Closes)) = Cardinality(Upto(ds, Closes, n))
  /\ Cardinality(Where(acc.openActions, Opens)) = Cardinality(Upto(ds, Opens, n))

LEMMA AppendKeeps ==
  ASSUME NEW s \in Seq(Decision), NEW d \in Decision
  PROVE  /\ Append(s, d) \in Seq(Decision) /\ Len(s) \in Nat
         /\ Len(Append(s, d)) = Len(s) + 1
         /\ \A i \in DOMAIN Append(s, d) :
              \/ i \in DOMAIN s /\ Append(s, d)[i] = s[i]
              \/ Append(s, d)[i] = d
<1>1. /\ Append(s, d) \in Seq(Decision) /\ Len(Append(s, d)) = Len(s) + 1 /\ Len(s) \in Nat
      /\ DOMAIN Append(s, d) = 1..Len(s) + 1 /\ DOMAIN s = 1..Len(s)
      /\ \A i \in 1..Len(s) : Append(s, d)[i] = s[i]
      /\ Append(s, d)[Len(s) + 1] = d
  BY AppendProperties
<1>2. ASSUME NEW i \in DOMAIN Append(s, d)
      PROVE  \/ i \in DOMAIN s /\ Append(s, d)[i] = s[i]
             \/ Append(s, d)[i] = d
  <2>1. i \in 1..Len(s) \/ i = Len(s) + 1
    BY <1>1
  <2> QED BY <1>1, <2>1
<1> QED BY <1>1, <1>2

LEMMA SplitStep ==
  ASSUME NEW ds \in Seq(Decision), NEW n \in 1..Len(ds), NEW acc, SplitInv(ds, n - 1, acc)
  PROVE  SplitInv(ds, n, Sorted(acc, ds[n]))
<1> DEFINE d == ds[n]
<1>1. /\ d \in Decision /\ n \in Nat /\ n > 0 /\ n - 1 \in Nat /\ n \in 1..n
      /\ \A j \in 1..n - 1 : j \in 1..n
  OBVIOUS
<1>2. acc \in Halves /\ acc.closeFirst \in Seq(Decision) /\ acc.openActions \in Seq(Decision)
  BY DEF SplitInv, Halves
<1>3. /\ Cardinality(Upto(ds, Closes, n)) =
           Cardinality(Upto(ds, Closes, n - 1)) + (IF d.action \in Closes THEN 1 ELSE 0)
      /\ Cardinality(Upto(ds, Opens, n)) =
           Cardinality(Upto(ds, Opens, n - 1)) + (IF d.action \in Opens THEN 1 ELSE 0)
      /\ Cardinality(Upto(ds, Closes, n - 1)) \in Nat
      /\ Cardinality(Upto(ds, Opens, n - 1)) \in Nat
  BY <1>1, UptoCounts
<1>6. /\ Cardinality(Where(acc.closeFirst, Closes)) = Cardinality(Upto(ds, Closes, n - 1))
      /\ Cardinality(Where(acc.openActions, Opens)) = Cardinality(Upto(ds, Opens, n - 1))
      /\ Len(acc.closeFirst) + Len(acc.openActions) = n - 1
  BY DEF SplitInv
<1>4. CASE IsClose(d)
  <2> DEFINE s == Append(acc.closeFirst, d)
             new == [acc EXCEPT !.closeFirst = s]
  <2>1. /\ s \in Seq(Decision) /\ Len(s) = Len(acc.closeFirst) + 1
        /\ Len(acc.closeFirst) \in Nat
        /\ \A i \in DOMAIN s : \/ i \in DOMAIN acc.closeFirst /\ s[i] = acc.closeFirst[i]
                               \/ s[i] = d
    BY <1>1, <1>2, AppendKeeps
  <2>2. new \in Halves /\ new.closeFirst = s /\ new.openActions = acc.openActions
    BY <1>2, <2>1 DEF Halves
  <2>3. \A i \in DOMAIN s : IsClose(s[i]) /\ \E j \in 1..n : s[i] = ds[j]
    <3> HIDE DEF s
    <3>1. \A i \in DOMAIN acc.closeFirst :
             IsClose(acc.closeFirst[i]) /\ \E j \in 1..n : acc.closeFirst[i] = ds[j]
      BY <1>1 DEF SplitInv
    <3>2. IsClose(d) /\ \E j \in 1..n : d = ds[j]
      BY <1>1, <1>4
    <3> QED BY <2>1, <3>1, <3>2
  <2>4. \A i \in DOMAIN acc.openActions :
          ~IsClose(acc.openActions[i]) /\ \E j \in 1..n : acc.openActions[i] = ds[j]
    BY <1>1 DEF SplitInv
  <2>5. Cardinality(Where(s, Closes)) = Cardinality(Where(acc.closeFirst, Closes)) + 1
    BY <1>1, <1>2, <1>4, WhereAppend DEF IsClose
  <2>6. d.action \in Closes /\ d.action \notin Opens
    BY <1>4 DEF IsClose, Opens, Closes
  <2>7. Len(acc.openActions) \in Nat
    BY <1>2
  <2>8. Len(new.closeFirst) + Len(new.openActions) = n
    <3>1. Len(new.closeFirst) = Len(s) /\ Len(new.openActions) = Len(acc.openActions)
      <4> HIDE DEF new, s
      <4> QED BY <2>2
    <3>2. /\ Len(s) = Len(acc.closeFirst) + 1 /\ Len(acc.closeFirst) \in Nat
          /\ Len(acc.openActions) \in Nat /\ n \in Nat
      BY <1>1, <2>1, <2>7
    <3>3. Len(acc.closeFirst) + Len(acc.openActions) = n - 1
      BY <1>6
    <3>4. \A a, b \in Nat : a + b = n - 1 => (a + 1) + b = n
      BY <1>1
    <3>5. (Len(acc.closeFirst) + 1) + Len(acc.openActions) = n
      BY <3>2, <3>3, <3>4
    <3> HIDE DEF new, s
    <3> QED BY <3>1, <3>2, <3>5
  <2>9. /\ Cardinality(Where(new.closeFirst, Closes)) = Cardinality(Upto(ds, Closes, n))
        /\ Cardinality(Where(new.openActions, Opens)) = Cardinality(Upto(ds, Opens, n))
    <3> HIDE DEF new, s
    <3> QED BY <1>3, <1>6, <2>2, <2>5, <2>6
  <2>10. SplitInv(ds, n, new)
    <3> HIDE DEF new, s
    <3> QED BY <2>2, <2>3, <2>4, <2>8, <2>9 DEF SplitInv
  <2> QED BY <1>4, <2>10 DEF Sorted
<1>5. CASE ~IsClose(d)
  <2> DEFINE s == Append(acc.openActions, d)
             new == [acc EXCEPT !.openActions = s]
  <2>1. /\ s \in Seq(Decision) /\ Len(s) = Len(acc.openActions) + 1
        /\ Len(acc.openActions) \in Nat
        /\ \A i \in DOMAIN s : \/ i \in DOMAIN acc.openActions /\ s[i] = acc.openActions[i]
                               \/ s[i] = d
    BY <1>1, <1>2, AppendKeeps
  <2>2. new \in Halves /\ new.openActions = s /\ new.closeFirst = acc.closeFirst
    BY <1>2, <2>1 DEF Halves
  <2>3. \A i \in DOMAIN s : ~IsClose(s[i]) /\ \E j \in 1..n : s[i] = ds[j]
    <3> HIDE DEF s
    <3>1. \A i \in DOMAIN acc.openActions :
             ~IsClose(acc.openActions[i]) /\ \E j \in 1..n : acc.openActions[i] = ds[j]
      BY <1>1 DEF SplitInv
    <3>2. ~IsClose(d) /\ \E j \in 1..n : d = ds[j]
      BY <1>1, <1>5
    <3> QED BY <2>1, <3>1, <3>2
  <2>4. \A i \in DOMAIN acc.closeFirst :
          IsClose(acc.closeFirst[i]) /\ \E j \in 1..n : acc.closeFirst[i] = ds[j]
    BY <1>1 DEF SplitInv
  <2>5. Cardinality(Where(s, Opens)) =
          Cardinality(Where(acc.openActions, Opens)) + (IF d.action \in Opens THEN 1 ELSE 0)
    BY <1>1, <1>2, WhereAppend
  <2>6. d.action \notin Closes
    BY <1>5 DEF IsClose
  <2>7. Len(acc.closeFirst) \in Nat
    BY <1>2
  <2>8. Len(new.closeFirst) + Len(new.openActions) = n
    <3>1. Len(new.openActions) = Len(s) /\ Len(new.closeFirst) = Len(acc.closeFirst)
      <4> HIDE DEF new, s
      <4> QED BY <2>2
    <3>2. /\ Len(s) = Len(acc.openActions) + 1 /\ Len(acc.openActions) \in Nat
          /\ Len(acc.closeFirst) \in Nat /\ n \in Nat
      BY <1>1, <2>1, <2>7
    <3>3. Len(acc.closeFirst) + Len(acc.openActions) = n - 1
      BY <1>6
    <3>4. \A a, b \in Nat : a + b = n - 1 => a + (b + 1) = n
      BY <1>1
    <3>5. Len(acc.closeFirst) + (Len(acc.openActions) + 1) = n
      BY <3>2, <3>3, <3>4
    <3> HIDE DEF new, s
    <3> QED BY <3>1, <3>2, <3>5
  <2>9. /\ Cardinality(Where(new.closeFirst, Closes)) = Cardinality(Upto(ds, Closes, n))
        /\ Cardinality(Where(new.openActions, Opens)) = Cardinality(Upto(ds, Opens, n))
    <3> HIDE DEF new, s
    <3> QED BY <1>3, <1>6, <2>2, <2>5, <2>6
  <2>10. SplitInv(ds, n, new)
    <3> HIDE DEF new, s
    <3> QED BY <2>2, <2>3, <2>4, <2>8, <2>9 DEF SplitInv
  <2> QED BY <1>5, <2>10 DEF Sorted
<1> QED BY <1>4, <1>5

LEMMA HalvesRun ==
  ASSUME NEW L \in Nat, NEW base \in Halves, NEW step \in [1..L -> [Halves -> Halves]]
  PROVE  \E f \in [0..L -> Halves] : f[0] = base /\ \A n \in 1..L : f[n] = step[n][f[n-1]]
BY LoopIsDefined

LEMMA SplitRuns ==
  ASSUME NEW ds \in Seq(Decision)
  PROVE  \E acc : /\ SplitInv(ds, Len(ds), acc)
                  /\ ClosesFirst(ds) = acc.closeFirst \o acc.openActions
<1> DEFINE L == Len(ds)
           base == [closeFirst |-> <<>>, openActions |-> <<>>]
           step == [n \in 1..L |-> [acc \in Halves |-> Sorted(acc, ds[n])]]
           Is(f) == f = [n \in 0..L |->
                           IF n = 0 THEN base ELSE Sorted(f[n-1], ds[n])]
           g == CHOOSE f : Is(f)
<1>1. L \in Nat /\ base \in Halves /\ \A n \in 1..L : ds[n] \in Decision
  BY DEF Halves
<1>2. step \in [1..L -> [Halves -> Halves]]
  <2>1. ASSUME NEW n \in 1..L, NEW acc \in Halves PROVE Sorted(acc, ds[n]) \in Halves
    BY <1>1, AppendKeeps DEF Sorted, Halves
  <2> QED BY <2>1
<1>3. PICK f \in [0..L -> Halves] : f[0] = base /\ \A n \in 1..L : f[n] = step[n][f[n-1]]
  <2> HIDE DEF L, base, step
  <2> QED BY <1>1, <1>2, HalvesRun
<1>4. Is(f)
  <2>2. \A n \in 1..L, acc \in Halves : step[n][acc] = Sorted(acc, ds[n])
    OBVIOUS
  <2>1. ASSUME NEW n \in 1..L PROVE f[n] = Sorted(f[n-1], ds[n])
    <3> HIDE DEF step, L
    <3>1. f[n-1] \in Halves
      <4>1. n - 1 \in 0..L
        BY <1>1
      <4> QED BY <1>3, <4>1
    <3>2. f[n] = step[n][f[n-1]]
      BY <1>3
    <3> QED BY <2>2, <3>1, <3>2
  <2> HIDE DEF L, base, step
  <2> QED BY <1>3, <2>1
<1>5. Is(g)
  <2> HIDE DEF Is
  <2> QED BY <1>4
<1>6. ClosesFirst(ds) = g[L].closeFirst \o g[L].openActions
  BY DEF ClosesFirst
<1>7. g[0] = base /\ \A n \in 1..L : g[n] = Sorted(g[n-1], ds[n])
  <2> HIDE DEF g, base, L
  <2> QED BY <1>1, <1>5
<1> DEFINE S == {n \in 0..L : SplitInv(ds, n, g[n])}
<1>8. 0 \in S
  <2>1. SplitInv(ds, 0, base)
    <3>1. Cardinality(Upto(ds, Closes, 0)) = 0 /\ Cardinality(Upto(ds, Opens, 0)) = 0
      BY UptoCounts
    <3>2. Cardinality(Where(<<>>, Closes)) = 0 /\ Cardinality(Where(<<>>, Opens)) = 0
      BY NoneInEmpty
    <3> QED BY <1>1, <3>1, <3>2 DEF SplitInv
  <2> HIDE DEF g
  <2> QED BY <1>1, <1>7, <2>1
<1>9. \A n \in 1..L : n - 1 \in S => n \in S
  <2> HIDE DEF g
  <2> QED BY <1>1, <1>7, SplitStep
<1>10. L \in S
  <2> HIDE DEF S, L
  <2>1. \A n \in 0..L : n \in S
    BY <1>1, <1>8, <1>9, CountingUp
  <2> QED BY <1>1, <2>1
<1>11. SplitInv(ds, L, g[L])
  BY <1>10
<1> QED BY <1>6, <1>11

(* Once something else than a closing comes, no closing follows.           *)
ClosingsLead(s) == \A i, j \in DOMAIN s : i < j /\ IsClose(s[j]) => IsClose(s[i])

LEMMA NoneWhere ==
  ASSUME NEW s, NEW actions, \A i \in DOMAIN s : s[i].action \notin actions
  PROVE  Cardinality(Where(s, actions)) = 0
<1>1. Where(s, actions) = {}
  BY DEF Where
<1> QED BY <1>1, FS_EmptySet

(* The order of execution holds the same decisions, closings first.        *)
LEMMA ExecutionOrder ==
  ASSUME NEW ds \in Seq(Decision)
  PROVE  /\ ClosesFirst(ds) \in Seq(Decision) /\ Len(ClosesFirst(ds)) = Len(ds)
         /\ \A i \in DOMAIN ClosesFirst(ds) : \E j \in DOMAIN ds : ClosesFirst(ds)[i] = ds[j]
         /\ ClosingsLead(ClosesFirst(ds))
         /\ \A actions \in {Closes, Opens} :
              Cardinality(Where(ClosesFirst(ds), actions)) = Cardinality(Where(ds, actions))
<1>1. PICK acc : SplitInv(ds, Len(ds), acc) /\ ClosesFirst(ds) = acc.closeFirst \o acc.openActions
  BY SplitRuns
<1> DEFINE s == acc.closeFirst
           t == acc.openActions
           todo == s \o t
<1>2. /\ s \in Seq(Decision) /\ t \in Seq(Decision)
      /\ DOMAIN s = 1..Len(s) /\ Len(s) \in Nat /\ DOMAIN t = 1..Len(t) /\ Len(t) \in Nat
      /\ DOMAIN ds = 1..Len(ds)
  BY <1>1 DEF SplitInv, Halves
<1>3. /\ \A i \in DOMAIN s : IsClose(s[i]) /\ \E j \in DOMAIN ds : s[i] = ds[j]
      /\ \A i \in DOMAIN t : ~IsClose(t[i]) /\ \E j \in DOMAIN ds : t[i] = ds[j]
      /\ Len(s) + Len(t) = Len(ds)
      /\ Cardinality(Where(s, Closes)) = Cardinality(Upto(ds, Closes, Len(ds)))
      /\ Cardinality(Where(t, Opens)) = Cardinality(Upto(ds, Opens, Len(ds)))
  BY <1>1, <1>2 DEF SplitInv
<1>4. /\ todo \in Seq(Decision) /\ Len(todo) = Len(s) + Len(t)
      /\ DOMAIN todo = 1..Len(s) + Len(t)
      /\ \A i \in 1..Len(s) + Len(t) : todo[i] = IF i <= Len(s) THEN s[i] ELSE t[i - Len(s)]
  <2> HIDE DEF s, t
  <2> QED BY <1>2, ConcatProperties
<1>5. ASSUME NEW i \in DOMAIN todo
      PROVE  \/ i <= Len(s) /\ i \in DOMAIN s /\ todo[i] = s[i]
             \/ ~(i <= Len(s)) /\ i - Len(s) \in DOMAIN t /\ todo[i] = t[i - Len(s)]
  <2> HIDE DEF s, t, todo
  <2> QED BY <1>2, <1>4
<1>6. \A i \in DOMAIN todo : \E j \in DOMAIN ds : todo[i] = ds[j]
  <2> HIDE DEF s, t, todo
  <2> QED BY <1>3, <1>5
<1>7. ClosingsLead(todo)
  <2>1. ASSUME NEW i \in DOMAIN todo, NEW j \in DOMAIN todo, i < j, IsClose(todo[j])
        PROVE  IsClose(todo[i])
    <3> HIDE DEF s, t, todo
    <3>1. j <= Len(s)
      BY <1>3, <1>5, <2>1
    <3>2. i <= Len(s)
      BY <1>2, <1>4, <2>1, <3>1
    <3> QED BY <1>3, <1>5, <3>2
  <2> HIDE DEF todo
  <2> QED BY <2>1 DEF ClosingsLead
<1>8. /\ Cardinality(Where(todo, Closes)) = Cardinality(Where(ds, Closes))
      /\ Cardinality(Where(todo, Opens)) = Cardinality(Where(ds, Opens))
  <2>1. Cardinality(Where(t, Closes)) = 0 /\ Cardinality(Where(s, Opens)) = 0
    <3>1. \A i \in DOMAIN t : t[i].action \notin Closes
      BY <1>3 DEF IsClose
    <3>2. \A i \in DOMAIN s : s[i].action \notin Opens
      BY <1>3 DEF IsClose, Closes, Opens
    <3> HIDE DEF s, t
    <3> QED BY <3>1, <3>2, NoneWhere
  <2>2. \A actions : Cardinality(Where(todo, actions)) =
                       Cardinality(Where(s, actions)) + Cardinality(Where(t, actions))
    <3> HIDE DEF s, t
    <3> QED BY <1>2, WhereConcat
  <2>3. \A actions : /\ Cardinality(Where(s, actions)) \in Nat /\ Cardinality(Where(t, actions)) \in Nat
                     /\ Cardinality(Where(ds, actions)) = Cardinality(Upto(ds, actions, Len(ds)))
    <3> HIDE DEF s, t
    <3> QED BY <1>2, WhereIsUpto
  <2> HIDE DEF s, t, todo
  <2> QED BY <1>3, <2>1, <2>2, <2>3
<1>9. ClosesFirst(ds) = todo
  BY <1>1
<1> HIDE DEF s, t, todo
<1> QED BY <1>3, <1>4, <1>6, <1>7, <1>8, <1>9

(* What the risk filter lets through.                                      *)
LEMMA Filtered ==
  ASSUME NEW rc \in Controls, NEW balance, NEW ds \in Seq(Decision), RowCount \in Nat
  PROVE  LET out == filterByRisk(rc, balance, ds)
         IN  /\ out \in Seq(Decision)
             /\ \A i \in DOMAIN out :
                  /\ \E j \in DOMAIN ds : From(out[i], ds[j])
                  /\ IsOpen(out[i]) => \/ WithinMargin(rc, balance, out[i])
                                       \/ out[i].lev = MaxLev(rc, out[i].symbol)
             /\ Cardinality(Where(out, Closes)) = Cardinality(Where(ds, Closes))
             /\ RowCount + Cardinality(Where(out, Opens)) <= Greater(RowCount, MaxPositions(rc))
<1>1. PICK acc : FilterInv(rc, balance, ds, Len(ds), acc) /\ filterByRisk(rc, balance, ds) = acc.out
  BY FilterRuns
<1>2. Where(ds, Closes) = Upto(ds, Closes, Len(ds)) /\ DOMAIN ds = 1..Len(ds)
  BY WhereIsUpto
<1> QED BY <1>1, <1>2 DEF FilterInv, Tally

-----------------------------------------------------------------------------
(* The rows that are open, of the rows that stand in a book. *)
OpenIn(standing) == UNION {{s} \X (1..standing[s]) : s \in Symbols}

LEMMA InBook ==
  ASSUME NEW standing \in [Symbols -> Nat], NEW x
  PROVE  x \in OpenIn(standing) <=> \E s \in Symbols : \E k \in 1..standing[s] : x = <<s, k>>
BY DEF OpenIn

LEMMA BookIsFinite ==
  ASSUME NEW standing \in [Symbols -> Nat]
  PROVE  /\ IsFiniteSet(OpenIn(standing)) /\ Cardinality(OpenIn(standing)) \in Nat
         /\ \A s \in Symbols : standing[s] <= Cardinality(OpenIn(standing))
<1> DEFINE Of(s) == {s} \X (1..standing[s])
           Pieces == {Of(s) : s \in Symbols}
           f == [s \in Symbols |-> Of(s)]
<1>1. \A s \in Symbols : IsFiniteSet(Of(s)) /\ Cardinality(Of(s)) = standing[s]
  <2> TAKE s \in Symbols
  <2>1. IsFiniteSet({s}) /\ Cardinality({s}) = 1
    BY FS_Singleton
  <2>2. standing[s] \in Nat /\ IsFiniteSet(1..standing[s]) /\ Cardinality(1..standing[s]) = standing[s]
    <3>1. standing[s] \in Nat /\ 1 \in Int /\ standing[s] \in Int
      OBVIOUS
    <3> QED BY <3>1, FS_Interval
  <2>3. IsFiniteSet(Of(s)) /\ Cardinality(Of(s)) = 1 * standing[s]
    <3>1. /\ IsFiniteSet({s} \X (1..standing[s]))
          /\ Cardinality({s} \X (1..standing[s])) = Cardinality({s}) * Cardinality(1..standing[s])
      BY <2>1, <2>2, FS_Product
    <3> QED BY <2>1, <2>2, <3>1
  <2> QED BY <2>2, <2>3
<1>2. IsFiniteSet(Pieces)
  <2>1. f \in Surjection(Symbols, Pieces)
    BY DEF Surjection
  <2> HIDE DEF f, Pieces
  <2> QED BY <2>1, DecisionsAssumption, FS_Surjection
<1>3. IsFiniteSet(UNION Pieces)
  <2>1. \A T \in Pieces : IsFiniteSet(T)
    BY <1>1
  <2> HIDE DEF Pieces
  <2> QED BY <1>2, <2>1, FS_UNION
<1>4. IsFiniteSet(OpenIn(standing)) /\ Cardinality(OpenIn(standing)) \in Nat
  BY <1>3, FS_CardinalityType DEF OpenIn
<1>5. ASSUME NEW s \in Symbols PROVE standing[s] <= Cardinality(OpenIn(standing))
  <2>1. Of(s) \in SUBSET OpenIn(standing)
    BY DEF OpenIn
  <2> HIDE DEF Of
  <2> QED BY <1>1, <1>4, <2>1, FS_Subset
<1> QED BY <1>4, <1>5

(* Opening one row, and closing one.                                       *)
LEMMA OneRow ==
  ASSUME NEW standing \in [Symbols -> Nat], NEW s
  PROVE  /\ LET more == [standing EXCEPT ![s] = @ + 1]
            IN  /\ more \in [Symbols -> Nat]
                /\ Cardinality(OpenIn(more)) <= Cardinality(OpenIn(standing)) + 1
         /\ LET fewer == [standing EXCEPT ![s] = IF @ > 0 THEN @ - 1 ELSE 0]
            IN  /\ fewer \in [Symbols -> Nat]
                /\ \A t \in Symbols : fewer[t] <= standing[t]
                /\ Cardinality(OpenIn(fewer)) <= Cardinality(OpenIn(standing))
<1> DEFINE more == [standing EXCEPT ![s] = @ + 1]
           fewer == [standing EXCEPT ![s] = IF @ > 0 THEN @ - 1 ELSE 0]
           x == <<s, standing[s] + 1>>
<1>0. ASSUME s \notin Symbols PROVE more = standing /\ fewer = standing
  BY <1>0
<1>1. /\ more \in [Symbols -> Nat]
      /\ \A t \in Symbols : more[t] = IF t = s THEN standing[t] + 1 ELSE standing[t]
  <2>1. CASE s \in Symbols
    BY <2>1
  <2>2. CASE s \notin Symbols
    <3> HIDE DEF more
    <3> QED BY <1>0, <2>2
  <2> QED BY <2>1, <2>2
<1>2. /\ fewer \in [Symbols -> Nat]
      /\ \A t \in Symbols : fewer[t] <= standing[t]
  <2>1. CASE s \in Symbols
    BY <2>1
  <2>2. CASE s \notin Symbols
    <3> HIDE DEF fewer
    <3> QED BY <1>0, <2>2
  <2> QED BY <2>1, <2>2
<1>3. OpenIn(more) \subseteq OpenIn(standing) \cup {x}
  <2>1. ASSUME NEW t \in Symbols, NEW k \in 1..more[t]
        PROVE  <<t, k>> = x \/ k \in 1..standing[t]
    <3>1. standing[t] \in Nat /\ more[t] = IF t = s THEN standing[t] + 1 ELSE standing[t]
      BY <1>1
    <3> HIDE DEF more
    <3> QED BY <2>1, <3>1
  <2> HIDE DEF more, x
  <2> QED BY <1>1, <2>1, InBook
<1>4. OpenIn(fewer) \subseteq OpenIn(standing)
  <2>1. ASSUME NEW t \in Symbols, NEW k \in 1..fewer[t] PROVE k \in 1..standing[t]
    <3>1. standing[t] \in Nat /\ fewer[t] \in Nat /\ fewer[t] <= standing[t]
      BY <1>2
    <3> HIDE DEF fewer
    <3> QED BY <2>1, <3>1
  <2> HIDE DEF fewer
  <2> QED BY <1>2, <2>1, InBook
<1>5. /\ IsFiniteSet(OpenIn(standing)) /\ Cardinality(OpenIn(standing)) \in Nat
      /\ Cardinality(OpenIn(more)) \in Nat
  <2> HIDE DEF more
  <2> QED BY <1>1, BookIsFinite
<1>6. Cardinality(OpenIn(more)) <= Cardinality(OpenIn(standing)) + 1
  <2>1. /\ IsFiniteSet(OpenIn(standing) \cup {x})
        /\ Cardinality(OpenIn(standing) \cup {x}) \in Nat
        /\ Cardinality(OpenIn(standing) \cup {x}) <= Cardinality(OpenIn(standing)) + 1
    <3> HIDE DEF x
    <3> QED BY <1>5, FS_AddElement, FS_CardinalityType
  <2>2. Cardinality(OpenIn(more)) <= Cardinality(OpenIn(standing) \cup {x})
    <3> HIDE DEF more, x
    <3> QED BY <1>3, <2>1, FS_Subset
  <2> HIDE DEF more, x
  <2> QED BY <1>5, <2>1, <2>2
<1>7. Cardinality(OpenIn(fewer)) <= Cardinality(OpenIn(standing))
  <2> HIDE DEF fewer
  <2> QED BY <1>4, <1>5, FS_Subset
<1> HIDE DEF more, fewer
<1> QED BY <1>1, <1>2, <1>6, <1>7 DEF more, fewer

-----------------------------------------------------------------------------
(* The types, the market apart: no action here asks what it is.            *)
StoreTyped ==
  /\ risk \in RiskControls
  /\ openRows \in [Symbols -> 0..MaxRows]
  /\ peak \in [first : Nat, top : Nat] /\ peak.first <= peak.top

CycleTyped ==
  /\ cycle \in [pc : {"idle", "account", "guard", "decide", "asking", "filter", "execute"},
                balance : Nat, market : {cycle.market},
                record : [success : BOOLEAN, decisions : Seq(Decision)],
                risk : Controls, todo : Seq(Decision),
                room : Nat, tried : Nat, opened : BOOLEAN]
  /\ cycle.pc \in {"guard", "execute"} => cycle.todo # <<>>
  /\ cycle.pc # "execute" => cycle.tried = 0 /\ ~cycle.opened

(* Before the filter: what is to be judged is what the record tells.       *)
AnswerRecorded ==
  cycle.pc = "filter" /\ cycle.todo # <<>> =>
    cycle.record.success /\ cycle.record.decisions = cycle.todo

(* Why the closings keep their place and the rows their limit: the rest of *)
(* the orders still has its closings first, and room for all its openings. *)
OrdersInPlace ==
  cycle.pc = "execute" =>
    /\ ClosingsLead(cycle.todo)
    /\ RowCount + Cardinality(Where(cycle.todo, Opens)) <= cycle.room

DecisionsInv ==
  /\ StoreTyped
  /\ CycleTyped
  /\ AnswerRecorded
  /\ OrdersInPlace
  /\ RecordTellsOrders /\ ClosesComeFirst /\ MarginUnlessCapped

LEMMA RowsCounted ==
  ASSUME StoreTyped
  PROVE  /\ RowCount = Cardinality(OpenIn(openRows)) /\ RowCount \in Nat
         /\ openRows \in [Symbols -> Nat]
         /\ \A s \in Symbols : openRows[s] <= RowCount
<1>1. openRows \in [Symbols -> Nat]
  BY DecisionsAssumption DEF StoreTyped
<1>2. RowCount = Cardinality(OpenIn(openRows))
  BY DEF RowCount, OpenIn
<1> QED BY <1>1, <1>2, BookIsFinite

(* A row more, where there was room for it.                                *)
LEMMA RowOpens ==
  ASSUME StoreTyped, NEW s, RowCount < MaxRows, openRows' = [openRows EXCEPT ![s] = @ + 1]
  PROVE  openRows' \in [Symbols -> 0..MaxRows] /\ RowCount' <= RowCount + 1 /\ RowCount' \in Nat
<1>1. /\ RowCount = Cardinality(OpenIn(openRows)) /\ RowCount \in Nat
      /\ openRows \in [Symbols -> Nat]
      /\ \A t \in Symbols : openRows[t] <= RowCount
  BY RowsCounted
<1>2. openRows' \in [Symbols -> Nat] /\ Cardinality(OpenIn(openRows')) <= Cardinality(OpenIn(openRows)) + 1
  BY <1>1, OneRow
<1>3. RowCount' = Cardinality(OpenIn(openRows')) /\ RowCount' \in Nat
  BY <1>2, BookIsFinite DEF RowCount, OpenIn
<1>4. ASSUME NEW t \in Symbols PROVE openRows'[t] \in 0..MaxRows
  <2>1. openRows[t] \in Nat /\ openRows[t] < MaxRows /\ MaxRows \in Nat
    BY <1>1, DecisionsAssumption
  <2>2. openRows'[t] = IF t = s THEN openRows[t] + 1 ELSE openRows[t]
    BY <1>1
  <2> QED BY <2>1, <2>2
<1>5. openRows' \in [Symbols -> 0..MaxRows]
  BY <1>2, <1>4
<1> QED BY <1>1, <1>2, <1>3, <1>5

LEMMA RowSettles ==
  ASSUME StoreTyped, NEW s, Settle(s)
  PROVE  openRows' \in [Symbols -> 0..MaxRows] /\ RowCount' <= RowCount /\ RowCount' \in Nat
<1>1. /\ RowCount = Cardinality(OpenIn(openRows)) /\ RowCount \in Nat
      /\ openRows \in [Symbols -> Nat]
  BY RowsCounted
<1>2. /\ openRows' \in [Symbols -> Nat]
      /\ \A t \in Symbols : openRows'[t] <= openRows[t]
      /\ Cardinality(OpenIn(openRows')) <= Cardinality(OpenIn(openRows))
  BY <1>1, OneRow DEF Settle
<1>3. RowCount' = Cardinality(OpenIn(openRows')) /\ RowCount' \in Nat
  BY <1>2, BookIsFinite DEF RowCount, OpenIn
<1>4. ASSUME NEW t \in Symbols PROVE openRows'[t] \in 0..MaxRows
  <2>1. openRows[t] \in 0..MaxRows /\ openRows'[t] \in Nat /\ openRows'[t] <= openRows[t]
    BY <1>2 DEF StoreTyped
  <2> QED BY <2>1, DecisionsAssumption
<1>5. openRows' \in [Symbols -> 0..MaxRows]
  BY <1>2, <1>4
<1> QED BY <1>1, <1>2, <1>3, <1>5

LEMMA RowsStay ==
  ASSUME UNCHANGED openRows
  PROVE  RowCount' = RowCount
BY DEF RowCount

(* A cycle that is over obeys all of it.                                   *)
LEMMA EndsWell ==
  ASSUME EndCycle \/ (cycle = NoCycle /\ UNCHANGED cycle)
  PROVE  /\ CycleTyped' /\ AnswerRecorded' /\ OrdersInPlace'
         /\ RecordTellsOrders' /\ ClosesComeFirst' /\ MarginUnlessCapped'
<1>1. cycle' = NoCycle
  BY DEF EndCycle
<1>2. /\ NoCycle.pc = "idle" /\ NoCycle.balance = 0 /\ NoCycle.todo = <<>> /\ NoCycle.room = 0
      /\ NoCycle.tried = 0 /\ NoCycle.opened = FALSE
      /\ NoCycle.record \in [success : BOOLEAN, decisions : Seq(Decision)]
      /\ NoCycle.risk \in Controls
  BY DecisionsAssumption DEF NoCycle, NoRecord, Controls
<1>3. CycleTyped'
  BY <1>1, <1>2 DEF CycleTyped, NoCycle, NoRecord
<1> QED BY <1>1, <1>2, <1>3
        DEF AnswerRecorded, OrdersInPlace, RecordTellsOrders, ClosesComeFirst, MarginUnlessCapped

LEMMA DecisionsStart == DecisionsInit => DecisionsInv
<1> SUFFICES ASSUME DecisionsInit PROVE DecisionsInv
  OBVIOUS
<1>1. StoreTyped
  BY DecisionsAssumption DEF DecisionsInit, StoreTyped
<1>2. CycleTyped
  BY DecisionsAssumption DEF DecisionsInit, CycleTyped, NoCycle, NoRecord, Controls
<1>3. cycle.pc = "idle"
  BY DEF DecisionsInit, NoCycle
<1> QED BY <1>1, <1>2, <1>3
        DEF DecisionsInv, AnswerRecorded, OrdersInPlace, RecordTellsOrders, ClosesComeFirst,
            MarginUnlessCapped

(* Outside execution only the types and the record are at stake.           *)
LEMMA NotSending ==
  ASSUME StoreTyped', CycleTyped', AnswerRecorded', cycle'.pc # "execute"
  PROVE  DecisionsInv'
BY DEF DecisionsInv, OrdersInPlace, RecordTellsOrders, ClosesComeFirst, MarginUnlessCapped

LEMMA OverAndTyped ==
  ASSUME StoreTyped', EndCycle
  PROVE  DecisionsInv'
BY EndsWell DEF DecisionsInv

LEMMA SnapshotsTyped ==
  ASSUME StoreTyped, NEW equity \in Nat
  PROVE  LET p == Snapshots(equity) IN p \in [first : Nat, top : Nat] /\ p.first <= p.top
BY DEF StoreTyped, Snapshots

LEMMA HeldInOrder ==
  ASSUME NEW listed \in SUBSET Symbols, listed # {}
  PROVE  LET todo == [i \in 1..Cardinality(listed) |->
                        Bare("close_long", SetToSeq(listed)[i])]
         IN  todo \in Seq(Decision) /\ todo # <<>>
<1> DEFINE n == Cardinality(listed)
           todo == [i \in 1..n |-> Bare("close_long", SetToSeq(listed)[i])]
<1>1. IsFiniteSet(listed) /\ n \in Nat /\ n # 0 /\ ExistsBijection(1..n, listed)
  <2>1. IsFiniteSet(listed)
    BY DecisionsAssumption, FS_Subset
  <2> QED BY <2>1, FS_CardinalityType, FS_EmptySet
<1>2. SetToSeq(listed) \in [1..n -> listed]
  <2>1. \E f \in [1..n -> listed] : IsInjective(f)
    BY <1>1 DEF ExistsBijection, Bijection, Injection, IsInjective
  <2> HIDE DEF n
  <2> QED BY <2>1 DEF SetToSeq, n
<1>3. \A i \in 1..n : todo[i] \in Decision
  <2> TAKE i \in 1..n
  <2> HIDE DEF n
  <2>1. SetToSeq(listed)[i] \in Symbols
    BY <1>2
  <2>2. todo[i] = Bare("close_long", SetToSeq(listed)[i])
    OBVIOUS
  <2> HIDE DEF todo
  <2> QED BY <2>1, <2>2 DEF Bare, Decision, Words, ValidActions
<1>4. todo \in Seq(Decision) /\ Len(todo) = n
  <2> HIDE DEF n
  <2> QED BY <1>1, <1>3, IsASeq
<1>5. todo # <<>>
  <2> HIDE DEF n, todo
  <2> QED BY <1>1, <1>4
<1> HIDE DEF n, todo
<1> QED BY <1>4, <1>5 DEF n, todo

LEMMA BeforeTheModel ==
  ASSUME DecisionsInv,
         \/ \E found \in BOOLEAN : BeginCycle(found)
         \/ \E equity \in Equities, listed \in SUBSET Symbols : ReadAccount(equity, listed)
         \/ AccountFails \/ ModelMissing \/ ChatFails
         \/ \E filled \in BOOLEAN : GuardNext(filled)
         \/ \E answers \in [DOMAIN Sources -> Candles] : Ask(answers)
  PROVE  DecisionsInv'
<1> USE DEF DecisionsInv
<1>1. ASSUME NEW found \in BOOLEAN, BeginCycle(found) PROVE DecisionsInv'
  <2>1. StoreTyped'
    BY <1>1 DEF BeginCycle, StoreTyped
  <2>2. CASE found
    <3>1. cycle' = [cycle EXCEPT !.pc = "account"] /\ cycle.pc = "idle"
      BY <1>1, <2>2 DEF BeginCycle, Goto
    <3>2. CycleTyped' /\ cycle'.pc = "account"
      BY <3>1 DEF CycleTyped
    <3> QED BY <2>1, <3>2, NotSending DEF AnswerRecorded
  <2>3. CASE ~found
    BY <1>1, <2>1, <2>3, OverAndTyped DEF BeginCycle
  <2> QED BY <2>2, <2>3
<1>2. ASSUME NEW equity \in Equities, NEW listed \in SUBSET Symbols, ReadAccount(equity, listed)
      PROVE  DecisionsInv'
  <2>1. equity \in Nat
    BY DecisionsAssumption
  <2>2. StoreTyped'
    BY <1>2, <2>1, SnapshotsTyped DEF ReadAccount, StoreTyped
  <2>3. CASE GuardFires(peak', equity) /\ listed # {}
    <3> DEFINE todo == [i \in 1..Cardinality(listed) |->
                          Bare("close_long", SetToSeq(listed)[i])]
    <3>1. /\ cycle' = [cycle EXCEPT !.pc = "guard", !.balance = equity, !.todo = todo]
          /\ cycle.pc = "account"
      BY <1>2, <2>3 DEF ReadAccount
    <3>2. todo \in Seq(Decision) /\ todo # <<>>
      BY <2>3, HeldInOrder
    <3> HIDE DEF todo
    <3>3. CycleTyped' /\ cycle'.pc = "guard"
      BY <2>1, <3>1, <3>2 DEF CycleTyped
    <3> QED BY <2>2, <3>3, NotSending DEF AnswerRecorded
  <2>4. CASE ~(GuardFires(peak', equity) /\ listed # {})
    <3>1. /\ cycle' = [cycle EXCEPT !.pc = "decide", !.balance = equity]
          /\ cycle.pc = "account"
      BY <1>2, <2>4 DEF ReadAccount
    <3>2. CycleTyped' /\ cycle'.pc = "decide"
      BY <2>1, <3>1 DEF CycleTyped
    <3> QED BY <2>2, <3>2, NotSending DEF AnswerRecorded
  <2> QED BY <2>3, <2>4
<1>3. CASE AccountFails \/ ModelMissing \/ ChatFails
  <2>1. StoreTyped' /\ EndCycle
    BY <1>3 DEF AccountFails, ModelMissing, ChatFails, StoreTyped
  <2> QED BY <2>1, OverAndTyped
<1>4. ASSUME NEW filled \in BOOLEAN, GuardNext(filled) PROVE DecisionsInv'
  <2>1. StoreTyped'
    <3>1. CASE filled
      <4>1. Settle(Head(cycle.todo).symbol) /\ UNCHANGED <<risk, peak>>
        BY <1>4, <3>1 DEF GuardNext
      <4>2. openRows' \in [Symbols -> 0..MaxRows]
        BY <4>1, RowSettles
      <4> QED BY <4>1, <4>2 DEF StoreTyped
    <3>2. CASE ~filled
      BY <1>4, <3>2 DEF GuardNext, StoreTyped
    <3> QED BY <3>1, <3>2
  <2>2. CASE Len(cycle.todo) = 1
    BY <1>4, <2>1, <2>2, OverAndTyped DEF GuardNext
  <2>3. CASE Len(cycle.todo) # 1
    <3>1. /\ cycle' = [cycle EXCEPT !.todo = Tail(cycle.todo)] /\ cycle.pc = "guard"
          /\ cycle.todo \in Seq(Decision) /\ cycle.todo # <<>>
      BY <1>4, <2>3 DEF GuardNext, CycleTyped
    <3>2. Tail(cycle.todo) \in Seq(Decision) /\ Tail(cycle.todo) # <<>>
      <4>1. /\ Tail(cycle.todo) \in Seq(Decision) /\ Len(cycle.todo) \in Nat
            /\ Len(Tail(cycle.todo)) = Len(cycle.todo) - 1
        BY <3>1, HeadTailProperties
      <4>2. Len(Tail(cycle.todo)) # 0
        BY <2>3, <4>1
      <4> QED BY <4>1, <4>2, EmptySeq
    <3>3. CycleTyped' /\ cycle'.pc = "guard"
      BY <3>1, <3>2 DEF CycleTyped
    <3> QED BY <2>1, <3>3, NotSending DEF AnswerRecorded
  <2> QED BY <2>2, <2>3
<1>5. ASSUME NEW answers \in [DOMAIN Sources -> Candles], Ask(answers) PROVE DecisionsInv'
  <2>1. StoreTyped'
    BY <1>5 DEF Ask, StoreTyped
  <2>2. /\ cycle' = [cycle EXCEPT !.pc = "asking", !.market = FirstGood(answers)]
        /\ cycle.pc = "decide"
    BY <1>5 DEF Ask
  <2>3. CycleTyped' /\ cycle'.pc = "asking"
    BY <2>2 DEF CycleTyped
  <2> QED BY <2>1, <2>3, NotSending DEF AnswerRecorded
<1> QED BY <1>1, <1>2, <1>3, <1>4, <1>5

LEMMA AnswerIsRead ==
  ASSUME DecisionsInv, NEW answer \in Answers, ChatAnswers(answer)
  PROVE  DecisionsInv'
<1> DEFINE todo == ParseDecision(answer)
           record == IF todo = <<>> THEN [success |-> FALSE, decisions |-> SafeWait]
                     ELSE [success |-> TRUE, decisions |-> todo]
<1>1. todo \in Seq(Decision)
  <2>1. PICK n \in 0..MaxSaid : answer \in [1..n -> Said]
    BY DEF Answers
  <2>2. answer \in [1..n -> Decision] /\ n \in Nat
    BY <2>1, DecisionsAssumption DEF Decision
  <2>3. answer \in Seq(Decision) /\ <<>> \in Seq(Decision)
    BY <2>2, SeqDef
  <2> QED BY <2>3 DEF ParseDecision
<1>2. SafeWait \in Seq(Decision)
  BY DEF SafeWait, Bare, Decision, Words, ValidActions
<1>3. record \in [success : BOOLEAN, decisions : Seq(Decision)]
  <2> HIDE DEF todo
  <2> QED BY <1>1, <1>2
<1>4. todo # <<>> => record.success /\ record.decisions = todo
  <2> HIDE DEF todo
  <2> QED OBVIOUS
<1>5. /\ cycle' = [cycle EXCEPT !.pc = "filter", !.market = {}, !.todo = todo, !.record = record]
      /\ cycle.pc = "asking"
  BY DEF ChatAnswers
<1>6. StoreTyped'
  BY DEF ChatAnswers, DecisionsInv, StoreTyped
<1> HIDE DEF todo, record
<1>7. CycleTyped' /\ cycle'.pc = "filter" /\ cycle'.todo = todo /\ cycle'.record = record
  BY <1>1, <1>3, <1>5 DEF DecisionsInv, CycleTyped
<1>8. AnswerRecorded'
  BY <1>4, <1>7 DEF AnswerRecorded
<1> QED BY <1>6, <1>7, <1>8, NotSending

LEMMA FilterKeeps ==
  ASSUME DecisionsInv, Filter
  PROVE  DecisionsInv'
<1> DEFINE ds == cycle.todo
           rc == strategyConfig(risk)
           out == filterByRisk(rc, cycle.balance, ds)
           todo == ClosesFirst(out)
           room == Greater(RowCount, MaxPositions(rc))
<1>1. /\ StoreTyped' /\ UNCHANGED openRows /\ cycle.pc = "filter" /\ rc \in Controls
      /\ ds \in Seq(Decision) /\ RowCount \in Nat /\ RowCount' = RowCount
  BY RowsCounted, RowsStay, InForce DEF Filter, DecisionsInv, StoreTyped, CycleTyped
<1>2. /\ out \in Seq(Decision)
      /\ \A i \in DOMAIN out :
           /\ \E j \in DOMAIN ds : From(out[i], ds[j])
           /\ IsOpen(out[i]) => \/ WithinMargin(rc, cycle.balance, out[i])
                                \/ out[i].lev = MaxLev(rc, out[i].symbol)
      /\ Cardinality(Where(out, Closes)) = Cardinality(Where(ds, Closes))
      /\ RowCount + Cardinality(Where(out, Opens)) <= room
  <2> HIDE DEF ds, rc
  <2> QED BY <1>1, Filtered
<1> HIDE DEF ds, rc, out, room
<1>3. CASE out = <<>>
  BY <1>1, <1>3, OverAndTyped DEF Filter, rc, out, ds
<1>4. CASE out # <<>>
  <2>1. /\ todo \in Seq(Decision) /\ Len(todo) = Len(out)
        /\ \A i \in DOMAIN todo : \E j \in DOMAIN out : todo[i] = out[j]
        /\ ClosingsLead(todo)
        /\ Cardinality(Where(todo, Closes)) = Cardinality(Where(out, Closes))
        /\ Cardinality(Where(todo, Opens)) = Cardinality(Where(out, Opens))
    BY <1>2, ExecutionOrder
  <2> HIDE DEF todo
  <2>2. todo # <<>> /\ ds # <<>>
    <3>1. Len(out) # 0 /\ todo # <<>>
      BY <1>2, <1>4, <2>1, EmptySeq
    <3>2. 1 \in DOMAIN out
      BY <1>2, <3>1
    <3>3. \E j \in DOMAIN ds : From(out[1], ds[j])
      BY <1>2, <3>2
    <3> QED BY <3>1, <3>3
  <2>3. cycle' = [cycle EXCEPT !.pc = "execute", !.risk = rc, !.todo = todo, !.room = room]
    BY <1>4 DEF Filter, rc, out, ds, todo, room
  <2>4. room \in Nat
    <3>1. MaxPositions(rc) \in Nat
      BY <1>1, LimitsAreNumbers
    <3> QED BY <1>1, <3>1 DEF room, Greater
  <2>5. /\ CycleTyped' /\ cycle'.pc = "execute" /\ cycle'.todo = todo /\ cycle'.room = room
        /\ cycle'.risk = rc /\ cycle'.balance = cycle.balance /\ cycle'.record = cycle.record
        /\ cycle'.tried = 0 /\ cycle'.opened = FALSE
    BY <1>1, <2>1, <2>2, <2>3, <2>4 DEF DecisionsInv, CycleTyped
  <2>6. cycle.record.success /\ cycle.record.decisions = ds
    BY <1>1, <2>2 DEF DecisionsInv, AnswerRecorded, ds
  <2>7. RecordTellsOrders'
    <3>1. \A i \in DOMAIN todo : \E j \in DOMAIN ds : From(todo[i], ds[j])
      BY <1>2, <2>1
    <3>2. Cardinality(Closings(ds)) = 0 + Cardinality(Closings(todo))
      BY <1>1, <1>2, <2>1, WhereIsUpto DEF Closings
    <3> QED BY <2>5, <2>6, <3>1, <3>2 DEF RecordTellsOrders
  <2>8. ClosesComeFirst'
    BY <2>5 DEF ClosesComeFirst
  <2>9. MarginUnlessCapped'
    BY <1>2, <2>1, <2>5 DEF MarginUnlessCapped
  <2>10. OrdersInPlace'
    BY <1>1, <1>2, <2>1, <2>5 DEF OrdersInPlace
  <2>11. AnswerRecorded'
    BY <2>5 DEF AnswerRecorded
  <2> QED BY <1>1, <2>5, <2>7, <2>8, <2>9, <2>10, <2>11 DEF DecisionsInv
<1> QED BY <1>3, <1>4

LEMMA ExecuteRows ==
  ASSUME DecisionsInv, NEW filled \in BOOLEAN, ExecuteNext(filled)
  PROVE  /\ StoreTyped' /\ RowCount \in Nat /\ RowCount' \in Nat
         /\ RowCount' <= RowCount + (IF IsOpen(Head(cycle.todo)) THEN 1 ELSE 0)
<1> DEFINE d == Head(cycle.todo)
<1>1. /\ StoreTyped /\ RowCount \in Nat /\ UNCHANGED <<risk, peak>>
      /\ openRows \in [Symbols -> 0..MaxRows]
  BY RowsCounted DEF DecisionsInv, ExecuteNext, StoreTyped
<1>2. \/ IsOpen(d) /\ RowCount < MaxRows /\ openRows' = [openRows EXCEPT ![d.symbol] = @ + 1]
      \/ Settle(d.symbol)
      \/ UNCHANGED openRows
  BY DEF ExecuteNext
<1>3. /\ openRows' \in [Symbols -> 0..MaxRows] /\ RowCount' \in Nat
      /\ RowCount' <= RowCount + (IF IsOpen(d) THEN 1 ELSE 0)
  <2> HIDE DEF d
  <2>1. CASE IsOpen(d) /\ RowCount < MaxRows /\ openRows' = [openRows EXCEPT ![d.symbol] = @ + 1]
    BY <1>1, <2>1, RowOpens
  <2>2. CASE Settle(d.symbol)
    BY <1>1, <2>2, RowSettles
  <2>3. CASE UNCHANGED openRows
    BY <1>1, <2>3, RowsStay
  <2> QED BY <1>2, <2>1, <2>2, <2>3
<1> QED BY <1>1, <1>3 DEF StoreTyped

LEMMA ExecuteKeeps ==
  ASSUME DecisionsInv, NEW filled \in BOOLEAN, ExecuteNext(filled)
  PROVE  DecisionsInv'
<1> DEFINE d == Head(cycle.todo)
           s == cycle.todo
           t == Tail(s)
<1>1. /\ StoreTyped' /\ RowCount \in Nat /\ RowCount' \in Nat
      /\ RowCount' <= RowCount + (IF IsOpen(d) THEN 1 ELSE 0)
  BY ExecuteRows
<1>2. CASE Len(s) = 1
  BY <1>1, <1>2, OverAndTyped DEF ExecuteNext
<1>3. CASE Len(s) # 1
  <2>1. /\ cycle.pc = "execute" /\ s \in Seq(Decision) /\ s # <<>>
        /\ cycle' = [cycle EXCEPT !.todo = t,
                        !.tried = @ + (IF IsClose(d) THEN 1 ELSE 0),
                        !.opened = @ \/ IsOpen(d)]
    BY <1>3 DEF DecisionsInv, CycleTyped, ExecuteNext
  <2>2. /\ t \in Seq(Decision) /\ t # <<>> /\ d = s[1] /\ Len(s) \in Nat
        /\ Len(t) = Len(s) - 1 /\ DOMAIN t = 1..Len(t) /\ DOMAIN s = 1..Len(s)
        /\ \A i \in 1..Len(t) : t[i] = s[i+1]
    <3>1. /\ t \in Seq(Decision) /\ d = s[1] /\ Len(s) \in Nat
          /\ Len(t) = Len(s) - 1 /\ DOMAIN t = 1..Len(t) /\ DOMAIN s = 1..Len(s)
          /\ \A i \in 1..Len(t) : t[i] = s[i+1]
      BY <2>1, HeadTailProperties
    <3>2. Len(t) # 0
      <4> HIDE DEF t, s
      <4> QED BY <1>3, <3>1
    <3> HIDE DEF t, s
    <3> QED BY <3>1, <3>2, EmptySeq
  <2>3. \A i \in DOMAIN t : i + 1 \in DOMAIN s /\ t[i] = s[i+1] /\ 1 < i + 1 /\ 1 \in DOMAIN s
    <3> HIDE DEF t, s
    <3> QED BY <2>2
  <2>4. \A actions : /\ Cardinality(Where(s, actions)) =
                          Cardinality(Where(t, actions)) + (IF d.action \in actions THEN 1 ELSE 0)
                     /\ Cardinality(Where(t, actions)) \in Nat
    <3>1. \A actions : Cardinality(Where(s, actions)) =
                          Cardinality(Where(t, actions)) + (IF d.action \in actions THEN 1 ELSE 0)
      BY <2>1, WhereTail
    <3>2. \A actions : Cardinality(Where(t, actions)) \in Nat
      <4> HIDE DEF t
      <4> QED BY <2>2, WhereIsUpto
    <3> QED BY <3>1, <3>2
  <2>5. /\ CycleTyped' /\ cycle'.pc = "execute" /\ cycle'.todo = t
        /\ cycle'.room = cycle.room /\ cycle'.risk = cycle.risk
        /\ cycle'.balance = cycle.balance /\ cycle'.record = cycle.record
        /\ cycle'.tried = cycle.tried + (IF IsClose(d) THEN 1 ELSE 0)
        /\ cycle'.opened = (cycle.opened \/ IsOpen(d))
        /\ cycle.tried \in Nat /\ cycle.room \in Nat
    <3> DEFINE tried == cycle.tried + (IF IsClose(d) THEN 1 ELSE 0)
               opened == cycle.opened \/ IsOpen(d)
    <3>1. cycle.tried \in Nat /\ cycle.room \in Nat /\ tried \in Nat /\ opened \in BOOLEAN
      BY DEF DecisionsInv, CycleTyped
    <3>2. cycle' = [cycle EXCEPT !.todo = t, !.tried = tried, !.opened = opened]
      BY <2>1
    <3> HIDE DEF t, d, tried, opened
    <3>3. CycleTyped' /\ cycle' = [cycle EXCEPT !.todo = t, !.tried = tried, !.opened = opened]
      BY <2>1, <2>2, <3>1, <3>2 DEF DecisionsInv, CycleTyped
    <3>4. /\ cycle'.pc = "execute" /\ cycle'.todo = t /\ cycle'.room = cycle.room
          /\ cycle'.risk = cycle.risk /\ cycle'.balance = cycle.balance
          /\ cycle'.record = cycle.record /\ cycle'.tried = tried /\ cycle'.opened = opened
      BY <2>1, <3>2 DEF DecisionsInv, CycleTyped
    <3> QED BY <3>1, <3>3, <3>4 DEF tried, opened
  <2> HIDE DEF d, s, t
  <2>6. /\ cycle.record.success
        /\ \A i \in DOMAIN s : \E j \in DOMAIN cycle.record.decisions : From(s[i], cycle.record.decisions[j])
        /\ Cardinality(Closings(cycle.record.decisions)) = cycle.tried + Cardinality(Closings(s))
        /\ cycle.opened => Closings(s) = {}
        /\ \A i \in DOMAIN s : IsOpen(s[i]) => \/ WithinMargin(cycle.risk, cycle.balance, s[i])
                                               \/ s[i].lev = MaxLev(cycle.risk, s[i].symbol)
        /\ ClosingsLead(s)
        /\ RowCount + Cardinality(Where(s, Opens)) <= cycle.room
    BY <2>1 DEF DecisionsInv, RecordTellsOrders, ClosesComeFirst, MarginUnlessCapped, OrdersInPlace, s
  <2>7. RecordTellsOrders'
    <3>1. \A i \in DOMAIN t : \E j \in DOMAIN cycle.record.decisions : From(t[i], cycle.record.decisions[j])
      BY <2>3, <2>6
    <3>2. Cardinality(Closings(cycle.record.decisions)) =
            (cycle.tried + (IF IsClose(d) THEN 1 ELSE 0)) + Cardinality(Closings(t))
      BY <2>4, <2>5, <2>6 DEF Closings, IsClose
    <3> QED BY <2>5, <2>6, <3>1, <3>2 DEF RecordTellsOrders
  <2>8. ClosesComeFirst'
    <3>1. ASSUME cycle.opened \/ IsOpen(d), NEW i \in DOMAIN t PROVE ~IsClose(t[i])
      <4>1. CASE cycle.opened
        BY <2>3, <2>6, <4>1 DEF Closings, Where, IsClose
      <4>2. CASE IsOpen(d)
        <5>1. ~IsClose(s[1])
          BY <2>2, <4>2 DEF IsOpen, IsClose, Opens, Closes
        <5> QED BY <2>3, <2>6, <5>1 DEF ClosingsLead
      <4> QED BY <3>1, <4>1, <4>2
    <3>2. cycle.opened \/ IsOpen(d) => Closings(t) = {}
      BY <3>1 DEF Closings, Where, IsClose
    <3> QED BY <2>5, <3>2 DEF ClosesComeFirst
  <2>9. MarginUnlessCapped'
    BY <2>3, <2>5, <2>6 DEF MarginUnlessCapped
  <2>10. OrdersInPlace'
    <3>1. ClosingsLead(t)
      <4>1. ASSUME NEW i \in DOMAIN t, NEW j \in DOMAIN t, i < j, IsClose(t[j]) PROVE IsClose(t[i])
        <5>1. i + 1 \in DOMAIN s /\ j + 1 \in DOMAIN s /\ i + 1 < j + 1
          BY <2>2, <2>3, <4>1
        <5> QED BY <2>3, <2>6, <4>1, <5>1 DEF ClosingsLead
      <4> QED BY <4>1 DEF ClosingsLead
    <3>2. RowCount' + Cardinality(Where(t, Opens)) <= cycle.room
      BY <1>1, <2>4, <2>5, <2>6 DEF IsOpen
    <3> QED BY <2>5, <3>1, <3>2 DEF OrdersInPlace
  <2>11. AnswerRecorded'
    BY <2>5 DEF AnswerRecorded
  <2> QED BY <1>1, <2>5, <2>7, <2>8, <2>9, <2>10, <2>11 DEF DecisionsInv
<1> QED BY <1>2, <1>3

(* The others move the rows and the strategy, not the cycle's orders.      *)
LEMMA OthersKeep ==
  ASSUME DecisionsInv,
         \/ \E s \in Symbols : OtherOpens(s) \/ OtherCloses(s)
         \/ \E rc \in RiskControls : EditStrategy(rc)
         \/ UNCHANGED decisionVars
  PROVE  DecisionsInv'
<1>1. ASSUME NEW s \in Symbols, OtherOpens(s) PROVE DecisionsInv'
  <2>1. /\ openRows' \in [Symbols -> 0..MaxRows] /\ RowCount' \in Nat /\ RowCount \in Nat
        /\ RowCount' <= RowCount + 1
    BY <1>1, RowOpens, RowsCounted DEF OtherOpens, DecisionsInv
  <2>2. StoreTyped'
    BY <1>1, <2>1 DEF OtherOpens, DecisionsInv, StoreTyped
  <2> DEFINE room == IF cycle.pc = "execute" THEN cycle.room + 1 ELSE cycle.room
  <2>3. cycle.room \in Nat /\ room \in Nat
    BY DEF DecisionsInv, CycleTyped
  <2>4. cycle' = [cycle EXCEPT !.room = room]
    BY <1>1 DEF OtherOpens
  <2>5. CycleTyped'
    <3> HIDE DEF room
    <3> QED BY <2>3, <2>4 DEF DecisionsInv, CycleTyped
  <2>6. /\ cycle'.pc = cycle.pc /\ cycle'.todo = cycle.todo /\ cycle'.room = room
        /\ cycle'.risk = cycle.risk /\ cycle'.balance = cycle.balance
        /\ cycle'.record = cycle.record /\ cycle'.tried = cycle.tried
        /\ cycle'.opened = cycle.opened
    <3> HIDE DEF room
    <3> QED BY <2>4 DEF DecisionsInv, CycleTyped
  <2>7. OrdersInPlace'
    <3>1. cycle.pc = "execute" => Cardinality(Where(cycle.todo, Opens)) \in Nat
      BY WhereIsUpto DEF DecisionsInv, CycleTyped
    <3> QED BY <2>1, <2>3, <2>6, <3>1 DEF DecisionsInv, OrdersInPlace
  <2> HIDE DEF room
  <2> QED BY <2>2, <2>5, <2>6, <2>7
          DEF DecisionsInv, AnswerRecorded, RecordTellsOrders, ClosesComeFirst, MarginUnlessCapped
<1>2. ASSUME UNCHANGED cycle, StoreTyped', RowCount' \in Nat, RowCount \in Nat, RowCount' <= RowCount
      PROVE  DecisionsInv'
  <2>1. OrdersInPlace'
    <3>1. /\ cycle.pc = "execute" => Cardinality(Where(cycle.todo, Opens)) \in Nat
          /\ cycle.room \in Nat
      BY WhereIsUpto DEF DecisionsInv, CycleTyped
    <3> QED BY <1>2, <3>1 DEF DecisionsInv, OrdersInPlace
  <2> QED BY <1>2, <2>1
          DEF DecisionsInv, CycleTyped, AnswerRecorded, RecordTellsOrders, ClosesComeFirst,
              MarginUnlessCapped
<1>3. ASSUME NEW s \in Symbols, OtherCloses(s) PROVE DecisionsInv'
  <2>1. /\ openRows' \in [Symbols -> 0..MaxRows] /\ RowCount' \in Nat /\ RowCount \in Nat
        /\ RowCount' <= RowCount
    BY <1>3, RowSettles, RowsCounted DEF OtherCloses, DecisionsInv
  <2>2. StoreTyped'
    BY <1>3, <2>1 DEF OtherCloses, DecisionsInv, StoreTyped
  <2> QED BY <1>2, <1>3, <2>1, <2>2 DEF OtherCloses
<1>4. ASSUME UNCHANGED <<openRows, peak, cycle>>, risk' \in RiskControls PROVE DecisionsInv'
  <2>1. StoreTyped' /\ RowCount' = RowCount /\ RowCount \in Nat
    BY <1>4, RowsStay, RowsCounted DEF DecisionsInv, StoreTyped
  <2> QED BY <1>2, <1>4, <2>1
<1>5. ASSUME NEW rc \in RiskControls, EditStrategy(rc) PROVE DecisionsInv'
  BY <1>4, <1>5 DEF EditStrategy
<1>6. CASE UNCHANGED decisionVars
  BY <1>4, <1>6 DEF decisionVars, DecisionsInv, StoreTyped
<1> QED BY <1>1, <1>3, <1>5, <1>6

LEMMA DecisionsStep == DecisionsInv /\ [DecisionsNext]_decisionVars => DecisionsInv'
<1> SUFFICES ASSUME DecisionsInv, [DecisionsNext]_decisionVars PROVE DecisionsInv'
  OBVIOUS
<1>1. CASE Stopped
  <2>1. StoreTyped' /\ EndCycle
    BY <1>1 DEF Stopped, DecisionsInv, StoreTyped
  <2> QED BY <2>1, OverAndTyped
<1>2. ASSUME NEW filled \in BOOLEAN, GuardNext(filled) \/ ExecuteNext(filled) PROVE DecisionsInv'
  BY <1>2, BeforeTheModel, ExecuteKeeps
<1> QED BY <1>1, <1>2, BeforeTheModel, AnswerIsRead, FilterKeeps, OthersKeep DEF DecisionsNext

(* A step that is taken while orders are sent keeps to the rows it may     *)
(* leave.                                                                  *)
LEMMA LimitStep ==
  ASSUME DecisionsInv, [DecisionsNext]_decisionVars, cycle.pc = "execute"
  PROVE  RowCount' <= Greater(cycle.room, cycle'.room)
<1>1. /\ StoreTyped /\ RowCount \in Nat
      /\ cycle.todo \in Seq(Decision) /\ cycle.todo # <<>> /\ cycle.room \in Nat
  BY RowsCounted DEF DecisionsInv, CycleTyped
<1>2. /\ RowCount + Cardinality(Where(cycle.todo, Opens)) <= cycle.room
      /\ Cardinality(Where(cycle.todo, Opens)) \in Nat
      /\ IsOpen(Head(cycle.todo)) => Cardinality(Where(cycle.todo, Opens)) > 0
  <2>1. Tail(cycle.todo) \in Seq(Decision)
    BY <1>1, HeadTailProperties
  <2>2. Cardinality(Where(Tail(cycle.todo), Opens)) \in Nat
    BY <2>1, WhereIsUpto
  <2>3. Cardinality(Where(cycle.todo, Opens)) =
          Cardinality(Where(Tail(cycle.todo), Opens))
          + (IF Head(cycle.todo).action \in Opens THEN 1 ELSE 0)
    BY <1>1, WhereTail
  <2> QED BY <2>2, <2>3 DEF DecisionsInv, OrdersInPlace, IsOpen
<1>3. cycle'.room \in Nat
  BY DecisionsStep DEF DecisionsInv, CycleTyped
<1>4. /\ RowCount' \in Nat
      /\ RowCount' <= cycle.room \/ RowCount' <= cycle'.room
  <2>1. ASSUME NEW filled \in BOOLEAN, ExecuteNext(filled) PROVE RowCount' \in Nat /\ RowCount' <= cycle.room
    BY <1>1, <1>2, <2>1, ExecuteRows
  <2>2. ASSUME NEW s \in Symbols, OtherOpens(s) PROVE RowCount' \in Nat /\ RowCount' <= cycle'.room
    <3>1. RowCount' \in Nat /\ RowCount' <= RowCount + 1
      BY <1>1, <2>2, RowOpens DEF OtherOpens
    <3>2. cycle'.room = cycle.room + 1
      BY <2>2 DEF OtherOpens, DecisionsInv, CycleTyped
    <3> QED BY <1>1, <1>2, <3>1, <3>2
  <2>3. ASSUME NEW s \in Symbols, OtherCloses(s) PROVE RowCount' \in Nat /\ RowCount' <= cycle.room
    BY <1>1, <1>2, <2>3, RowSettles DEF OtherCloses
  <2>4. ASSUME UNCHANGED openRows PROVE RowCount' \in Nat /\ RowCount' <= cycle.room
    BY <1>1, <1>2, <2>4, RowsStay
  <2>5. ASSUME NEW filled \in BOOLEAN, GuardNext(filled) PROVE FALSE
    BY <2>5 DEF GuardNext
  <2>6. CASE UNCHANGED decisionVars
    BY <2>4, <2>6 DEF decisionVars
  <2> QED BY <2>1, <2>2, <2>3, <2>4, <2>5, <2>6
          DEF DecisionsNext, BeginCycle, ReadAccount, AccountFails, ModelMissing, Ask, ChatFails,
              ChatAnswers, Filter, Stopped, EditStrategy
<1> QED BY <1>1, <1>3, <1>4 DEF Greater

LEMMA DecisionsInvariant == DecisionsSpec => []DecisionsInv
<1> QED BY DecisionsStart, DecisionsStep, PTL DEF DecisionsSpec

(* What a cycle opens keeps to the limit of rows it was filtered by; its   *)
(* orders are of the answer on record, closings first and each of them     *)
(* tried; and an order's margin is within the limit unless its leverage    *)
(* was lowered.                                                            *)
THEOREM CyclesObeyTheirRules == DecisionsSpec => OrdersFollowRules
<1>1. DecisionsInv => RecordTellsOrders /\ ClosesComeFirst /\ MarginUnlessCapped
  BY DEF DecisionsInv
<1>2. DecisionsInv /\ [DecisionsNext]_decisionVars
        => [cycle.pc = "execute" => RowCount' <= Greater(cycle.room, cycle'.room)]_decisionVars
  BY LimitStep
<1> QED BY <1>1, <1>2, DecisionsInvariant, PTL DEF DecisionsSpec, OrdersFollowRules, OpensWithinLimit

(* Its state keeps its types.                                              *)
THEOREM DecisionsKeepTypes == DecisionsSpec => []DecisionsTypeOK
<1>1. DecisionsInv => DecisionsTypeOK
  BY DEF DecisionsInv, StoreTyped, CycleTyped, DecisionsTypeOK
<1> QED BY <1>1, DecisionsInvariant, PTL

-----------------------------------------------------------------------------
(* What the API keeps, side by side                                        *)

ApiInv ==
  /\ DecisionsInv /\ StrategiesTyped /\ ModelsInv /\ BindingInv /\ AccountsInv
  /\ UsersInv /\ TabInv /\ ListInv /\ WalkBounded /\ GateInv /\ SignedInv

(* A part takes its own steps or rests. *)
LEMMA PartsStep ==
  ASSUME [Next]_apiVars
  PROVE  /\ [DecisionsNext]_decisionVars /\ [StrategiesNext]_strategyVars
         /\ [ModelsNext]_modelVars /\ [BindingNext]_bindingVars
         /\ [AccountsNext]_accountVars /\ [UsersNext]_userVars
         /\ [SessionsNext]_sessionVars /\ [ListingsNext]_listingVars
         /\ [GateNext]_gateVars /\ [SignedNext]_signedVars
<1>1. CASE Next
  BY <1>1 DEF Next
<1>2. CASE UNCHANGED apiVars
  BY <1>2 DEF apiVars
<1> QED BY <1>1, <1>2

LEMMA ApiBegins == Init => ApiInv
<1> SUFFICES ASSUME Init PROVE ApiInv
  OBVIOUS
<1>1. /\ DecisionsInit /\ StrategiesInit /\ ModelsInit /\ BindingInit /\ AccountsInit
      /\ UsersInit /\ SessionsInit /\ ListingsInit /\ GateInit /\ SignedInit
  BY DEF Init
<1> QED
  BY <1>1, DecisionsStart, TypesBegin, ModelsBegin, BindingBegins, AccountsBegin, UsersBegin,
     TabBegins, ListBegins, BoundsBegin, GateBegins,
     SignedBegins DEF ApiInv

LEMMA ApiKept == ApiInv /\ [Next]_apiVars => ApiInv'
<1> SUFFICES ASSUME ApiInv, [Next]_apiVars PROVE ApiInv'
  OBVIOUS
<1>1. ListInv' /\ WalkBounded'
  BY PartsStep, ListInvKept, BoundsKept DEF ApiInv, ListInv
<1> QED
  BY <1>1, PartsStep, DecisionsStep, TypesKept, ModelsKept, BindingKept, AccountsKept, UsersKept,
     TabKept, GateKept, SignedKept DEF ApiInv

(* The decisions of a cycle, the strategies, the model configurations, the *)
(* Telegram binding, the exchange accounts, the users, a tab's login, the  *)
(* lists, the gate and the signatures keep their types, for any sizes of   *)
(* each.                                                                   *)
THEOREM ApiKeepsTypes == Spec => []TypesOK
<1>1. ApiInv => TypesOK
  <2>1. ApiInv => DecisionsTypeOK
    BY DEF ApiInv, DecisionsInv, StoreTyped, CycleTyped, DecisionsTypeOK
  <2>2. ApiInv => ListingsTypeOK /\ GateTypeOK
    BY ListTypes, GateTypes DEF ApiInv
  <2> QED
    BY <2>1, <2>2
    DEF ApiInv, StrategiesTyped, ModelsInv, BindingInv, AccountsInv, UsersInv, TabInv, SignedInv,
        TypesOK
<1> QED BY <1>1, ApiBegins, ApiKept, PTL DEF Spec
================================================================================
