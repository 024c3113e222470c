--------------------------- MODULE ExchangeAccounts ---------------------------
(***************************************************************************)
(* The exchange accounts of one user and how the trading engine picks one: *)
(* ExchangeService, CredentialsResolver and store/exchange_store.go.       *)
(*                                                                         *)
(* Update copies a row, checks it and writes the whole row back; requests  *)
(* overlap.  Ids are numbered in the order of creation.  Private fields    *)
(* are encrypted one by one under the server's RSA key, which a restart    *)
(* without RSA_PRIVATE_KEY replaces.                                       *)
(***************************************************************************)
EXTENDS Naturals

CONSTANTS
  MaxAccounts,    \* bound on the accounts ever created
  AccountClients, \* requests that may be under way at once
  AccountTypes,   \* exchange types in use
  AccountFields,  \* credential fields in use
  GivenFields,    \* the sets of fields a request may give
  AccountTraders, \* traders that run
  NoAccount,      \* nothing resolved
  MaxNewKeys      \* bound on the restarts that replace the RSA key

(* Central exchanges, and those of them that want a passphrase. *)
cexTypes == {"binance", "bybit", "okx", "bitget", "gate", "kucoin", "indodax"}
passphraseTypes == {"okx", "kucoin"}
ValidExchangeTypes == cexTypes \cup {"hyperliquid", "aster", "lighter"}

Private == {"api_key", "secret_key", "passphrase", "aster_private_key",
            "lighter_private_key", "lighter_api_key", "hyperliquid_private_key"}
Public == {"hyperliquid_wallet", "aster_user", "aster_signer", "lighter_wallet"}

ASSUME AccountsAssumption ==
  /\ MaxAccounts \in Nat
  /\ MaxNewKeys \in Nat
  /\ AccountTypes \subseteq ValidExchangeTypes /\ AccountTypes # {}
  /\ AccountFields \subseteq Private \cup Public
  /\ GivenFields \subseteq SUBSET AccountFields
  /\ NoAccount \notin Nat

VARIABLES
  accounts,   \* ids that have a row
  account,    \* the row of an account
  created,    \* accounts created so far
  edit,       \* what each client's request is doing
  rsa,        \* which RSA key the process has
  exchangeOf, \* the exchange type each trader is set to
  using       \* the account each trader last resolved

accountVars == <<accounts, account, created, edit, rsa, exchangeOf, using>>

Ids == 1..MaxAccounts

(* A field is absent, or holds a value and the RSA key it is sealed with. *)
Absent == MaxNewKeys + 1
Fields == [AccountFields -> 0..Absent]
Rows == [type : AccountTypes, enabled : BOOLEAN, fields : Fields]
NoEdit == [pc |-> "idle"]

Blank == [type |-> CHOOSE type \in AccountTypes : TRUE, enabled |-> FALSE,
          fields |-> [f \in AccountFields |-> Absent]]

AccountsInit ==
  /\ accounts = {}
  /\ account = [i \in Ids |-> Blank]
  /\ created = 0
  /\ edit = [c \in AccountClients |-> NoEdit]
  /\ rsa = 0
  /\ exchangeOf \in [AccountTraders -> AccountTypes]
  /\ using = [t \in AccountTraders |-> NoAccount]

-----------------------------------------------------------------------------
(* validateRequired: the fields an account of a type must have. *)
Required(type) ==
  CASE type \in passphraseTypes -> {"api_key", "secret_key", "passphrase"}
    [] type \in cexTypes \ passphraseTypes -> {"api_key", "secret_key"}
    [] type = "hyperliquid" -> {"hyperliquid_wallet"}
    [] type = "aster" -> {"aster_user", "aster_signer", "aster_private_key"}
    [] type = "lighter" -> {"lighter_wallet", "lighter_private_key", "lighter_api_key"}

Present(r) == {f \in AccountFields : r.fields[f] # Absent}

(* The RSA key that a field given now is sealed with. *)
SealedNow(f) == IF f \in Private THEN rsa ELSE 0

(* applyCredentials of a request that gives the fields in given. *)
applyCredentials(given) ==
  [f \in AccountFields |-> IF f \in given THEN SealedNow(f) ELSE Absent]

(* Create: the fields the type requires are in the request. *)
AccountCreate ==
  /\ created < MaxAccounts
  /\ \E type \in AccountTypes, given \in GivenFields, on \in BOOLEAN :
       /\ Required(type) \subseteq given
       /\ account' = [account EXCEPT ![created + 1] =
            [type |-> type, enabled |-> on, fields |-> applyCredentials(given)]]
  /\ created' = created + 1
  /\ accounts' = accounts \cup {created + 1}
  /\ UNCHANGED <<edit, rsa, exchangeOf, using>>

(* applyCredentialsUpdate: a private field is sealed anew if the request   *)
(* gives one; a public field may also be emptied.                          *)
applyCredentialsUpdate(fields, given, emptied) ==
  [f \in AccountFields |->
     IF f \in given THEN SealedNow(f)
     ELSE IF f \in emptied \cap Public THEN Absent ELSE fields[f]]

(* Mutant: the type the account had is checked, not the one it gets. *)
ChecksOldType(copy, type) == Required(copy.type) \subseteq Present(copy)

(* mergeExchangeFields and validateRequired: the fields of the row as it   *)
(* was read, under the type of the request.                                *)
Complete(copy, type) == Required(type) \subseteq Present(copy)

(* Update, first half: the row is read. *)
AccountUpdateReads(c) ==
  /\ edit[c] = NoEdit
  /\ \E i \in accounts : edit' = [edit EXCEPT ![c] =
       [pc |-> "update", id |-> i, copy |-> account[i]]]
  /\ UNCHANGED <<accounts, account, created, rsa, exchangeOf, using>>

(* Update, second half: checked and written, or refused. *)
AccountUpdateSaves(c) ==
  /\ edit[c].pc = "update"
  /\ \E type \in AccountTypes, on \in BOOLEAN,
        given \in GivenFields, emptied \in SUBSET (AccountFields \cap Public) :
       LET r == edit[c] IN
       IF Complete(r.copy, type)
       THEN /\ accounts' = accounts \cup {r.id}
            /\ account' = [account EXCEPT ![r.id] =
                 [type |-> type, enabled |-> on,
                  fields |-> applyCredentialsUpdate(r.copy.fields, given, emptied)]]
       ELSE UNCHANGED <<accounts, account>>
  /\ edit' = [edit EXCEPT ![c] = NoEdit]
  /\ UNCHANGED <<created, rsa, exchangeOf, using>>

AccountDelete(i) ==
  /\ i \in accounts
  /\ accounts' = accounts \ {i}
  /\ account' = [account EXCEPT ![i] = Blank]
  /\ UNCHANGED <<created, edit, rsa, exchangeOf, using>>

-----------------------------------------------------------------------------
(* Resolve reads the private fields one after the other: the Lighter key   *)
(* if it has got no Aster key, the one of Hyperliquid if the account is of *)
(* that type and it has got neither.                                       *)
Got(i, f) == f \in AccountFields /\ account[i].fields[f] = rsa
ReadOf(i) ==
  {"api_key", "secret_key", "passphrase", "aster_private_key", "lighter_api_key"}
  \cup {f \in {"lighter_private_key"} : ~Got(i, "aster_private_key")}
  \cup {f \in {"hyperliquid_private_key"} :
          /\ account[i].type = "hyperliquid"
          /\ ~Got(i, "aster_private_key") /\ ~Got(i, "lighter_private_key")}

(* One that is there and cannot be read is enough to pass the account over. *)
Decrypts(i) ==
  \A f \in AccountFields \cap ReadOf(i) : account[i].fields[f] \in {rsa, Absent}

Eligible(type) ==
  {i \in accounts : account[i].type = type /\ account[i].enabled /\ Decrypts(i)}

(* Mutant: the oldest account first. *)
ResolveOldest(type) ==
  IF Eligible(type) = {} THEN NoAccount
  ELSE CHOOSE i \in Eligible(type) : \A j \in Eligible(type) : i <= j

(* Resolve: the newest enabled account of the type that decrypts. *)
Resolve(type) ==
  IF Eligible(type) = {} THEN NoAccount
  ELSE CHOOSE i \in Eligible(type) : \A j \in Eligible(type) : j <= i

(* adapterFor, at the beginning of a cycle and of an order sync: without   *)
(* an account the cycle is given up and nothing changes.                   *)
TraderResolves(t) ==
  /\ Resolve(exchangeOf[t]) # NoAccount
  /\ using' = [using EXCEPT ![t] = Resolve(exchangeOf[t])]
  /\ UNCHANGED <<accounts, account, created, edit, rsa, exchangeOf>>

(* A restart without RSA_PRIVATE_KEY: a new key, no requests, no runners.  *)
AccountsRestart ==
  /\ rsa < MaxNewKeys
  /\ rsa' = rsa + 1
  /\ edit' = [c \in AccountClients |-> NoEdit]
  /\ using' = [t \in AccountTraders |-> NoAccount]
  /\ UNCHANGED <<accounts, account, created, exchangeOf>>

AccountsNext ==
  \/ AccountCreate
  \/ \E c \in AccountClients : AccountUpdateReads(c) \/ AccountUpdateSaves(c)
  \/ \E i \in Ids : AccountDelete(i)
  \/ \E t \in AccountTraders : TraderResolves(t)
  \/ AccountsRestart

AccountsSpec == AccountsInit /\ [][AccountsNext]_accountVars

-----------------------------------------------------------------------------
AccountsTypeOK ==
  /\ accounts \subseteq 1..created
  /\ account \in [Ids -> Rows]
  /\ created \in 0..MaxAccounts
  /\ edit \in [AccountClients ->
       {NoEdit} \cup [pc : {"update"}, id : 1..created, copy : Rows]]
  /\ rsa \in 0..MaxNewKeys
  /\ exchangeOf \in [AccountTraders -> AccountTypes]
  /\ using \in [AccountTraders -> {NoAccount} \cup 1..created]

(* exchange_svc.go:48, :106: whatever is edited, retyped, deleted and      *)
(* brought back by an edit that had read it, an account has every private  *)
(* field its type requires.                                                *)
PrivateFieldsPresent(i) == Required(account[i].type) \cap Private \subseteq Present(account[i])

(* creds_resolver.go:22: the loop and the order sync of a trader resolve   *)
(* the account on their own; they leave the account they last used only    *)
(* for a newer one, or because it was switched off, retyped or deleted;    *)
(* never for an older one that is switched on or repaired meanwhile.       *)
AccountLeftForNewer ==
  [][\A t \in AccountTraders :
       /\ using[t] # NoAccount
       /\ using'[t] \notin {NoAccount, using[t]}
       => using'[t] > using[t] \/ using[t] \notin Eligible(exchangeOf[t])]_accountVars

(* A trader resolves accounts that are complete, and moves only forward.   *)
AccountsServeTraders == ([]\A i \in accounts : PrivateFieldsPresent(i)) /\ AccountLeftForNewer
================================================================================
