----------------------------- MODULE UserAccounts -----------------------------
(***************************************************************************)
(* Registration and the forgotten password: AuthHandler.Register, Login,   *)
(* ForgotPassword and ResetPassword over the users of store.go, the reset  *)
(* tokens of pkg/cache and the mailer.  Every request is a goroutine; it   *)
(* looks first and writes later, with the hashing of the password (tens of *)
(* milliseconds) in between.                                               *)
(***************************************************************************)
EXTENDS Naturals, FiniteSets

CONSTANTS
  Emails,     \* addresses, in the form they are stored in
  Requesters, \* requests that may be under way at once
  Passwords,  \* passwords in use
  NoPassword, \* the address has no user
  ResetTokens \* reset tokens that may be handed out

ASSUME UsersAssumption == NoPassword \notin Passwords

VARIABLES
  password, \* the password of the user of an address
  rows,     \* how many users were created for an address
  resets,   \* reset tokens that are still good
  given,    \* reset tokens handed out
  ownerOf,  \* the address a reset token is for
  mailed,   \* reset tokens that reached their user
  req,      \* what each request is doing
  used,     \* history: tokens that set a password
  reused,   \* history: tokens that set a password more than once
  overlap   \* history: tokens in use twice at a time, or not deleted

userVars ==
  <<password, rows, resets, given, ownerOf, mailed, req, used, reused, overlap>>

NoRequest == [pc |-> "idle"]

UsersInit ==
  /\ password = [e \in Emails |-> NoPassword]
  /\ rows = [e \in Emails |-> 0]
  /\ resets = {}
  /\ given = {}
  /\ ownerOf \in [ResetTokens -> Emails]
  /\ mailed = {}
  /\ req = [q \in Requesters |-> NoRequest]
  /\ used = {}
  /\ reused = {}
  /\ overlap = {}

Registered(e) == password[e] # NoPassword
Begins(q, what) == req[q] = NoRequest /\ req' = [req EXCEPT ![q] = what]
Ends(q) == req' = [req EXCEPT ![q] = NoRequest]

-----------------------------------------------------------------------------
(* Register, first half: no user has the address as it was typed; typed in *)
(* another case it is not found here whoever has it.                       *)
RegisterLooks(q) ==
  /\ \E e \in Emails, p \in Passwords, asStored \in BOOLEAN :
       /\ asStored => ~Registered(e)
       /\ Begins(q, [pc |-> "register", email |-> e, password |-> p])
  /\ UNCHANGED <<password, rows, resets, given, ownerOf, mailed, used, reused, overlap>>

(* Mutant: no unique index. *)
InsertAnyway(q) ==
  LET r == req[q] IN
  /\ r.pc = "register"
  /\ password' = [password EXCEPT ![r.email] = r.password]
  /\ rows' = [rows EXCEPT ![r.email] = @ + 1]
  /\ Ends(q)
  /\ UNCHANGED <<resets, given, ownerOf, mailed, used, reused, overlap>>

(* CreateUser: the unique index on email, in lower case, decides. *)
CreateUser(q) ==
  LET r == req[q] IN
  /\ r.pc = "register"
  /\ IF Registered(r.email)
     THEN UNCHANGED <<password, rows>>
     ELSE /\ password' = [password EXCEPT ![r.email] = r.password]
          /\ rows' = [rows EXCEPT ![r.email] = @ + 1]
  /\ Ends(q)
  /\ UNCHANGED <<resets, given, ownerOf, mailed, used, reused, overlap>>

(* ForgotPassword: the token is stored, then mailed; a mail that fails     *)
(* leaves a token nobody knows.  The answer is the same in every case.     *)
ForgotPassword ==
  /\ \E t \in ResetTokens \ given :
       /\ Registered(ownerOf[t])
       /\ given' = given \cup {t}
       /\ resets' = resets \cup {t}
       /\ mailed' \in {mailed, mailed \cup {t}}
  /\ UNCHANGED <<password, rows, ownerOf, req, used, reused, overlap>>

InUseBy(t) == {q \in Requesters : req[q].pc \in {"reset", "written"} /\ req[q].token = t}

(* ResetPassword, first half: the token is looked up, not taken. *)
ResetLooks(q) ==
  /\ \E t \in mailed \cap resets, p \in Passwords :
       /\ Begins(q, [pc |-> "reset", token |-> t, password |-> p])
       /\ overlap' = IF InUseBy(t) = {} THEN overlap ELSE overlap \cup {t}
  /\ UNCHANGED <<password, rows, resets, given, ownerOf, mailed, used, reused>>

(* Then the password is hashed and written (UpdateUserPassword), *)
ResetWrites(q) ==
  LET r == req[q] IN
  /\ r.pc = "reset"
  /\ password' = [password EXCEPT ![ownerOf[r.token]] = r.password]
  /\ used' = used \cup {r.token}
  /\ reused' = IF r.token \in used THEN reused \cup {r.token} ELSE reused
  /\ req' = [req EXCEPT ![q].pc = "written"]
  /\ UNCHANGED <<rows, resets, given, ownerOf, mailed, overlap>>

(* Mutant: the token is left to expire. *)
ResetKeeps(q) ==
  /\ req[q].pc = "written"
  /\ Ends(q)
  /\ UNCHANGED <<password, rows, resets, given, ownerOf, mailed, used, reused, overlap>>

(* ... and the token is deleted; whether that worked is not looked at. *)
ResetForgets(q) ==
  LET t == req[q].token IN
  /\ req[q].pc = "written"
  /\ \/ resets' = resets \ {t} /\ UNCHANGED overlap
     \/ overlap' = overlap \cup {t} /\ UNCHANGED resets
  /\ Ends(q)
  /\ UNCHANGED <<password, rows, given, ownerOf, mailed, used, reused>>

(* The hour of a token is over, or a restart without Redis. *)
ResetExpires ==
  /\ \E gone \in (SUBSET resets) \ {{}} : resets' = resets \ gone
  /\ UNCHANGED <<password, rows, given, ownerOf, mailed, req, used, reused, overlap>>

UsersNext ==
  \/ ForgotPassword
  \/ ResetExpires
  \/ \E q \in Requesters :
       \/ RegisterLooks(q)
       \/ CreateUser(q)
       \/ ResetLooks(q)
       \/ ResetWrites(q)
       \/ ResetForgets(q)

UsersSpec == UsersInit /\ [][UsersNext]_userVars

-----------------------------------------------------------------------------
UserRequests ==
  {NoRequest}
  \cup [pc : {"register"}, email : Emails, password : Passwords]
  \cup [pc : {"reset", "written"}, token : ResetTokens, password : Passwords]

UsersTypeOK ==
  /\ password \in [Emails -> Passwords \cup {NoPassword}]
  /\ rows \in [Emails -> Nat]
  /\ resets \subseteq given
  /\ given \subseteq ResetTokens
  /\ ownerOf \in [ResetTokens -> Emails]
  /\ mailed \subseteq given
  /\ req \in [Requesters -> UserRequests]
  /\ reused \subseteq used
  /\ used \subseteq given
  /\ overlap \subseteq given

(* store.go:168: an address has one user, and keeps the password it was    *)
(* registered with until a reset, however registrations overlap and in     *)
(* whatever case the address was typed.                                    *)
OneUserPerEmail == \A e \in Emails : rows[e] = IF Registered(e) THEN 1 ELSE 0

(* handler/auth.go:281 says that a token resets a password once.  It does, *)
(* unless a second request looked it up before the first one deleted it,   *)
(* or the deletion failed.                                                 *)
ResetOnce == reused \subseteq overlap

(* However requests overlap, an address is registered once and a token     *)
(* resets once.                                                            *)
OncePerAddressAndToken == OneUserPerEmail /\ ResetOnce
===============================================================================
