------------------------------ MODULE TokenChain ------------------------------
(***************************************************************************)
(* What a user is promised of a login: it is kept alive by one token at a  *)
(* time.  Renewing replaces the token by one never seen before; a token    *)
(* that was replaced, or whose session ended, is never good again.         *)
(***************************************************************************)
CONSTANTS Sessions, Tokens, NoToken

VARIABLES
  current, \* the token a session lives by, or NoToken
  issued   \* tokens ever handed out

chainVars == <<current, issued>>

ChainInit ==
  /\ current = [s \in Sessions |-> NoToken]
  /\ issued = {}

Begins(s) ==
  \E t \in Tokens \ issued :
    /\ current[s] = NoToken
    /\ current' = [current EXCEPT ![s] = t]
    /\ issued' = issued \cup {t}

Renews(s) ==
  \E t \in Tokens \ issued :
    /\ current[s] # NoToken
    /\ current' = [current EXCEPT ![s] = t]
    /\ issued' = issued \cup {t}

(* Any number at once: a restart without Redis ends them all. *)
End ==
  \E ended \in SUBSET Sessions :
    /\ current' = [s \in Sessions |-> IF s \in ended THEN NoToken ELSE current[s]]
    /\ UNCHANGED issued

ChainNext == End \/ \E s \in Sessions : Begins(s) \/ Renews(s)

ChainSpec == ChainInit /\ [][ChainNext]_chainVars
================================================================================
