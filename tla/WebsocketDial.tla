---------------------------- MODULE WebsocketDial ----------------------------
(***************************************************************************)
(* DialWebsocketConfigContext of httpclient/websocket.go: the connection,  *)
(* through a proxy's tunnel or not, with TLS or not, then the handshake in *)
(* a goroutine of its own that races the caller's context.  The network is *)
(* external: it may fail any step, or leave it unanswered for ever.        *)
(***************************************************************************)
EXTENDS Naturals

VARIABLES
  dial,   \* the caller: where it is, and what it returned
  tunnel, \* is there an HTTP proxy?
  secure, \* is the address wss?
  conn,   \* the connection: "none", "open", "closed"
  shaker, \* the goroutine of the handshake
  expired \* is the context done?

dialVars == <<dial, tunnel, secure, conn, shaker, expired>>

DialInit ==
  /\ dial = "connecting"
  /\ tunnel \in BOOLEAN
  /\ secure \in BOOLEAN
  /\ conn = "none"
  /\ shaker = "none"
  /\ expired = FALSE

AfterTunnel == IF secure THEN "tls" ELSE "spawn"
AfterConnect == IF tunnel THEN "tunnel" ELSE AfterTunnel

(* DialContext of the address or of the proxy; it heeds the context.       *)
Connected ==
  /\ dial = "connecting"
  /\ conn' = "open"
  /\ dial' = AfterConnect
  /\ UNCHANGED <<tunnel, secure, shaker, expired>>

ConnectFails ==
  /\ dial = "connecting"
  /\ dial' = "failed"
  /\ UNCHANGED <<tunnel, secure, conn, shaker, expired>>

(* dialHTTPProxyTunnel writes CONNECT and reads the answer; neither looks  *)
(* at the context.                                                         *)
TunnelAnswers ==
  /\ dial = "tunnel"
  /\ dial' = AfterTunnel
  /\ UNCHANGED <<tunnel, secure, conn, shaker, expired>>

TunnelFails ==
  /\ dial = "tunnel"
  /\ conn' = "closed"
  /\ dial' = "failed"
  /\ UNCHANGED <<tunnel, secure, shaker, expired>>

(* HandshakeContext *)
TlsDone ==
  /\ dial = "tls"
  /\ dial' = "spawn"
  /\ UNCHANGED <<tunnel, secure, conn, shaker, expired>>

(* Mutant: the connection is left behind. *)
TlsFailsOpen ==
  /\ dial = "tls"
  /\ dial' = "failed"
  /\ UNCHANGED <<tunnel, secure, conn, shaker, expired>>

TlsFails ==
  /\ dial = "tls"
  /\ conn' = "closed"
  /\ dial' = "failed"
  /\ UNCHANGED <<tunnel, secure, shaker, expired>>

Spawn ==
  /\ dial = "spawn"
  /\ shaker' = "shaking"
  /\ dial' = "select"
  /\ UNCHANGED <<tunnel, secure, conn, expired>>

(* websocket.NewClient, which fails at the latest when the connection is   *)
(* closed under it; done is closed either way.                             *)
ShakeDone ==
  /\ shaker = "shaking"
  /\ conn = "open"
  /\ shaker' = "shaken"
  /\ UNCHANGED <<dial, tunnel, secure, conn, expired>>

ShakeFails ==
  /\ shaker = "shaking"
  /\ shaker' = "failed"
  /\ UNCHANGED <<dial, tunnel, secure, conn, expired>>

(* The context is done: close, then wait for the goroutine.                *)
GivesUp ==
  /\ dial = "awaiting"
  /\ shaker \in {"shaken", "failed"}
  /\ dial' = "failed"
  /\ UNCHANGED <<tunnel, secure, conn, shaker, expired>>

(* Mutant: it waits for the handshake first. *)
WaitsFirst ==
  /\ dial = "select"
  /\ expired
  /\ dial' = "awaiting"
  /\ UNCHANGED <<tunnel, secure, conn, shaker, expired>>

ContextFirst ==
  /\ dial = "select"
  /\ expired
  /\ conn' = "closed"
  /\ dial' = "awaiting"
  /\ UNCHANGED <<tunnel, secure, shaker, expired>>

(* The handshake is done; when the context is too, either branch is taken. *)
HandshakeFirst ==
  /\ dial = "select"
  /\ shaker \in {"shaken", "failed"}
  /\ dial' = IF shaker = "shaken" THEN "returned" ELSE "failed"
  /\ conn' = IF shaker = "shaken" THEN conn ELSE "closed"
  /\ UNCHANGED <<tunnel, secure, shaker, expired>>

Expire ==
  /\ ~expired
  /\ expired' = TRUE
  /\ UNCHANGED <<dial, tunnel, secure, conn, shaker>>

DialStep == Spawn \/ GivesUp \/ ContextFirst \/ HandshakeFirst

DialNext ==
  \/ DialStep
  \/ Connected \/ ConnectFails
  \/ TunnelAnswers \/ TunnelFails
  \/ TlsDone \/ TlsFails
  \/ ShakeDone \/ ShakeFails
  \/ Expire

(* What heeds the context, or the closing of its connection, ends once     *)
(* that has come; nothing makes a proxy answer.                            *)
DialFairness ==
  /\ WF_dialVars(DialStep)
  /\ WF_dialVars(expired /\ (ConnectFails \/ TlsFails))
  /\ WF_dialVars(conn = "closed" /\ ShakeFails)

DialSpec == DialInit /\ [][DialNext]_dialVars /\ DialFairness

-----------------------------------------------------------------------------
(* websocket.go:53: a dial that fails leaves no connection open and no     *)
(* goroutine behind; one that succeeds returns an open socket.             *)
FailsClean == dial = "failed" => conn # "open" /\ shaker # "shaking"
ReturnsOpen == dial = "returned" => conn = "open" /\ shaker = "shaken"
DialsClean == FailsClean /\ ReturnsOpen

(* websocket.go:68: once its context is done a dial returns, unless it     *)
(* waits for a proxy that does not answer.                                 *)
CancelledDialReturns ==
  expired ~> dial \in {"failed", "returned", "tunnel"}
==============================================================================
