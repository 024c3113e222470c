------------------------------ MODULE MCProgress ------------------------------
(***************************************************************************)
(* The TLC instance of what has to come to an end: a debate, a tab's calls *)
(* around a refresh, a call of the mcp library, a websocket dial, streams, *)
(* dashboard sockets and the recording of fills, whose book is also        *)
(* checked against the holdings ("engine").  A behaviour is of one of      *)
(* them, its part; the others rest where no action of theirs that is fair  *)
(* is enabled.                                                             *)
(***************************************************************************)
EXTENDS Debate, Sessions, McpClient, WebsocketDial, DebateStreams, DashboardSockets,
        PositionBook, TLC

CONSTANT b1, b2  \* order-sync goroutines

VARIABLES
  part,
  (* of the live book; PositionBook's own are those of the engine alone    *)
  liveHolding, liveFills, liveOrders, liveSeen, liveBook, liveTrades, liveEng,
  liveSyncs, liveApi, liveBuilt, liveLost, liveCrashes

liveVars ==
  <<liveHolding, liveFills, liveOrders, liveSeen, liveBook, liveTrades, liveEng,
    liveSyncs, liveApi, liveBuilt, liveLost, liveCrashes>>
progressVars ==
  <<part, vars, sessionVars, mcpVars, dialVars, pushVars, socketVars, bookVars, liveVars>>

(* Everybody trades at once, fills come in parts, replies are lost, and    *)
(* the process may die.                                                    *)
Live ==
  INSTANCE PositionBook WITH
    Syncs <- {b1}, Quantities <- {2}, Sides <- {"long"}, MaxOrders <- 2,
    ByHand <- TRUE, Guard <- TRUE, SplitFills <- TRUE, LostReplies <- TRUE,
    ApiCloses <- FALSE, MaxCrashes <- 1, OneAtATime <- FALSE,
    holding <- liveHolding, fills <- liveFills, orders <- liveOrders,
    seen <- liveSeen, book <- liveBook, trades <- liveTrades, eng <- liveEng,
    syncs <- liveSyncs, api <- liveApi, built <- liveBuilt, lost <- liveLost,
    crashes <- liveCrashes

PartNames == {"debate", "tab", "mcp", "dial", "streams", "sockets", "live", "engine"}

ProgressInit ==
  /\ part \in PartNames
  /\ Init
  /\ part # "debate" => panel = NSpeakers
  /\ SessionsInit
  /\ McpInit
  /\ IF part = "dial" THEN DialInit
     ELSE /\ dial = "failed" /\ conn = "none" /\ shaker = "none"
          /\ tunnel = FALSE /\ secure = FALSE /\ expired = FALSE
  /\ StreamsInit
  /\ SocketsInit
  /\ BookInit
  /\ Live!BookInit

ProgressNext ==
  /\ UNCHANGED part
  /\ IF part = "debate" THEN Next ELSE UNCHANGED vars
  /\ IF part = "tab" THEN SessionsNext ELSE UNCHANGED sessionVars
  /\ IF part = "mcp" THEN McpNext ELSE UNCHANGED mcpVars
  /\ IF part = "dial" THEN DialNext ELSE UNCHANGED dialVars
  /\ IF part = "streams" THEN StreamsNext ELSE UNCHANGED pushVars
  /\ IF part = "sockets" THEN SocketsNext ELSE UNCHANGED socketVars
  /\ IF part = "engine" THEN BookNext ELSE UNCHANGED bookVars
  /\ IF part = "live" THEN Live!BookNext ELSE UNCHANGED liveVars

(* The engine alone is checked for safety only. *)
ProgressSpec ==
  /\ ProgressInit
  /\ [][ProgressNext]_progressVars
  /\ Fairness
  /\ SessionsFairness
  /\ McpFairness
  /\ DialFairness
  /\ StreamsFairness
  /\ SocketsFairness
  /\ Live!BookFairness

-----------------------------------------------------------------------------
(* The type invariants of the parts.                                       *)
TypesOK ==
  /\ TypeOK /\ SessionsTypeOK /\ McpTypeOK /\ StreamsTypeOK /\ SocketsTypeOK
  /\ BookTypeOK /\ Live!BookTypeOK

(* A client that leaves, or is lost, leaves nothing behind: neither its    *)
(* place in the quota nor its goroutines nor its channel; and a dial that  *)
(* is cancelled returns.                                                   *)
ConnectionsEnd == LostGivesBack /\ ReadersEnd /\ LeaversAreLetGo /\ CancelledDialReturns

(* Every call of a tab, around its refresh, and every call of the mcp      *)
(* library returns, and the latter leaves nothing running.                 *)
CallsReturn == EveryCallReturns /\ McpCallReturns /\ ReaderEnds

(* PositionBook: of a book that everybody writes every fill is recorded.   *)
EveryFillRecorded == Live!FillsGetRecorded

-----------------------------------------------------------------------------
M(role, tokens) == [role |-> role, tokens |-> tokens]

(* Conversations that fit, that must be shortened, and that cannot be.     *)
MCConversations ==
  {<<M("system", 2), M("user", 1), M("assistant", 2), M("user", 3)>>,
   <<M("user", 2), M("user", 9)>>,
   <<M("user", 3), M("system", 1)>>}
================================================================================
