------------------------------ MODULE McpClient ------------------------------
(***************************************************************************)
(* A call of the mcp client library: the plain call with its retries       *)
(* (doRequest, backoff), the streamed call with the goroutine that reads   *)
(* its lines (CallWithRequestStream), and the guard that shortens a long   *)
(* conversation (truncateToMaxContext).  The model's server is external.   *)
(*                                                                         *)
(* An unbuffered channel is a step of both its ends; errCh holds one.      *)
(* Message texts are their estimated tokens; the deltas of a stream are    *)
(* counted.                                                                *)
(***************************************************************************)
EXTENDS Integers, Sequences, FiniteSets

CONSTANTS
  Conversations, \* what callers ask: sequences of messages [role, tokens]
  MaxContext,    \* Config.MaxContext
  MaxRetries,    \* Config.MaxRetries
  MaxLines,      \* bound on the lines of a stream
  IdleLimit      \* ticks of the 60 s timer

(* A message as the context guard sees it, its text the estimate of it.    *)
Messages == [role : {"system", "user", "assistant", "tool"}, tokens : Nat]

ASSUME McpAssumption ==
  /\ {MaxContext, MaxRetries, MaxLines, IdleLimit} \subseteq Nat
  /\ Conversations \subseteq Seq(Messages)

VARIABLES
  req,    \* the call: where it is, its attempt, its text, how it ended
  asked,  \* the conversation it was given
  wire,   \* the messages of its request body
  gone,   \* is the caller's context cancelled?
  sent,   \* history: requests that left
  reader, \* the goroutine that scans the body
  errCh,  \* the reader's last word
  body,   \* the response body: lines to be read, and is there more to come?
  deltas, \* history: deltas the server has sent
  idle    \* ticks since the timer was reset

mcpVars == <<req, asked, wire, gone, sent, reader, errCh, body, deltas, idle>>
streamVars == <<reader, errCh, body, deltas, idle>>

NoCall == [pc |-> "none", attempt |-> 0, stream |-> FALSE, text |-> 0, result |-> "none"]
NoReader == [pc |-> "none", line |-> "none"]
NoBody == [lines |-> <<>>, state |-> "none"]

McpInit ==
  /\ req = NoCall
  /\ asked = <<>>
  /\ wire = <<>>
  /\ gone = FALSE
  /\ sent = 0
  /\ reader = NoReader
  /\ errCh = {}
  /\ body = NoBody
  /\ deltas = 0
  /\ idle = 0

ReqReturns(result) == req' = [req EXCEPT !.pc = "returned", !.result = result]

-----------------------------------------------------------------------------
(* The context guard *)

IsSystem(m) == m.role = "system"

(* The loops over the messages: the estimate of all, and the system's      *)
(* apart from the others.                                                  *)
Tokens(msgs) ==
  LET total[n \in 0..Len(msgs)] == IF n = 0 THEN 0 ELSE total[n - 1] + msgs[n].tokens
  IN total[Len(msgs)]

Parted(halves, m) ==
  IF IsSystem(m) THEN [halves EXCEPT !.system = Append(@, m)]
  ELSE [halves EXCEPT !.others = Append(@, m)]

Split(msgs) ==
  LET split[n \in 0..Len(msgs)] ==
        IF n = 0 THEN [system |-> <<>>, others |-> <<>>] ELSE Parted(split[n - 1], msgs[n])
  IN split[Len(msgs)]

Latest(msgs, k) == SubSeq(msgs, Len(msgs) - k + 1, Len(msgs))

Room(all, k) == Tokens(all.system) + Tokens(Latest(all.others, k)) <= MaxContext

(* Mutant: the newest message goes too. *)
KeptToNone(all) == {k \in 0..Len(all.others) : Room(all, k)} \cup {0}

(* How many of the newest others may be kept: as many as fit, and one.     *)
Kept(all) ==
  {k \in 1..Len(all.others) : Room(all, k)} \cup {IF all.others = <<>> THEN 0 ELSE 1}

(* truncateToMaxContext: the oldest are dropped, system messages never.    *)
Truncate(msgs) ==
  LET all == Split(msgs)
      k == CHOOSE n \in Kept(all) : \A m \in Kept(all) : m <= n
  IN IF MaxContext = 0 \/ Tokens(all.system) + Tokens(all.others) <= MaxContext THEN msgs
     ELSE all.system \o Latest(all.others, k)

(* buildWireMessages: system messages first. *)
Wire(msgs) == Split(msgs).system \o Split(msgs).others

-----------------------------------------------------------------------------
(* The call *)

Begin(msgs, stream) ==
  /\ req.pc = "none"
  /\ req' = [NoCall EXCEPT !.pc = "send", !.attempt = 1, !.stream = stream]
  /\ asked' = msgs
  /\ wire' = Wire(Truncate(msgs))
  /\ UNCHANGED <<gone, sent, streamVars>>

(* The caller gives up. *)
ContextEnds ==
  /\ req.pc \notin {"none", "returned"}
  /\ gone' = TRUE
  /\ UNCHANGED <<req, asked, wire, sent, streamVars>>

(* Call: with a cancelled context nothing leaves, and that is not retried. *)
Send ==
  /\ req.pc = "send"
  /\ IF gone
     THEN ReqReturns("error") /\ UNCHANGED sent
     ELSE req' = [req EXCEPT !.pc = "waiting"] /\ sent' = sent + 1
  /\ UNCHANGED <<asked, wire, gone, streamVars>>

(* Mutant: the retries are counted one too late. *)
LastAfter(attempt) == attempt > MaxRetries + 1

IsLast(attempt) == attempt >= MaxRetries + 1

(* A transport error, an error while reading, or a status: IsRetryableError *)
(* goes by the text of the error.  A streamed call is not retried.         *)
Fails(retryable) ==
  /\ req.pc = "waiting"
  /\ IF retryable /\ ~gone /\ ~req.stream /\ ~IsLast(req.attempt)
     THEN req' = [req EXCEPT !.pc = "backoff"]
     ELSE ReqReturns("error")
  /\ UNCHANGED <<asked, wire, gone, sent, streamVars>>

(* Mutant: the sleep ends with the context only. *)
BackoffUntilCancelled ==
  /\ req.pc = "backoff"
  /\ gone
  /\ req' = [req EXCEPT !.pc = "send", !.attempt = @ + 1]
  /\ UNCHANGED <<asked, wire, gone, sent, streamVars>>

(* backoff: the time is over, or the context is; when both, either.        *)
BackoffOver ==
  /\ req.pc = "backoff"
  /\ req' = [req EXCEPT !.pc = "send", !.attempt = @ + 1]
  /\ UNCHANGED <<asked, wire, gone, sent, streamVars>>

BackoffCancelled ==
  /\ req.pc = "backoff"
  /\ gone
  /\ ReqReturns("error")
  /\ UNCHANGED <<asked, wire, gone, sent, streamVars>>

(* A body that parses is the answer; one that does not is an error.        *)
Answered(parses) ==
  /\ req.pc = "waiting"
  /\ ~req.stream
  /\ ReqReturns(IF parses THEN "text" ELSE "error")
  /\ UNCHANGED <<asked, wire, gone, sent, streamVars>>

-----------------------------------------------------------------------------
(* The stream *)

StreamOpens ==
  /\ req.pc = "waiting"
  /\ req.stream
  /\ req' = [req EXCEPT !.pc = "select"]
  /\ reader' = [NoReader EXCEPT !.pc = "scan"]
  /\ body' = [lines |-> <<>>, state |-> "open"]
  /\ UNCHANGED <<asked, wire, gone, sent, errCh, deltas, idle>>

(* The server sends a delta, or a line that is none (blank, a comment).    *)
ServerSends(line) ==
  /\ body.state = "open"
  /\ Len(body.lines) + deltas < MaxLines
  /\ body' = [body EXCEPT !.lines = Append(@, line)]
  /\ deltas' = deltas + (IF line = "delta" THEN 1 ELSE 0)
  /\ UNCHANGED <<req, asked, wire, gone, sent, reader, errCh, idle>>

(* The body ends, or the connection, the client's timeout or the context   *)
(* breaks it.                                                              *)
BodyEnds ==
  /\ body.state = "open"
  /\ body' = [body EXCEPT !.state = "ended"]
  /\ UNCHANGED <<req, asked, wire, gone, sent, reader, errCh, deltas, idle>>

BodyBreaks ==
  /\ body.state = "open"
  /\ body' = [body EXCEPT !.state = "broken"]
  /\ UNCHANGED <<req, asked, wire, gone, sent, reader, errCh, deltas, idle>>

(* scanner.Scan *)
Scan ==
  /\ reader.pc = "scan"
  /\ body.lines # <<>>
  /\ reader' = [pc |-> "offer", line |-> Head(body.lines)]
  /\ body' = [body EXCEPT !.lines = Tail(@)]
  /\ UNCHANGED <<req, asked, wire, gone, sent, errCh, deltas, idle>>

(* Mutant: the end is reported past a line that nobody has taken.          *)
ScanEndsEarly ==
  /\ reader.pc \in {"scan", "offer"}
  /\ body.state # "open"
  /\ reader' = [reader EXCEPT !.pc = "report"]
  /\ UNCHANGED <<req, asked, wire, gone, sent, errCh, body, deltas, idle>>

(* Scan returns false at the end of the body, and when it is closed.       *)
ScanEnds ==
  /\ reader.pc = "scan"
  /\ body.state = "closed" \/ (body.state # "open" /\ body.lines = <<>>)
  /\ reader' = [reader EXCEPT !.pc = "report"]
  /\ UNCHANGED <<req, asked, wire, gone, sent, errCh, body, deltas, idle>>

ReaderReports ==
  /\ reader.pc = "report"
  /\ errCh' = {IF body.state = "ended" THEN "eof" ELSE "error"}
  /\ reader' = [reader EXCEPT !.pc = "end"]
  /\ UNCHANGED <<req, asked, wire, gone, sent, body, deltas, idle>>

(* Mutant: the reader does not listen to done while it offers a line. *)
ReaderDeaf ==
  /\ reader.pc = "report"
  /\ req.pc = "returned"
  /\ reader' = [reader EXCEPT !.pc = "end"]
  /\ UNCHANGED <<req, asked, wire, gone, sent, errCh, body, deltas, idle>>

(* The call has returned and closed done. *)
ReaderDone ==
  /\ reader.pc \in {"offer", "report"}
  /\ req.pc = "returned"
  /\ reader' = [reader EXCEPT !.pc = "end"]
  /\ UNCHANGED <<req, asked, wire, gone, sent, errCh, body, deltas, idle>>

(* lines: the reader's offer meets the call's select.  Every line resets   *)
(* the timer.                                                              *)
TakeLine ==
  /\ req.pc = "select"
  /\ reader.pc = "offer"
  /\ req' = [req EXCEPT !.text = @ + (IF reader.line = "delta" THEN 1 ELSE 0)]
  /\ reader' = [NoReader EXCEPT !.pc = "scan"]
  /\ idle' = 0
  /\ UNCHANGED <<asked, wire, gone, sent, errCh, body, deltas>>

Closes == body' = [body EXCEPT !.state = "closed"]

TakeEnd ==
  /\ req.pc = "select"
  /\ errCh # {}
  /\ ReqReturns(IF errCh = {"eof"} THEN "text" ELSE "error")
  /\ Closes
  /\ UNCHANGED <<asked, wire, gone, sent, reader, errCh, deltas, idle>>

IdleOut ==
  /\ req.pc = "select"
  /\ idle = IdleLimit
  /\ ReqReturns("error")
  /\ Closes
  /\ UNCHANGED <<asked, wire, gone, sent, reader, errCh, deltas, idle>>

Tick ==
  /\ req.pc = "select"
  /\ idle < IdleLimit
  /\ idle' = idle + 1
  /\ UNCHANGED <<req, asked, wire, gone, sent, reader, errCh, body, deltas>>

-----------------------------------------------------------------------------
ReaderStep == Scan \/ ScanEnds \/ ReaderReports \/ ReaderDone

CallStep == Send \/ BackoffOver \/ BackoffCancelled \/ TakeLine \/ TakeEnd \/ IdleOut

ServerStep ==
  \/ \E retryable \in BOOLEAN : Fails(retryable)
  \/ \E parses \in BOOLEAN : Answered(parses)
  \/ StreamOpens

McpNext ==
  \/ \E msgs \in Conversations, stream \in BOOLEAN : Begin(msgs, stream)
  \/ ContextEnds
  \/ CallStep
  \/ ReaderStep
  \/ ServerStep
  \/ \E line \in {"delta", "other"} : ServerSends(line)
  \/ BodyEnds
  \/ BodyBreaks
  \/ Tick

(* Goroutines run and time passes; a request is answered or times out      *)
(* (http.Client.Timeout, which covers the body as well).  A stream need    *)
(* not end by itself.                                                      *)
McpFairness ==
  /\ WF_mcpVars(CallStep)
  /\ WF_mcpVars(ReaderStep)
  /\ WF_mcpVars(ServerStep)
  /\ WF_mcpVars(Tick)
  /\ WF_mcpVars(BodyBreaks)

McpSpec == McpInit /\ [][McpNext]_mcpVars /\ McpFairness

-----------------------------------------------------------------------------
McpTypeOK ==
  /\ req.pc \in {"none", "send", "waiting", "backoff", "select", "returned"}
  /\ req.result \in {"none", "text", "error"}
  /\ reader.pc \in {"none", "scan", "offer", "report", "end"}
  /\ body.state \in {"none", "open", "ended", "broken", "closed"}
  /\ sent \in 0..MaxRetries + 1
  /\ idle \in 0..IdleLimit

(* client.go:285: at most MaxRetries retries, each after the failure of    *)
(* the request before it, and none for a streamed call.                    *)
AttemptsBounded == sent <= (IF req.stream THEN 1 ELSE MaxRetries + 1)

(* context_guard.go:28: what is sent is every system message and the       *)
(* newest of the others, each in order; it fits unless one other is left,  *)
(* and it would not have fitted with one message more.                     *)
KeepsTheNewest ==
  req.pc # "none" =>
    LET all == Split(asked)
        kept == Split(wire)
        dropped == Len(asked) - Len(wire)
    IN /\ wire = all.system \o kept.others
       /\ kept.system = all.system
       /\ kept.others = SubSeq(all.others, dropped + 1, Len(all.others))
       /\ all.others # <<>> => kept.others # <<>>
       /\ MaxContext = 0 => dropped = 0
       /\ MaxContext > 0 /\ Len(kept.others) > 1 => Room(kept, Len(kept.others))
       /\ dropped > 0 => ~Room(all, Len(kept.others) + 1)

(* client.go:161: a streamed call that ends without an error returns the   *)
(* full text, every delta the server sent.                                 *)
StreamIsWhole ==
  req.stream /\ req.result = "text" => req.text = deltas

(* A call sends no more than it may, and returns all it was sent or an     *)
(* error.                                                                  *)
CallIsWhole == AttemptsBounded /\ KeepsTheNewest /\ StreamIsWhole

(* client.go:206: the reader's goroutine ends on every way out of the      *)
(* call.                                                                   *)
ReaderEnds == req.pc = "returned" /\ reader.pc # "none" ~> reader.pc = "end"

(* Every call returns, whatever the server does or fails to do.            *)
McpCallReturns == req.pc # "none" ~> req.pc = "returned"
==============================================================================
