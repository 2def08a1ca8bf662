--------------------------- MODULE ServerExchange ---------------------------
(***************************************************************************)
(* The server's side of one Attest stream (internal/spire): the handler    *)
(* receives the payload synchronously, sends the challenge, and waits for  *)
(* the response in a select over one worker goroutine's result channel,    *)
(* the challenge-response context and the stream context.  Only the end of *)
(* the stream releases a worker that is still blocked in Recv.             *)
(*                                                                         *)
(* The stream itself is gRPC's: Recv delivers the peer's messages in       *)
(* order, io.EOF once the peer has half-closed, and a status error, not a  *)
(* context error, once the stream context has ended.                       *)
(***************************************************************************)
EXTENDS Naturals, Sequences

CONSTANTS
    MaxMessages,  \* bound: messages the peer sends
    None

ASSUME ExchangeAssumption == MaxMessages \in Nat

(* The oneof of an AttestRequest; "empty" is a request that holds neither. *)
Kinds == {"payload", "response", "empty"}

VARIABLES
    sent,       \* the messages the peer sent, in order
    taken,      \* how many of them Recv has delivered
    halfClosed, \* the peer will send no more
    streamCtx,  \* stream.Context(): "live", or how it ended
    handler,    \* where the Attest handler is
    recvCtx,    \* the challenge-response context; "none" before it exists
    worker,     \* the goroutine started by ReceiveResponse
    held,       \* the Recv result the worker is about to put, or None
    results,    \* the buffered channel
    verdict,    \* class of what the exchange returned; "pending" before
    accepted    \* position of the message returned as response, or 0

streamVars == <<sent, halfClosed>>
vars == <<sent, taken, halfClosed, streamCtx, handler, recvCtx, worker, held,
          results, verdict, accepted>>

ContextEnds == {"canceled", "deadline"}

Classes == ContextEnds \cup {"pending", "ok", "invalid", "other"}

(* What one Recv call returns; at is the position of the message.          *)
RecvResult == [at : 0 .. MaxMessages, err : {"nil", "eof", "status"}]

(* The types of all state; the channel holds at most its one result.       *)
ExchangeTypeOK ==
    /\ sent \in UNION {[1 .. n -> Kinds] : n \in 0 .. MaxMessages}
    /\ taken \in 0 .. Len(sent)
    /\ halfClosed \in BOOLEAN
    /\ streamCtx \in ContextEnds \cup {"live"}
    /\ handler \in {"payload", "challenge", "select", "rest", "returned"}
    /\ recvCtx \in ContextEnds \cup {"none", "live"}
    /\ worker \in {"none", "recv", "put", "gone"}
    /\ held \in RecvResult \cup {None}
    /\ results \in {<<>>} \cup {<<r>> : r \in RecvResult}
    /\ verdict \in Classes
    /\ accepted \in 0 .. MaxMessages

Init ==
    /\ sent = <<>>
    /\ taken = 0
    /\ halfClosed = FALSE
    /\ streamCtx = "live"
    /\ handler = "payload"
    /\ recvCtx = "none"
    /\ worker = "none"
    /\ held = None
    /\ results = <<>>
    /\ verdict = "pending"
    /\ accepted = 0

-----------------------------------------------------------------------------
(* The stream and the peer.                                                *)

(* What a Recv may return now; none of them, and it blocks.                *)
RecvOutcomes ==
    {[at |-> n, err |-> "nil"] : n \in {taken + 1} \cap DOMAIN sent}
    \cup {[at |-> 0, err |-> e] : e \in
            {x \in {"eof"} : halfClosed /\ taken = Len(sent)}
            \cup {x \in {"status"} : streamCtx # "live"}}

(* Mutant: a failed Recv is counted as a message.                          *)
TakeAnything(r) == taken' = taken + 1

(* A Recv that fails has consumed nothing.                                 *)
Take(r) == taken' = IF r.err = "nil" THEN r.at ELSE taken

PeerSends(k) ==
    /\ ~halfClosed /\ streamCtx = "live"
    /\ Len(sent) < MaxMessages
    /\ sent' = Append(sent, k)
    /\ UNCHANGED <<taken, halfClosed, streamCtx, handler, recvCtx, worker, held, results, verdict, accepted>>

PeerCloses ==
    /\ ~halfClosed /\ streamCtx = "live"
    /\ halfClosed' = TRUE
    /\ UNCHANGED <<sent, taken, streamCtx, handler, recvCtx, worker, held, results, verdict, accepted>>

(* The peer cancels or is lost, its deadline passes, or the handler has    *)
(* returned and gRPC ends the stream.                                      *)
StreamEnds(how) ==
    /\ streamCtx = "live"
    /\ handler = "returned" => how = "canceled"
    /\ streamCtx' = how
    /\ UNCHANGED <<streamVars, taken, handler, recvCtx, worker, held, results, verdict, accepted>>

-----------------------------------------------------------------------------
(* The handler.                                                            *)

(* Mutant: the oneof is not looked at.                                     *)
AnyMessage(r, kind) == IF r.err # "nil" THEN "other" ELSE "ok"

(* The class of a message delivered where kind is wanted, or of an error:  *)
(* mapRPCError knows neither io.EOF nor a gRPC status.                     *)
Classify(r, kind) ==
    IF r.err # "nil" THEN "other"
    ELSE IF sent[r.at] # kind THEN "invalid"
    ELSE "ok"

ReceivePayload ==
    /\ handler = "payload"
    /\ \E r \in RecvOutcomes :
        /\ Take(r)
        /\ IF Classify(r, "payload") = "ok"
           THEN handler' = "challenge" /\ UNCHANGED verdict
           ELSE handler' = "returned" /\ verdict' = Classify(r, "payload")
    /\ UNCHANGED <<streamVars, streamCtx, recvCtx, worker, held, results, accepted>>

(* The attempt ends before the challenge: claims refused, no VM, no nonce. *)
AttestFailsEarly ==
    /\ handler = "challenge"
    /\ handler' = "returned"
    /\ UNCHANGED <<streamVars, taken, streamCtx, recvCtx, worker, held, results, verdict, accepted>>

(* A failed Send is a status error, too.  On success ReceiveResponse       *)
(* starts its worker under a context derived from the stream's.            *)
SendChallenge ==
    /\ handler = "challenge"
    /\ \/ /\ handler' = "select"
          /\ recvCtx' = streamCtx
          /\ worker' = "recv"
          /\ UNCHANGED verdict
       \/ /\ streamCtx # "live"
          /\ handler' = "rest"
          /\ verdict' = "other"
          /\ UNCHANGED <<recvCtx, worker>>
    /\ UNCHANGED <<streamVars, taken, streamCtx, held, results, accepted>>

(* The challenge-response timeout passes, or the stream's end reaches the  *)
(* derived context.                                                        *)
RecvCtxEnds ==
    /\ recvCtx = "live"
    /\ \/ recvCtx' = "deadline"
       \/ streamCtx # "live" /\ recvCtx' = streamCtx
    /\ UNCHANGED <<streamVars, taken, streamCtx, handler, worker, held, results, verdict, accepted>>

(* ReceiveResponse returns and its context is released; the worker is not  *)
(* waited for.                                                             *)
ReturnResponse(class, at) ==
    /\ handler' = "rest"
    /\ recvCtx' = IF recvCtx = "live" THEN "canceled" ELSE recvCtx
    /\ verdict' = class
    /\ accepted' = IF class = "ok" THEN at ELSE 0
    /\ UNCHANGED <<streamVars, taken, streamCtx, worker, held>>

(* Mutant: the channel is read once more after the select gave up.         *)
SelectResultLate ==
    /\ handler \in {"select", "rest"}
    /\ results # <<>>
    /\ results' = <<>>
    /\ ReturnResponse(Classify(Head(results), "response"), Head(results).at)

SelectResult ==
    /\ handler = "select"
    /\ results # <<>>
    /\ results' = <<>>
    /\ ReturnResponse(Classify(Head(results), "response"), Head(results).at)

(* Mutant: no case for the challenge-response context.                     *)
SelectStreamOnly ==
    /\ handler = "select"
    /\ streamCtx # "live" /\ ReturnResponse(streamCtx, 0)
    /\ UNCHANGED results

SelectContext ==
    /\ handler = "select"
    /\ \E ctx \in {recvCtx, streamCtx} \ {"live"} : ReturnResponse(ctx, 0)
    /\ UNCHANGED results

(* Decoding, verifying, the cleanup, the attributes: Attest returns.       *)
RestOfAttest ==
    /\ handler = "rest"
    /\ handler' = "returned"
    /\ UNCHANGED <<streamVars, taken, streamCtx, recvCtx, worker, held, results, verdict, accepted>>

-----------------------------------------------------------------------------
(* The worker.                                                             *)

WorkerReceives ==
    /\ worker = "recv"
    /\ \E r \in RecvOutcomes : Take(r) /\ held' = r
    /\ worker' = "put"
    /\ UNCHANGED <<streamVars, streamCtx, handler, recvCtx, results, verdict, accepted>>

(* Mutant: an unbuffered channel needs the handler at the other end.       *)
UnbufferedRoom == handler = "select" /\ results = <<>>

ChannelRoom == results = <<>>

WorkerPuts ==
    /\ worker = "put"
    /\ ChannelRoom
    /\ results' = <<held>>
    /\ held' = None
    /\ worker' = "gone"
    /\ UNCHANGED <<streamVars, taken, streamCtx, handler, recvCtx, verdict, accepted>>

Handler ==
    \/ ReceivePayload \/ AttestFailsEarly \/ SendChallenge
    \/ SelectResult \/ SelectContext \/ RestOfAttest

Worker == WorkerReceives \/ WorkerPuts

Next ==
    \/ \E k \in Kinds : PeerSends(k)
    \/ PeerCloses
    \/ \E how \in ContextEnds : StreamEnds(how)
    \/ Handler
    \/ RecvCtxEnds
    \/ Worker

Spec == Init /\ [][Next]_vars

(* Goroutines run, the timer fires, and gRPC ends the stream of a handler  *)
(* that has returned.  Nothing is assumed of the peer.                     *)
Fairness ==
    /\ WF_vars(Handler)
    /\ WF_vars(Worker)
    /\ WF_vars(RecvCtxEnds)
    /\ WF_vars(handler = "returned" /\ StreamEnds("canceled"))

FairSpec == Spec /\ Fairness
-----------------------------------------------------------------------------
(* Properties.                                                             *)

(* What the exchange returned has a cause: an accepted response is the     *)
(* peer's second message and a challenge response; a context class is how  *)
(* one of the two contexts ended; InvalidArgument names a message of the   *)
(* wrong kind; any other failure is a half-close, or an ended stream that  *)
(* Recv or Send reported before a context case of the select was taken.    *)
VerdictExplained ==
    /\ accepted # 0 <=> verdict = "ok"
    /\ verdict = "ok" => accepted = 2 /\ sent[1] = "payload" /\ sent[2] = "response"
    /\ verdict = "deadline" => recvCtx = "deadline" \/ streamCtx = "deadline"
    /\ verdict = "canceled" => streamCtx = "canceled"
    /\ verdict = "invalid" => \/ taken >= 1 /\ sent[1] # "payload"
                              \/ taken >= 2 /\ sent[2] # "response"
    /\ verdict = "other" => halfClosed \/ streamCtx # "live"

(* What the exchange returned stands: a result that the worker puts after  *)
(* the timeout, the cancellation or the end of the stream won the select   *)
(* neither turns the failure into a response nor changes its class.        *)
VerdictStands ==
    [][verdict # "pending" => UNCHANGED <<verdict, accepted>>]_vars

(* mapRPCError's comment: "Context cancellation and deadlines keep their   *)
(* standard codes."  The stream's end alone would then never come out as   *)
(* Unknown; only the peer's half-close, an io.EOF, would.                  *)
CancellationKeepsItsCode == verdict = "other" => halfClosed

(* A handler that sent its challenge returns whatever the peer does: the   *)
(* select always has a case that becomes ready.                            *)
ReceiveReturns == handler = "select" ~> handler = "returned"

(* The worker never outlives its stream: neither a blocked Recv nor a put  *)
(* nobody reads keeps it once the handler has returned.                    *)
WorkerReleased == handler = "returned" ~> worker \in {"none", "gone"}
=============================================================================
