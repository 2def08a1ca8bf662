------------------------ MODULE ServerExchangeProofs ------------------------
(***************************************************************************)
(* For any number of messages: whatever an Attest stream's exchange        *)
(* returned has its cause in what the peer sent or in how a context ended. *)
(***************************************************************************)
EXTENDS ServerExchange, TLAPS

(* How far the handler has come, and with it the worker.                   *)
StageInv ==
    /\ handler \in {"payload", "challenge"} => worker = "none"
    /\ handler \in {"payload", "challenge", "select"} => verdict = "pending" /\ accepted = 0
    /\ handler = "payload" => taken = 0
    /\ handler = "challenge" => taken = 1 /\ sent[1] = "payload"
    /\ handler = "select" => /\ worker # "none"
                             /\ recvCtx # "none"
                             /\ recvCtx = "canceled" => streamCtx = "canceled"
    /\ verdict = "ok" => taken >= 2

(* The only Recv between the payload and the end of the stream is the      *)
(* worker's one.                                                           *)
WorkerInv ==
    /\ worker # "none" => taken >= 1 /\ sent[1] = "payload"
    /\ worker = "recv" => taken = 1
    /\ worker = "put" => held \in RecvResult
    /\ results # <<>> => worker = "gone"

(* A result the worker has, or has put, says what the stream was like, and *)
(* goes on being true of it.                                               *)
Genuine(r) ==
    /\ r.err = "nil" => r.at = 2 /\ taken >= 2
    /\ r.err = "eof" => halfClosed
    /\ r.err = "status" => streamCtx # "live"

ResultInv ==
    /\ worker = "put" => Genuine(held)
    /\ results # <<>> => Genuine(results[1])

ExchangeInv == ExchangeTypeOK /\ StageInv /\ WorkerInv /\ ResultInv /\ VerdictExplained

-----------------------------------------------------------------------------
(* The type of sent, as the sequence it is.                                *)
LEMMA SentSequence ==
    ASSUME NEW s
    PROVE  s \in UNION {[1 .. n -> Kinds] : n \in 0 .. MaxMessages}
             <=> s \in Seq(Kinds) /\ Len(s) <= MaxMessages
<1>1. ASSUME NEW n \in 0 .. MaxMessages, s \in [1 .. n -> Kinds]
      PROVE  s \in Seq(Kinds) /\ Len(s) <= MaxMessages
  BY <1>1, ExchangeAssumption
<1>2. ASSUME s \in Seq(Kinds), Len(s) <= MaxMessages
      PROVE  Len(s) \in 0 .. MaxMessages /\ s \in [1 .. Len(s) -> Kinds]
  BY <1>2, ExchangeAssumption
<1> QED
  BY <1>1, <1>2

(* The stream starts in the invariant.                                     *)
LEMMA ExchangeInit == Init => ExchangeInv
<1> SUFFICES ASSUME Init PROVE ExchangeInv
  OBVIOUS
<1>1. sent \in UNION {[1 .. n -> Kinds] : n \in 0 .. MaxMessages} /\ taken \in 0 .. Len(sent)
  <2>1. sent \in Seq(Kinds) /\ Len(sent) = 0 /\ taken = 0
    BY DEF Init
  <2> QED
    BY <2>1, SentSequence, ExchangeAssumption
<1>2. accepted \in 0 .. MaxMessages
  BY ExchangeAssumption DEF Init
<1>3. ExchangeTypeOK
  BY <1>1, <1>2, Zenon DEF Init, ExchangeTypeOK, Classes
<1> QED
  BY <1>3 DEF Init, ExchangeInv, StageInv, WorkerInv, ResultInv, VerdictExplained

(* The messages sent and taken stay what they are when the peer goes on.   *)
LEMMA PeerPreserves ==
    ASSUME ExchangeInv,
           (\E k \in Kinds : PeerSends(k)) \/ PeerCloses \/ (\E how \in ContextEnds : StreamEnds(how))
    PROVE  ExchangeInv'
<1> USE DEF ExchangeInv
<1>0. sent \in Seq(Kinds) /\ Len(sent) <= MaxMessages /\ taken \in Nat /\ taken <= Len(sent)
  BY SentSequence DEF ExchangeTypeOK
<1>1. ASSUME NEW k \in Kinds, PeerSends(k) PROVE ExchangeInv'
  <2>1. /\ sent' \in Seq(Kinds) /\ Len(sent') = Len(sent) + 1
        /\ \A i \in 1 .. Len(sent) : sent'[i] = sent[i]
        /\ Len(sent') <= MaxMessages
    BY <1>0, <1>1, ExchangeAssumption DEF PeerSends
  <2>2. ExchangeTypeOK'
    <3>1. sent' \in UNION {[1 .. n -> Kinds] : n \in 0 .. MaxMessages} /\ taken \in 0 .. Len(sent')
      BY <1>0, <2>1, SentSequence
    <3> QED
      BY <1>1, <3>1 DEF ExchangeTypeOK, PeerSends
  <2>3. /\ taken >= 1 => sent'[1] = sent[1]
        /\ taken >= 2 => sent'[2] = sent[2]
    BY <1>0, <2>1
  <2>4. StageInv' /\ WorkerInv' /\ ResultInv'
    BY <1>1, <2>3 DEF StageInv, WorkerInv, ResultInv, Genuine, PeerSends
  <2>5. VerdictExplained'
    BY <1>0, <1>1, <2>3 DEF StageInv, VerdictExplained, PeerSends
  <2> QED
    BY <2>2, <2>4, <2>5
<1>2. ASSUME PeerCloses PROVE ExchangeInv'
  BY <1>2 DEF PeerCloses, ExchangeTypeOK, StageInv, WorkerInv, ResultInv, Genuine, VerdictExplained
<1>3. ASSUME NEW how \in ContextEnds, StreamEnds(how) PROVE ExchangeInv'
  BY <1>3 DEF StreamEnds, streamVars, ContextEnds, ExchangeTypeOK, StageInv, WorkerInv, ResultInv, Genuine,
              VerdictExplained
<1> QED
  BY <1>1, <1>2, <1>3

(* A Recv that returns has delivered the next message, or has found the    *)
(* stream half-closed or ended.                                            *)
LEMMA RecvFacts ==
    ASSUME ExchangeTypeOK, NEW r \in RecvOutcomes, Take(r)
    PROVE  /\ r \in RecvResult
           /\ taken' \in 0 .. Len(sent)
           /\ r.err = "nil" => r.at = taken + 1 /\ taken' = taken + 1
           /\ r.err # "nil" => taken' = taken
           /\ r.err = "eof" => halfClosed
           /\ r.err = "status" => streamCtx # "live"
<1>0. sent \in Seq(Kinds) /\ Len(sent) <= MaxMessages /\ taken \in Nat /\ taken <= Len(sent)
  BY SentSequence DEF ExchangeTypeOK
<1>1. CASE \E n \in {taken + 1} \cap DOMAIN sent : r = [at |-> n, err |-> "nil"]
  BY <1>0, <1>1, ExchangeAssumption DEF Take, RecvResult
<1>2. CASE \E e \in {x \in {"eof"} : halfClosed /\ taken = Len(sent)} : r = [at |-> 0, err |-> e]
  BY <1>0, <1>2, ExchangeAssumption DEF Take, RecvResult
<1>3. CASE \E e \in {x \in {"status"} : streamCtx # "live"} : r = [at |-> 0, err |-> e]
  BY <1>0, <1>3, ExchangeAssumption DEF Take, RecvResult
<1> QED
  BY <1>1, <1>2, <1>3 DEF RecvOutcomes

(* The handler receives the payload itself: its verdict is about the first *)
(* message.                                                                *)
LEMMA PayloadPreserves ==
    ASSUME ExchangeInv, ReceivePayload
    PROVE  ExchangeInv'
<1> USE DEF ExchangeInv
<1>1. PICK r \in RecvOutcomes :
        /\ Take(r)
        /\ IF Classify(r, "payload") = "ok"
           THEN handler' = "challenge" /\ UNCHANGED verdict
           ELSE handler' = "returned" /\ verdict' = Classify(r, "payload")
  BY DEF ReceivePayload
<1>2. /\ r \in RecvResult
      /\ taken' \in 0 .. Len(sent)
      /\ r.err = "nil" => r.at = 1 /\ taken' = 1
      /\ r.err # "nil" => taken' = 0
      /\ r.err = "eof" => halfClosed
      /\ r.err = "status" => streamCtx # "live"
  BY <1>1, RecvFacts DEF StageInv, ReceivePayload
<1>3. \/ r.err = "nil" /\ sent[1] = "payload" /\ Classify(r, "payload") = "ok"
      \/ r.err = "nil" /\ sent[1] # "payload" /\ Classify(r, "payload") = "invalid"
      \/ r.err \in {"eof", "status"} /\ Classify(r, "payload") = "other"
  BY <1>2 DEF Classify, RecvResult
<1>4. ExchangeTypeOK'
  BY <1>1, <1>2, <1>3 DEF ReceivePayload, streamVars, ExchangeTypeOK, Classes
<1>5. StageInv' /\ WorkerInv' /\ ResultInv'
  BY <1>1, <1>2, <1>3 DEF ReceivePayload, streamVars, StageInv, WorkerInv, ResultInv
<1>6. VerdictExplained'
  BY <1>1, <1>2, <1>3 DEF ReceivePayload, streamVars, StageInv, VerdictExplained
<1> QED
  BY <1>4, <1>5, <1>6

(* The challenge is sent, or the stream has ended.                         *)
LEMMA ChallengePreserves ==
    ASSUME ExchangeInv, AttestFailsEarly \/ SendChallenge \/ RestOfAttest
    PROVE  ExchangeInv'
<1> USE DEF ExchangeInv, streamVars
<1>1. CASE AttestFailsEarly \/ RestOfAttest
  BY <1>1 DEF AttestFailsEarly, RestOfAttest, ExchangeTypeOK, StageInv, WorkerInv, ResultInv, Genuine,
              VerdictExplained
<1>2. CASE SendChallenge
  <2>1. ExchangeTypeOK'
    BY <1>2 DEF SendChallenge, ExchangeTypeOK, Classes
  <2>2. StageInv' /\ WorkerInv'
    BY <1>2 DEF SendChallenge, ExchangeTypeOK, StageInv, WorkerInv, ContextEnds
  <2>3. ResultInv' /\ VerdictExplained'
    BY <1>2 DEF SendChallenge, StageInv, WorkerInv, ResultInv, Genuine, VerdictExplained
  <2> QED
    BY <2>1, <2>2, <2>3
<1> QED
  BY <1>1, <1>2

(* The timeout passes or the stream's end arrives: a derived context is    *)
(* canceled only by its parent before ReceiveResponse returns.             *)
LEMMA ContextPreserves ==
    ASSUME ExchangeInv, RecvCtxEnds
    PROVE  ExchangeInv'
<1> USE DEF ExchangeInv, streamVars, RecvCtxEnds
<1>1. ExchangeTypeOK'
  BY DEF ExchangeTypeOK, ContextEnds
<1>2. StageInv' /\ WorkerInv' /\ ResultInv'
  BY DEF ExchangeTypeOK, ContextEnds, StageInv, WorkerInv, ResultInv, Genuine
<1>3. VerdictExplained'
  BY DEF VerdictExplained
<1> QED
  BY <1>1, <1>2, <1>3

(* ReceiveResponse returns the worker's result: it is about the second     *)
(* message.                                                                *)
LEMMA ResultPreserves ==
    ASSUME ExchangeInv, SelectResult
    PROVE  ExchangeInv'
<1> USE DEF ExchangeInv, streamVars
<1> DEFINE r == results[1]
           class == Classify(r, "response")
<1>1. r \in RecvResult /\ Head(results) = r /\ Genuine(r) /\ taken >= 1 /\ sent[1] = "payload"
  BY DEF SelectResult, ExchangeTypeOK, ResultInv, WorkerInv
<1>2. \/ r.err = "nil" /\ sent[2] = "response" /\ class = "ok"
      \/ r.err = "nil" /\ sent[2] # "response" /\ class = "invalid"
      \/ r.err \in {"eof", "status"} /\ class = "other"
  BY <1>1 DEF Classify, RecvResult, Genuine
<1>3. /\ handler' = "rest" /\ results' = <<>>
      /\ recvCtx' = IF recvCtx = "live" THEN "canceled" ELSE recvCtx
      /\ verdict' = class
      /\ accepted' = IF class = "ok" THEN r.at ELSE 0
      /\ UNCHANGED <<sent, halfClosed, taken, streamCtx, worker, held>>
  BY <1>1 DEF SelectResult, ReturnResponse
<1> HIDE DEF r, class
<1>4. ExchangeTypeOK'
  BY <1>1, <1>2, <1>3, ExchangeAssumption DEF ExchangeTypeOK, Classes, ContextEnds, RecvResult
<1>5. StageInv' /\ WorkerInv' /\ ResultInv'
  BY <1>1, <1>2, <1>3 DEF StageInv, WorkerInv, ResultInv, Genuine
<1>6. VerdictExplained'
  BY <1>1, <1>2, <1>3 DEF VerdictExplained, Genuine
<1> QED
  BY <1>4, <1>5, <1>6

(* ReceiveResponse returns with a context's end; a result put later stays  *)
(* in the channel.                                                         *)
LEMMA GiveUpPreserves ==
    ASSUME ExchangeInv, SelectContext
    PROVE  ExchangeInv'
<1> USE DEF ExchangeInv, streamVars
<1>1. PICK ctx \in {recvCtx, streamCtx} \ {"live"} : ReturnResponse(ctx, 0)
  BY DEF SelectContext
<1>2. /\ ctx \in ContextEnds
      /\ ctx = "deadline" => recvCtx = "deadline" \/ streamCtx = "deadline"
      /\ ctx = "canceled" => streamCtx = "canceled"
  BY DEF SelectContext, StageInv, ExchangeTypeOK, ContextEnds
<1>3. /\ handler' = "rest"
      /\ recvCtx' = IF recvCtx = "live" THEN "canceled" ELSE recvCtx
      /\ verdict' = ctx
      /\ accepted' = 0
      /\ UNCHANGED <<sent, halfClosed, taken, streamCtx, worker, held, results>>
  BY <1>1, <1>2 DEF SelectContext, ReturnResponse, ContextEnds
<1>4. ExchangeTypeOK'
  BY <1>2, <1>3, ExchangeAssumption DEF ExchangeTypeOK, Classes, ContextEnds
<1>5. StageInv' /\ WorkerInv' /\ ResultInv'
  BY <1>2, <1>3 DEF StageInv, WorkerInv, ResultInv, Genuine, ContextEnds
<1>6. VerdictExplained'
  BY <1>2, <1>3 DEF VerdictExplained, ContextEnds
<1> QED
  BY <1>4, <1>5, <1>6

(* The worker takes one message and puts one result, whether or not anyone *)
(* still waits for it.                                                     *)
LEMMA WorkerPreserves ==
    ASSUME ExchangeInv, Worker
    PROVE  ExchangeInv'
<1> USE DEF ExchangeInv, streamVars
<1>1. CASE WorkerReceives
  <2>1. PICK r \in RecvOutcomes : Take(r) /\ held' = r
    BY <1>1 DEF WorkerReceives
  <2>2. /\ held' \in RecvResult
        /\ taken' \in 0 .. Len(sent) /\ taken' >= 1 /\ taken' >= taken
        /\ held'.err = "nil" => held'.at = 2 /\ taken' >= 2
        /\ held'.err = "eof" => halfClosed
        /\ held'.err = "status" => streamCtx # "live"
    BY <1>1, <2>1, RecvFacts DEF WorkerInv, WorkerReceives
  <2>3. ExchangeTypeOK'
    BY <1>1, <2>2 DEF WorkerReceives, ExchangeTypeOK
  <2>4. StageInv' /\ WorkerInv' /\ ResultInv'
    BY <1>1, <2>2 DEF WorkerReceives, ExchangeTypeOK, StageInv, WorkerInv, ResultInv, Genuine
  <2>5. VerdictExplained'
    BY <1>1, <2>2 DEF WorkerReceives, ExchangeTypeOK, VerdictExplained, WorkerInv
  <2> QED
    BY <2>3, <2>4, <2>5
<1>2. CASE WorkerPuts
  <2>1. held \in RecvResult /\ Genuine(held) /\ results' = <<held>> /\ results'[1] = held
    BY <1>2 DEF WorkerPuts, WorkerInv, ResultInv
  <2>2. ExchangeTypeOK'
    BY <1>2, <2>1 DEF WorkerPuts, ExchangeTypeOK
  <2>3. StageInv' /\ WorkerInv' /\ ResultInv'
    BY <1>2, <2>1 DEF WorkerPuts, StageInv, WorkerInv, ResultInv, Genuine
  <2>4. VerdictExplained'
    BY <1>2 DEF WorkerPuts, VerdictExplained
  <2> QED
    BY <2>2, <2>3, <2>4
<1> QED
  BY <1>1, <1>2 DEF Worker

(* Every step of handler, worker, peer and gRPC keeps it.                  *)
LEMMA ExchangeStep == ExchangeInv /\ [Next]_vars => ExchangeInv'
<1> SUFFICES ASSUME ExchangeInv, [Next]_vars PROVE ExchangeInv'
  OBVIOUS
<1>1. CASE Handler
  BY <1>1, PayloadPreserves, ChallengePreserves, ResultPreserves, GiveUpPreserves DEF Handler
<1>2. CASE UNCHANGED vars
  BY <1>2 DEF vars, ExchangeInv, ExchangeTypeOK, StageInv, WorkerInv, ResultInv, Genuine, VerdictExplained
<1> QED
  BY <1>1, <1>2, PeerPreserves, ContextPreserves, WorkerPreserves DEF Next

(* So it holds throughout.                                                 *)
LEMMA ExchangeInvariance == Spec => []ExchangeInv
BY ExchangeInit, ExchangeStep, PTL DEF Spec

(* ReceiveResponse's channel of capacity one and its single worker: the    *)
(* channel never holds more than the one result.                           *)
THEOREM ExchangeTypes == Spec => []ExchangeTypeOK
<1>1. ExchangeInv => ExchangeTypeOK
  BY DEF ExchangeInv
<1> QED
  BY <1>1, ExchangeInvariance, PTL

(* Receive, ReceiveResponse and mapRPCError: however the peer, the timer,  *)
(* the worker and the select interleave, an accepted response is the       *)
(* peer's second message, and every failure is what it says it is.         *)
THEOREM ExchangeExplained == Spec => []VerdictExplained
<1>1. ExchangeInv => VerdictExplained
  BY DEF ExchangeInv
<1> QED
  BY <1>1, ExchangeInvariance, PTL

(* ReceiveResponse's one select: once it has returned, with whatever case  *)
(* won, nothing the worker puts and nothing the peer sends changes that.   *)
THEOREM ExchangeFinal == Spec => VerdictStands
<1>1. ExchangeInv /\ [Next]_vars =>
        [verdict # "pending" => UNCHANGED <<verdict, accepted>>]_vars
  <2> SUFFICES ASSUME ExchangeInv, Next, verdict # "pending"
               PROVE  UNCHANGED <<verdict, accepted>>
    OBVIOUS
  <2>1. handler \notin {"payload", "challenge", "select"}
    BY DEF ExchangeInv, StageInv
  <2>2. CASE Handler
    BY <2>1, <2>2 DEF Handler, ReceivePayload, AttestFailsEarly, SendChallenge, SelectResult,
                      SelectContext, RestOfAttest
  <2>3. CASE ~Handler
    BY <2>3 DEF Next, PeerSends, PeerCloses, StreamEnds, RecvCtxEnds, Worker, WorkerReceives, WorkerPuts
  <2> QED
    BY <2>2, <2>3
<1> QED
  BY <1>1, ExchangeInvariance, PTL DEF Spec, VerdictStands
=============================================================================
