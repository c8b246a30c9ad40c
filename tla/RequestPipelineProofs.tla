----------------------- MODULE RequestPipelineProofs -----------------------
(***************************************************************************)
(* Proofs about the request pipeline for every value of its constants.     *)
(* PipelineInv is inductive; the type invariant and the safety properties  *)
(* it contains follow.  The lemmas go up the call structure of the code:   *)
(* what an await needs, then Send, Forward, Clear, Scan and Answer, then   *)
(* the handlers.                                                           *)
(***************************************************************************)
EXTENDS RequestPipeline, SequenceLemmas

(* A helper of the specification ends the step at an await with a request  *)
(* and a history for which the invariant holds.                            *)
Settled(r) ==
  \E q \in RequestType, h \in HistoryType : Await(r, q, h) /\ RequestInv(q, h)

\* While a model is left, NextModel picks one that was not tried.
LEMMA NextModelType ==
  ASSUME NEW q \in RequestType, Remaining(q) # {}
  PROVE  NextModel(q) \in Models /\ NextModel(q) \notin q.tried /\ q.order # <<>>
<1>1. q.order \in Seq(Models)
  BY DEF RequestType
<1>2. Remaining(q) \in SUBSET Nat /\ Remaining(q) \subseteq DOMAIN q.order
  BY <1>1 DEF Remaining
<1>3. (CHOOSE i \in Remaining(q) : \A j \in Remaining(q) : i <= j) \in Remaining(q)
  BY <1>2, LeastPosition
<1>4. NextModel(q) \in Models
  BY <1>1, <1>2, <1>3 DEF NextModel
<1>5. \A i \in Remaining(q) : q.order[i] \notin q.tried /\ q.order # <<>>
  BY <1>1 DEF Remaining
<1> QED
  BY <1>3, <1>4, <1>5 DEF NextModel

\* While nothing was billed, the accounts of a request without an answer agree.
LEMMA NothingCounted ==
  ASSUME NEW q, NEW h, h.usage = <<>>, q.pc # "scanResp",
         q.result \notin {"served", "response_blocked", "hit"}
  PROVE  Counted(q, h)
BY DEF Counted

\* A request for which nothing was billed may end without an answer.
LEMMA NothingEnds ==
  ASSUME NEW q \in RequestType, NEW h, h.usage = <<>>,
         NEW result \in Results \ {"served", "hit", "response_blocked"}
  PROVE  Counted([q EXCEPT !.pc = "done", !.result = result], h)
<1> DEFINE done == [q EXCEPT !.pc = "done", !.result = result]
<1>1. done.pc = "done" /\ done.result = result
  BY DEF RequestType
<1> HIDE DEF done
<1>2. Counted(done, h)
  BY <1>1, NothingCounted
<1> QED
  BY <1>2 DEF done

(* What a helper of the specification may count on when it is called.      *)
Running(q, h) ==
  /\ q \in RequestType
  /\ h \in HistoryType
  /\ q.result = "none"
  /\ \A b \in h.forwarded : Covered(b, h)
  /\ SentOnce(q, h)

\* Sending a covered body, the first for its model.
LEMMA SendSettles ==
  ASSUME NEW r \in Requests, NEW q, NEW h, Running(q, h),
         q.body \in Body, Covered(q.body, h), Routed(q, q.body), Unsent(q.body, h),
         Send(r, q, h)
  PROVE  Settled(r)
<1> DEFINE q1 == [q EXCEPT !.pc = "upstream"]
           h1 == [h EXCEPT !.forwarded = @ \cup {q.body}, !.wire = q.body,
                           !.resent = @ \/ \E b \in h.forwarded : b.model = q.body.model]
<1>1. q1 \in RequestType
  BY DEF Running, RequestType, Waiting
<1>2. h1 \in HistoryType
  BY DEF Running, HistoryType
<1>3. Traced(q1, h1)
  <2>1. /\ q1.pc = "upstream" /\ q1.result = "none" /\ q1.body = q.body
        /\ q1.header = q.header /\ q1.mode = q.mode /\ q1.target = q.target
        /\ q1.order = q.order /\ q1.tried = q.tried
    BY DEF Running, RequestType
  <2>2. /\ h1.usage = <<>> /\ h1.forwarded = h.forwarded \cup {q.body}
        /\ h1.resent = (h.resent \/ \E b \in h.forwarded : b.model = q.body.model)
    BY DEF Running, HistoryType, Unsent
  <2>3. Routed(q1, q1.body)
    BY <2>1 DEF Routed
  <2>4. SentOnce(q1, h1)
    BY <2>1, <2>2 DEF Running, SentOnce, Routed, Unsent
  <2>5. Counted(q1, h1)
    BY <2>1, <2>2, NothingCounted
  <2> QED
    BY <2>1, <2>2, <2>3, <2>4, <2>5 DEF Traced
<1>4. RequestInv(q1, h1)
  BY <1>3, NoneAssumption
  DEF Running, RequestInv, Prepared, Covered, Answered, RequestType, HistoryType, Waiting
<1>5. Await(r, q1, h1)
  BY DEF Send
<1> QED
  BY <1>1, <1>2, <1>4, <1>5 DEF Settled

\* _forward up to its first await, with a covered body.
LEMMA ForwardSettles ==
  ASSUME NEW r \in Requests, NEW q, NEW h, Running(q, h),
         q.body \in Body, Covered(q.body, h), Routed(q, q.body), h.usage = <<>>,
         h.forwarded = {}, h.wire = None,
         Forward(r, q, h)
  PROVE  Settled(r)
<1> DEFINE keyed == [q EXCEPT !.key = CacheKey(q.body)]
           q1 == [keyed EXCEPT !.pc = "lookup"]
<1>1. CacheKey(q.body) \in {q.body, None}
  BY DEF CacheKey, ComputeKey
<1>2. keyed \in RequestType /\ keyed.body = q.body /\ keyed.result = "none"
  BY <1>1 DEF Running, RequestType
<1>3. Routed(keyed, keyed.body) /\ SentOnce(keyed, h) /\ Unsent(q.body, h)
  BY <1>1 DEF Running, RequestType, Routed, SentOnce, Unsent
<1>4. CASE keyed.key # None /\ ~broken
  <2>1. Await(r, q1, h)
    BY <1>4 DEF Forward
  <2>2. q1 \in RequestType
    <3> HIDE DEF keyed
    <3> QED
      BY <1>2 DEF RequestType, Waiting
  <2>3. q1.key = q1.body
    BY <1>1, <1>2, <1>4 DEF RequestType, Running
  <2>4. Traced(q1, h)
    <3>1. /\ q1.pc = "lookup" /\ q1.result = "none" /\ q1.body = keyed.body
          /\ q1.header = keyed.header /\ q1.mode = keyed.mode
          /\ q1.target = keyed.target /\ q1.order = keyed.order /\ q1.tried = keyed.tried
      BY <1>2 DEF RequestType
    <3>2. Routed(q1, q1.body) /\ SentOnce(q1, h)
      BY <1>3, <3>1 DEF Routed, SentOnce
    <3>3. Counted(q1, h)
      BY <3>1, NothingCounted
    <3> QED
      BY <3>1, <3>2, <3>3 DEF Traced
  <2>5. RequestInv(q1, h)
    BY <1>2, <2>2, <2>3, <2>4, NoneAssumption
    DEF Running, RequestInv, Prepared, Answered, RequestType, Waiting
  <2> QED
    BY <2>1, <2>2, <2>5 DEF Settled, Running
<1>5. CASE ~(keyed.key # None /\ ~broken)
  <2>1. Send(r, keyed, h)
    BY <1>5 DEF Forward
  <2>2. Running(keyed, h)
    BY <1>3, <1>2 DEF Running
  <2> QED
    BY <1>3, <1>2, <2>1, <2>2, SendSettles
<1> QED
  BY <1>4, <1>5

\* Bytes to scan, for the first time or after a retry.
Scannable(q, h) ==
  /\ q.pc \in {"scan", "rescan"}
  /\ q.text \in Body
  /\ Routed(q, q.text)
  /\ Unsent(q.text, h)
  /\ q.pc = "scan" => h.forwarded = {} /\ h.wire = None

\* Letting the scanned bytes go, on grounds that hold.
LEMMA ClearSettles ==
  ASSUME NEW r \in Requests, NEW q, NEW h, Running(q, h), Scannable(q, h),
         NEW why \in {"passed", "empty", "scan_off", "fail_open"},
         Grounded([body |-> q.text, why |-> why]),
         Clear(r, q, h, why)
  PROVE  Settled(r)
<1> DEFINE c     == [body |-> q.text, why |-> why]
           known == [h EXCEPT !.cleared = @ \cup {c}]
           next  == [q EXCEPT !.body = q.text]
<1>1. /\ next \in RequestType
      /\ next.body = q.text
      /\ next.result = "none"
      /\ next.pc = q.pc
      /\ Routed(next, next.body)
      /\ next.order = q.order /\ next.tried = q.tried
  BY DEF Running, RequestType, Scannable, Routed
<1>2. /\ known \in HistoryType
      /\ known.forwarded = h.forwarded
      /\ known.cleared = h.cleared \cup {c}
      /\ known.usage = h.usage /\ known.wire = h.wire /\ known.resent = h.resent
  BY DEF Running, HistoryType, Scannable
<1>3. \A b : Covered(b, h) => Covered(b, known)
  BY <1>2 DEF Covered
<1>4. Covered(next.body, known)
  BY <1>1, <1>2 DEF Covered
<1>5. Running(next, known)
  BY <1>1, <1>2, <1>3 DEF Running, SentOnce
<1>6. next.body \in Body /\ Unsent(next.body, known)
  BY <1>1, <1>2 DEF Scannable, Unsent
<1>7. CASE q.pc = "rescan"
  BY <1>1, <1>4, <1>5, <1>6, <1>7, SendSettles DEF Clear
<1>8. CASE q.pc = "scan"
  <2>1. known.forwarded = {} /\ known.wire = None /\ known.usage = <<>>
    BY <1>2, <1>8 DEF Scannable, Unsent
  <2> QED
    BY <1>1, <1>4, <1>5, <1>6, <1>8, <2>1, ForwardSettles DEF Clear
<1> QED
  BY <1>7, <1>8 DEF Scannable

\* _scan_request up to its await, from process() or from a retry.
LEMMA ScanSettles ==
  ASSUME NEW r \in Requests, NEW q, NEW h, Running(q, h),
         Relaxations(cfg) \subseteq relaxed,
         Scannable(q, h),
         q.pc = "rescan" => q.body \in Body,
         Scan(r, q, h)
  PROVE  Settled(r)
<1>1. CASE cfg.scan /\ q.text.prompt \notin Empty
  <2>1. Await(r, q, h)
    BY <1>1 DEF Scan
  <2>2. Traced(q, h)
    <3>1. Counted(q, h)
      BY NothingCounted DEF Running, Scannable, Unsent
    <3> QED
      BY <3>1 DEF Traced, Running, Scannable, Answered
  <2>3. RequestInv(q, h)
    BY <2>2, NoneAssumption DEF Running, Scannable, RequestInv, Prepared, Answered, Waiting
  <2> QED
    BY <2>1, <2>3 DEF Settled, Running
<1>2. CASE cfg.scan /\ q.text.prompt \in Empty
  <2>1. Clear(r, q, h, "empty")
    BY <1>2 DEF Scan
  <2>2. Grounded([body |-> q.text, why |-> "empty"])
    BY <1>2 DEF Grounded
  <2> QED
    BY <2>1, <2>2, ClearSettles
<1>3. CASE ~cfg.scan
  <2>1. Clear(r, q, h, "scan_off")
    BY <1>3 DEF Scan
  <2>2. Grounded([body |-> q.text, why |-> "scan_off"])
    BY <1>3 DEF Grounded, Relaxations
  <2> QED
    BY <2>1, <2>2, ClearSettles
<1> QED
  BY <1>1, <1>2, <1>3

\* A response that answers the bytes of its request and may be served.
Serving(q, h) ==
  /\ Running(q, h)
  /\ q.pc \in {"scanHit", "scanResp"}
  /\ q.body \in Body
  /\ q.resp \in Response
  /\ q.resp.to = q.body
  /\ Routed(q, q.body)
  /\ q.pc = "scanHit" => h.wire = None /\ h.usage = <<>>
  /\ q.pc = "scanResp" => h.wire # None
  /\ Counted(q, h)

\* Every pending store answers its own key.
StoresKept ==
  /\ stores \in SUBSET [key : Body, entry : Response]
  /\ \A s \in stores : s.entry.to = s.key

\* Serving a response, on grounds that hold.
LEMMA AnswerSettles ==
  ASSUME NEW r \in Requests, NEW q, NEW h, Serving(q, h), StoresKept, UNCHANGED relaxed,
         NEW why \in {"passed", "timed_out", "not_text", "response_scan_off"},
         why = "not_text" => ~q.resp.text,
         why = "response_scan_off" => why \in relaxed,
         Answer(r, q, h, why)
  PROVE  Settled(r) /\ StoresKept'
<1> USE DEF Serving, Running
<1> DEFINE v      == [resp |-> q.resp, why |-> why]
           vetted == [h EXCEPT !.vetted = {v}]
           hit    == [vetted EXCEPT !.usage = Append(@, Saved)]
           done(result) == [q EXCEPT !.pc = "done", !.result = result]
<1>1. /\ vetted \in HistoryType
      /\ vetted.vetted = {v}
      /\ vetted.forwarded = h.forwarded
      /\ vetted.cleared = h.cleared
      /\ vetted.resent = h.resent /\ vetted.wire = h.wire /\ vetted.usage = h.usage
  BY DEF HistoryType
<1>2. Saved \in [kind : {"billed", "saved"}, target : Models \cup {None},
                 mode : {"none", "dry_run", "applied"}]
  BY DEF Saved
<1>3. /\ hit \in HistoryType
      /\ hit.vetted = {v}
      /\ hit.forwarded = h.forwarded
      /\ hit.cleared = h.cleared
      /\ hit.resent = h.resent /\ hit.wire = h.wire /\ hit.usage = Append(h.usage, Saved)
  <2>1. Append(vetted.usage, Saved)
          \in Seq([kind : {"billed", "saved"}, target : Models \cup {None},
                   mode : {"none", "dry_run", "applied"}])
    BY <1>1, <1>2, AppendProperties DEF HistoryType
  <2> QED
    BY <1>1, <2>1 DEF HistoryType
<1>4. ASSUME NEW result \in {"served", "hit"},
             NEW g \in HistoryType, g.vetted = {v}, g.forwarded = h.forwarded,
             g.cleared = h.cleared, g.resent = h.resent, Counted(done(result), g)
      PROVE  done(result) \in RequestType /\ RequestInv(done(result), g)
  <2>1. /\ done(result) \in RequestType
        /\ done(result).resp = q.resp
        /\ done(result).body = q.body
        /\ done(result).pc = "done"
        /\ SentOnce(done(result), g)
        /\ Routed(done(result), done(result).body)
    BY <1>4 DEF RequestType, Results, SentOnce, Routed
  <2>2. Vetted(q.resp, g)
    BY <1>4 DEF Vetted
  <2>3. \A b \in g.forwarded : Covered(b, g)
    BY <1>4 DEF Covered
  <2>4. Traced(done(result), g)
    BY <1>4, <2>1 DEF Traced, Waiting
  <2> QED
    BY <2>1, <2>2, <2>3, <2>4 DEF RequestInv, Prepared, Waiting
<1>5. CASE q.pc = "scanHit"
  <2>1. Await(r, done("hit"), hit) /\ UNCHANGED stores
    BY <1>5 DEF Answer, End
  <2>2. hit.usage = <<Saved>> /\ hit.wire = None
    <3> HIDE DEF hit
    <3>1. hit.usage = Append(<<>>, Saved)
      BY <1>3, <1>5
    <3> QED
      BY <3>1, <1>3, <1>5
  <2>3. done("hit").pc = "done" /\ done("hit").result = "hit"
    BY DEF RequestType
  <2>4. Counted(done("hit"), hit)
    <3> HIDE DEF hit, done
    <3> QED
      BY <2>2, <2>3 DEF Counted, Saved
  <2> QED
    BY <1>3, <1>4, <2>1, <2>4 DEF Settled, StoresKept
<1>6. CASE q.pc = "scanResp"
  <2>1. Await(r, done("served"), vetted)
    BY <1>6 DEF Answer, End
  <2>2. stores' \subseteq stores \cup {[key |-> q.body, entry |-> q.resp]}
    BY <1>6 DEF Answer, StoreKey, ComputeKey
  <2>3. StoresKept'
    BY <2>2 DEF StoresKept
  <2>4. /\ done("served").pc = "done" /\ done("served").result = "served"
        /\ done("served").resp = q.resp
    BY DEF RequestType
  <2>5. Counted(done("served"), vetted)
    <3> HIDE DEF vetted, done
    <3> QED
      BY <1>1, <1>6, <2>4 DEF Counted
  <2>6. Settled(r)
    BY <1>1, <1>4, <2>1, <2>5 DEF Settled
  <2> QED
    BY <2>3, <2>6
<1> QED
  BY <1>5, <1>6

\* _scan_response up to its await, for a provider's answer or a cache hit.
LEMMA ScanResponseSettles ==
  ASSUME NEW r \in Requests, NEW q, NEW h, Serving(q, h), StoresKept, UNCHANGED relaxed,
         Relaxations(cfg) \subseteq relaxed,
         ScanResponse(r, q, h)
  PROVE  Settled(r) /\ StoresKept'
<1>1. CASE cfg.respScan /\ q.resp.text
  <2>1. Await(r, q, h) /\ UNCHANGED stores
    BY <1>1 DEF ScanResponse
  <2>2. Traced(q, h)
    BY DEF Serving, Running, Traced
  <2>3. RequestInv(q, h)
    BY <2>2, NoneAssumption DEF Serving, Running, RequestInv, Prepared, Answered, Waiting
  <2> QED
    BY <2>1, <2>3 DEF Settled, StoresKept, Serving, Running
<1>2. CASE cfg.respScan /\ ~q.resp.text
  <2>1. Answer(r, q, h, "not_text")
    BY <1>2 DEF ScanResponse
  <2> QED
    BY <1>2, <2>1, AnswerSettles
<1>3. CASE ~cfg.respScan
  <2>1. Answer(r, q, h, "response_scan_off")
    BY <1>3 DEF ScanResponse
  <2>2. "response_scan_off" \in relaxed
    BY <1>3 DEF Relaxations
  <2> QED
    BY <2>1, <2>2, AnswerSettles
<1> QED
  BY <1>1, <1>2, <1>3

\* Ending a request without an answer from the provider.
LEMMA EndSettles ==
  ASSUME NEW r \in Requests, NEW q \in RequestType, NEW h \in HistoryType,
         \A b \in h.forwarded : Covered(b, h),
         NEW result \in Results \ {"served", "hit"},
         SentOnce(q, h), Counted([q EXCEPT !.pc = "done", !.result = result], h),
         End(r, q, h, result)
  PROVE  Settled(r)
<1> DEFINE done == [q EXCEPT !.pc = "done", !.result = result]
<1>1. /\ done \in RequestType
      /\ done.pc = "done"
      /\ done.result = result
      /\ SentOnce(done, h)
  BY DEF RequestType, SentOnce
<1>2. RequestInv(done, h)
  BY <1>1 DEF RequestInv, Prepared, Traced, Answered, Waiting
<1> QED
  BY <1>1, <1>2 DEF End, Settled

----------------------------------------------------------------------------
(* The handlers.                                                           *)

\* What the invariant says of a request, and of its helpers' needs.
LEMMA InvAtAwait ==
  ASSUME PipelineInv, NEW r \in Requests, req[r].pc \in Waiting
  PROVE  /\ Running(req[r], hist[r])
         /\ Prepared(req[r], hist[r])
         /\ Traced(req[r], hist[r])
         /\ Relaxations(cfg) \subseteq relaxed
         /\ StoresKept
  BY DEF PipelineInv, TypeOK, RequestInv, Prepared, Traced, Running, CacheHoldsOwnAnswers, StoresKept

\* A rewritten request keeps its type.
LEMMA RerouteType ==
  ASSUME NEW q \in RequestType, NEW b \in Body, NEW m \in Models
  PROVE  /\ Reroute(q, b, m) \in RequestType
         /\ Reroute(q, b, m).text \in Body
         /\ Reroute(q, b, m).pc = q.pc
         /\ Reroute(q, b, m).body = q.body
         /\ Reroute(q, b, m).result = q.result
         /\ Reroute(q, b, m).target = q.target
         /\ Reroute(q, b, m).text.model = m
         /\ Reroute(q, b, m).header = m
         /\ Reroute(q, b, m).tried = q.tried \cup {m}
         /\ Reroute(q, b, m).order = q.order
         /\ Reroute(q, b, m).mode = q.mode
<1>1. [b EXCEPT !.model = m] \in Body /\ [b EXCEPT !.model = m].model = m
  BY DEF Body
<1> QED
  BY <1>1 DEF Reroute, RequestType

\* select_route offers concrete models only.
LEMMA CandidatesType ==
  ASSUME TypeOK, NEW b \in Body, b.model \in Tasks, HasRoute(b)
  PROVE  Candidates(b) \in Seq(Models) /\ Candidates(b) # <<>>
<1>1. cfg.routing.tasks[b.model] \in Route
  BY DEF TypeOK, Config, Routing, HasRoute
<1> QED
  BY <1>1, ConcatProperties DEF Candidates, HasRoute, Route

\* A request that has not been scanned yet is admitted.
LEMMA AdmitSettles ==
  ASSUME NEW r \in Requests, NEW q \in RequestType, q.text \in Body, q.result = "none",
         Routed(q, q.text), Relaxations(cfg) \subseteq relaxed, Admit(r, q)
  PROVE  Settled(r)
<1> DEFINE text == Marked(q.text)
           q1   == [q EXCEPT !.pc = "scan", !.text = text]
<1>1. text \in Body
  BY Zenon DEF Body, Marked
<1>2. text.model = q.text.model
  BY DEF Body, Marked
<1>3. /\ q1 \in RequestType
      /\ q1.pc = "scan"
      /\ q1.text = text
      /\ q1.result = "none"
      /\ q1.order = q.order
      /\ Routed(q1, text)
  BY <1>2, <1>1 DEF RequestType, Waiting, Routed
<1>4. /\ NoHistory \in HistoryType /\ NoHistory.forwarded = {} /\ NoHistory.wire = None
      /\ NoHistory.usage = <<>> /\ NoHistory.resent = FALSE
  BY DEF NoHistory, HistoryType
<1>5. Running(q1, NoHistory) /\ Scannable(q1, NoHistory)
  <2> HIDE DEF q1, text
  <2> QED
    BY <1>1, <1>3, <1>4 DEF Running, SentOnce, Scannable, Unsent
<1>6. Scan(r, q1, NoHistory)
  BY DEF Admit
<1> QED
  BY <1>1, <1>3, <1>5, <1>6, ScanSettles

\* What every step of a request does to the shared state.
Kept ==
  /\ StoresKept'
  /\ broken' \in BOOLEAN
  /\ UNCHANGED <<cfg, cache, pushes, relaxed>>

\* A step that touches nothing shared keeps it.
LEMMA UntouchedKept == ASSUME PipelineInv, Untouched PROVE Kept /\ UNCHANGED relaxed
  BY DEF PipelineInv, TypeOK, CacheHoldsOwnAnswers, StoresKept, Untouched, Kept

\* A free slot and an empty history have their types.
LEMMA IdleType ==
  /\ Idle \in RequestType
  /\ Idle.result = "none" /\ Idle.header = None /\ Idle.mode = "none"
  /\ Idle.order = <<>> /\ Idle.tried = {}
  /\ NoHistory \in HistoryType
  /\ NoHistory.forwarded = {} /\ NoHistory.resent = FALSE /\ NoHistory.usage = <<>>
<1>1. <<>> \in Seq(Models)
  OBVIOUS
<1> QED
  BY <1>1 DEF Idle, NoHistory, RequestType, HistoryType, Results

\* Whatever routing makes of an arriving body, process() settles at an await or
\* an answer.
LEMMA ArrivalSettles ==
  ASSUME PipelineInv, NEW r \in Requests, NEW b \in Inputs,
         \/ ArriveRejected(r, b) \/ ArriveAliased(r, b)
         \/ ArriveDowngraded(r, b) \/ ArrivePlain(r, b)
  PROVE  Settled(r) /\ Kept
<1>1. b \in Body /\ TypeOK /\ Relaxations(cfg) \subseteq relaxed
  BY BodyAssumption DEF PipelineInv
<1>2. CASE ArriveRejected(r, b)
  <2>1. End(r, Idle, NoHistory, "rejected")
    BY <1>2 DEF ArriveRejected
  <2>2. "rejected" \in Results \ {"served", "hit"}
    BY DEF Results
  <2> DEFINE done == [Idle EXCEPT !.pc = "done", !.result = "rejected"]
  <2>3. done.pc = "done" /\ done.result = "rejected"
    BY DEF Idle
  <2>4. SentOnce(Idle, NoHistory) /\ Counted(done, NoHistory)
    <3> HIDE DEF done
    <3> QED
      BY <2>3, IdleType, NothingCounted DEF SentOnce
  <2>5. Settled(r)
    BY <2>1, <2>2, <2>4, IdleType, EndSettles
  <2> QED
    BY <1>2, <2>5, UntouchedKept DEF ArriveRejected
<1>3. CASE ArriveAliased(r, b)
  <2> DEFINE q  == [Idle EXCEPT !.order = Candidates(b)]
             m  == NextModel(q)
             q1 == [Reroute(q, b, m) EXCEPT !.target = m, !.mode = "applied"]
  <2>1. Candidates(b) \in Seq(Models) /\ Candidates(b) # <<>>
    BY <1>1, <1>3, CandidatesType DEF ArriveAliased, ResolvesAlias, IsAlias
  <2>2. q \in RequestType /\ q.order = Candidates(b) /\ q.tried = {} /\ q.result = "none"
    BY <2>1, IdleType DEF RequestType, Idle
  <2>3. 1 \in Remaining(q)
    BY <2>1, <2>2 DEF Remaining
  <2>4. m \in Models
    BY <2>2, <2>3, NextModelType
  <2>5. /\ Reroute(q, b, m) \in RequestType
        /\ Reroute(q, b, m).text \in Body
        /\ Reroute(q, b, m).result = "none"
        /\ Reroute(q, b, m).text.model = m
        /\ Reroute(q, b, m).header = m
        /\ m \in Reroute(q, b, m).tried
    <3> HIDE DEF m, q
    <3> QED
      BY <1>1, <2>2, <2>4, RerouteType
  <2>6. q1 \in RequestType /\ q1.text \in Body /\ q1.result = "none" /\ Routed(q1, q1.text)
    <3> HIDE DEF m, q
    <3>1. /\ q1 \in RequestType
          /\ q1.text = Reroute(q, b, m).text /\ q1.result = "none"
          /\ q1.header = m /\ q1.mode = "applied" /\ q1.target = m
          /\ m \in q1.tried
      BY <2>4, <2>5 DEF RequestType
    <3> HIDE DEF q1
    <3> QED
      BY <2>4, <2>5, <3>1, NoneAssumption DEF Routed
  <2>7. Admit(r, q1)
    BY <1>3 DEF ArriveAliased
  <2>8. Settled(r)
    BY <1>1, <2>6, <2>7, AdmitSettles
  <2> QED
    BY <1>3, <2>8, UntouchedKept DEF ArriveAliased
<1>4. CASE ArriveDowngraded(r, b)
  <2> DEFINE m  == cfg.routing.downgrades[b.model]
             q1 == [Idle EXCEPT !.text = b, !.target = m, !.mode = "dry_run"]
             q2 == [Reroute(Idle, b, m) EXCEPT !.target = m, !.mode = "applied"]
  <2>1. m \in Models
    BY <1>1, <1>4 DEF ArriveDowngraded, Downgradable, TypeOK, Config, Routing
  <2>2. q1 \in RequestType /\ q1.text \in Body /\ q1.result = "none" /\ Routed(q1, q1.text)
    <3>1. b \in Body
      BY <1>1
    <3> HIDE DEF m
    <3>2. Idle \in RequestType /\ Idle.header = None /\ Idle.order = <<>> /\ Idle.result = "none"
      BY IdleType
    <3>3. q1 \in RequestType
      <4> DEFINE i == Idle
      <4>1. i \in RequestType
        BY <3>2
      <4> HIDE DEF i
      <4>2. [i EXCEPT !.text = b, !.target = m, !.mode = "dry_run"] \in RequestType
        BY <2>1, <3>1, <4>1 DEF RequestType
      <4> QED
        BY <4>2 DEF i
    <3>4. /\ q1.text = b /\ q1.result = "none"
          /\ q1.header = None /\ q1.mode = "dry_run" /\ q1.order = <<>>
      BY <3>2 DEF RequestType
    <3> HIDE DEF q1
    <3> QED
      BY <3>1, <3>3, <3>4 DEF Routed
  <2>3. /\ Reroute(Idle, b, m) \in RequestType
        /\ Reroute(Idle, b, m).text \in Body
        /\ Reroute(Idle, b, m).result = "none"
        /\ Reroute(Idle, b, m).text.model = m
        /\ Reroute(Idle, b, m).header = m
        /\ Reroute(Idle, b, m).order = <<>>
    BY <1>1, <2>1, IdleType, RerouteType
  <2>4. q2 \in RequestType /\ q2.text \in Body /\ q2.result = "none" /\ Routed(q2, q2.text)
    <3> HIDE DEF m
    <3>1. /\ q2 \in RequestType /\ q2.text = Reroute(Idle, b, m).text /\ q2.result = "none"
          /\ q2.header = m /\ q2.mode = "applied" /\ q2.target = m /\ q2.order = <<>>
      BY <2>1, <2>3 DEF RequestType
    <3> HIDE DEF q2
    <3> QED
      BY <2>1, <2>3, <3>1, NoneAssumption DEF Routed
  <2>5. Admit(r, q1) \/ Admit(r, q2)
    BY <1>4 DEF ArriveDowngraded
  <2>6. Settled(r)
    BY <1>1, <2>2, <2>4, <2>5, AdmitSettles
  <2> QED
    BY <1>4, <2>6, UntouchedKept DEF ArriveDowngraded
<1>5. CASE ArrivePlain(r, b)
  <2> DEFINE q1 == [Idle EXCEPT !.text = b]
  <2>1. q1 \in RequestType /\ q1.text \in Body /\ q1.result = "none" /\ Routed(q1, q1.text)
    <3>1. /\ q1 \in RequestType /\ q1.text = b /\ q1.result = "none"
          /\ q1.header = None /\ q1.mode = "none" /\ q1.order = <<>>
      BY <1>1, IdleType DEF RequestType
    <3> HIDE DEF q1
    <3> QED
      BY <1>1, <3>1 DEF Routed
  <2>2. Admit(r, q1)
    BY <1>5 DEF ArrivePlain
  <2>3. Settled(r)
    BY <1>1, <2>1, <2>2, AdmitSettles
  <2> QED
    BY <1>5, <2>3, UntouchedKept DEF ArrivePlain
<1> QED
  BY <1>2, <1>3, <1>4, <1>5

\* What _scan_request does after its await, for every verdict, timeout and
\* failure mode.
LEMMA RequestScanSettles ==
  ASSUME PipelineInv, NEW r \in Requests,
         ScanPasses(r) \/ ScanBlocks(r) \/ ScanFails(r)
  PROVE  Settled(r) /\ Kept
<1>1. req[r].pc \in {"scan", "rescan"} /\ Untouched
  BY DEF ScanPasses, ScanBlocks, ScanFails
<1>2. /\ Running(req[r], hist[r])
      /\ Prepared(req[r], hist[r])
      /\ Relaxations(cfg) \subseteq relaxed
  BY <1>1, InvAtAwait DEF Waiting
<1>3. Scannable(req[r], hist[r])
  BY <1>1, <1>2, InvAtAwait DEF Running, RequestType, Prepared, Traced, Scannable, Waiting
<1>4. hist[r].usage = <<>> /\ SentOnce(req[r], hist[r])
  BY <1>3, <1>2 DEF Scannable, Unsent, Running
<1>5. req[r].pc = "rescan" => req[r].body \in Body
  BY <1>1, <1>2 DEF Running, RequestType, Prepared, Waiting
<1>6. CASE ScanPasses(r)
  <2>1. Clear(r, req[r], hist[r], "passed")
    BY <1>6 DEF ScanPasses
  <2>2. Grounded([body |-> req[r].text, why |-> "passed"])
    BY DEF Grounded
  <2> QED
    BY <1>1, <1>2, <1>3, <2>1, <2>2, ClearSettles, UntouchedKept
<1>7. CASE ScanBlocks(r)
  <2>1. "blocked" \in Results \ {"served", "hit", "response_blocked"}
    BY DEF Results
  <2>2. End(r, req[r], hist[r], "blocked")
    BY <1>7 DEF ScanBlocks
  <2> QED
    BY <1>4, <1>1, <1>2, <2>1, <2>2, NothingEnds, EndSettles, UntouchedKept DEF Running
<1>8. CASE ScanFails(r) /\ cfg.closed
  <2>1. "unavailable" \in Results \ {"served", "hit", "response_blocked"}
    BY DEF Results
  <2>2. End(r, req[r], hist[r], "unavailable")
    BY <1>8 DEF ScanFails
  <2> QED
    BY <1>4, <1>1, <1>2, <2>1, <2>2, NothingEnds, EndSettles, UntouchedKept DEF Running
<1>9. CASE ScanFails(r) /\ ~cfg.closed
  <2>1. Clear(r, req[r], hist[r], "fail_open")
    BY <1>9 DEF ScanFails
  <2>2. Grounded([body |-> req[r].text, why |-> "fail_open"])
    BY <1>2, <1>9 DEF Grounded, Relaxations
  <2> QED
    BY <1>1, <1>2, <1>3, <2>1, <2>2, ClearSettles, UntouchedKept
<1> QED
  BY <1>6, <1>7, <1>8, <1>9

\* What _forward does after the Redis lookup.
LEMMA LookupSettles ==
  ASSUME PipelineInv, NEW r \in Requests,
         LookupHits(r) \/ LookupMisses(r) \/ LookupFails(r)
  PROVE  Settled(r) /\ Kept
<1>1. req[r].pc = "lookup" /\ UNCHANGED <<cfg, cache, pushes, relaxed>> /\ broken' \in BOOLEAN
  BY DEF LookupHits, LookupMisses, LookupFails, Untouched, UntouchedButStores,
         PipelineInv, TypeOK
<1>2. /\ Running(req[r], hist[r])
      /\ Prepared(req[r], hist[r])
      /\ Relaxations(cfg) \subseteq relaxed
      /\ StoresKept
  BY <1>1, InvAtAwait DEF Waiting
<1>3. /\ req[r] \in RequestType
      /\ req[r].body \in Body
      /\ req[r].key = req[r].body
      /\ Covered(req[r].body, hist[r])
      /\ Routed(req[r], req[r].body)
      /\ hist[r].forwarded = {} /\ hist[r].wire = None /\ hist[r].usage = <<>>
  BY <1>1, <1>2, InvAtAwait DEF Running, RequestType, Prepared, Traced, Waiting
<1>4. CASE LookupHits(r)
  <2> DEFINE q == [req[r] EXCEPT !.pc = "scanHit", !.resp = cache[req[r].key]]
  <2>1. /\ cache[req[r].key] \in Response
        /\ cache[req[r].key].to = req[r].body
    BY <1>3, <1>4 DEF LookupHits, PipelineInv, TypeOK, CacheHoldsOwnAnswers
  <2>2. /\ q \in RequestType /\ q.pc = "scanHit" /\ q.result = "none" /\ q.body = req[r].body
        /\ q.resp = cache[req[r].key]
        /\ SentOnce(q, hist[r]) /\ Routed(q, q.body)
    <3>1. q \in RequestType
      <4> DEFINE v == cache[req[r].key]
                 o == req[r]
      <4>1. v \in Response /\ o \in RequestType
        BY <1>3, <2>1
      <4> HIDE DEF v, o
      <4>2. [o EXCEPT !.pc = "scanHit", !.resp = v] \in RequestType
        BY <4>1 DEF RequestType, Waiting
      <4> QED
        BY <4>2 DEF v, o
    <3>2. /\ q.pc = "scanHit" /\ q.result = req[r].result /\ q.body = req[r].body
          /\ q.resp = cache[req[r].key]
          /\ q.header = req[r].header /\ q.mode = req[r].mode /\ q.target = req[r].target
          /\ q.order = req[r].order /\ q.tried = req[r].tried
      BY <1>3 DEF RequestType
    <3>3. req[r].result = "none" /\ SentOnce(req[r], hist[r])
      BY <1>2 DEF Running
    <3> HIDE DEF q
    <3> QED
      BY <3>1, <3>2, <3>3, <1>3 DEF SentOnce, Routed
  <2>3. Counted(q, hist[r])
    BY <1>3, <2>2, NothingCounted
  <2>4. Serving(q, hist[r])
    <3> HIDE DEF q
    <3> QED
      BY <1>2, <1>3, <2>1, <2>2, <2>3 DEF Serving, Running
  <2>5. ScanResponse(r, q, hist[r])
    BY <1>4 DEF LookupHits
  <2> QED
    BY <1>1, <1>2, <2>5, <2>4, ScanResponseSettles DEF Kept
<1>5. CASE LookupMisses(r) \/ LookupFails(r)
  <2>1. Send(r, req[r], hist[r]) /\ UNCHANGED stores
    BY <1>5 DEF LookupMisses, LookupFails, Untouched
  <2> QED
    BY <1>1, <1>2, <1>3, <2>1, SendSettles DEF Kept, StoresKept, Unsent
<1> QED
  BY <1>4, <1>5

\* What _forward does after the upstream call: retry, answer or give up.
LEMMA UpstreamSettles ==
  ASSUME PipelineInv, NEW r \in Requests,
         UpstreamRetries(r) \/ UpstreamAnswers(r) \/ UpstreamFails(r)
  PROVE  Settled(r) /\ Kept
<1>1. req[r].pc = "upstream"
  BY DEF UpstreamRetries, UpstreamAnswers, UpstreamFails
<1>2. /\ Running(req[r], hist[r])
      /\ Prepared(req[r], hist[r])
      /\ Relaxations(cfg) \subseteq relaxed
      /\ StoresKept
      /\ TypeOK
  BY <1>1, InvAtAwait DEF Waiting, PipelineInv
<1>3. /\ req[r] \in RequestType
      /\ hist[r] \in HistoryType
      /\ req[r].body \in Body
      /\ hist[r].wire = req[r].body
      /\ req[r].result = "none"
      /\ Routed(req[r], req[r].body) /\ SentOnce(req[r], hist[r])
      /\ hist[r].usage = <<>>
  BY <1>1, <1>2, InvAtAwait DEF Running, RequestType, Prepared, Traced, Waiting
<1>4. CASE UpstreamRetries(r)
  <2> DEFINE m  == NextModel(req[r])
             q1 == Reroute(req[r], req[r].body, m)
             q2 == [q1 EXCEPT !.pc = "rescan", !.target = IF @ = None THEN None ELSE m]
  <2>1. m \in Models /\ m \notin req[r].tried /\ req[r].order # <<>>
    BY <1>3, <1>4, NextModelType DEF UpstreamRetries
  <2>2. /\ q1 \in RequestType
        /\ q1.text \in Body
        /\ q1.body = req[r].body
        /\ q1.result = "none"
        /\ q1.text.model = m /\ q1.header = m /\ q1.target = req[r].target
        /\ q1.tried = req[r].tried \cup {m} /\ q1.order = req[r].order
        /\ q1.mode = req[r].mode
    <3> HIDE DEF m
    <3> QED
      BY <1>3, <2>1, RerouteType
  <2>3. /\ q2 \in RequestType
        /\ q2.text \in Body
        /\ q2.body = req[r].body
        /\ q2.result = "none"
        /\ q2.pc = "rescan"
        /\ q2.text.model = m /\ q2.header = m
        /\ q2.target = IF req[r].target = None THEN None ELSE m
        /\ q2.tried = req[r].tried \cup {m} /\ q2.order = req[r].order
        /\ q2.mode = req[r].mode
    <3> HIDE DEF m, q1
    <3>1. q2 \in RequestType
      BY <2>1, <2>2 DEF RequestType, Waiting
    <3>2. /\ q2.text = q1.text /\ q2.body = q1.body /\ q2.result = q1.result
          /\ q2.pc = "rescan" /\ q2.header = q1.header
          /\ q2.target = IF q1.target = None THEN None ELSE m
          /\ q2.tried = q1.tried /\ q2.order = q1.order /\ q2.mode = q1.mode
      BY <2>2 DEF RequestType
    <3> HIDE DEF q2
    <3> QED
      BY <2>2, <3>1, <3>2
  <2>4. Running(q2, hist[r]) /\ Scannable(q2, hist[r])
    <3> HIDE DEF m, q2
    <3>1. SentOnce(q2, hist[r]) /\ Unsent(q2.text, hist[r])
      BY <1>3, <2>1, <2>3 DEF SentOnce, Unsent
    <3>2. Routed(q2, q2.text)
      BY <1>3, <2>1, <2>3, NoneAssumption DEF Routed
    <3> QED
      BY <1>2, <2>3, <3>1, <3>2 DEF Running, Scannable
  <2>5. Scan(r, q2, hist[r]) /\ Untouched
    BY <1>4 DEF UpstreamRetries, Retry
  <2>6. Settled(r)
    <3> HIDE DEF q2
    <3> QED
      BY <1>2, <1>3, <2>3, <2>4, <2>5, ScanSettles
  <2> QED
    BY <2>5, <2>6, UntouchedKept
<1>5. CASE UpstreamAnswers(r)
  <2>1. PICK status \in {"2xx", "4xx", "5xx"}, text \in BOOLEAN :
          ScanResponse(r,
            [req[r] EXCEPT !.pc = "scanResp",
                           !.resp = [to |-> hist[r].wire, status |-> status, text |-> text]],
            [hist[r] EXCEPT !.usage = @ \o
               (IF status = "2xx"
                THEN <<Billed([req[r] EXCEPT !.pc = "scanResp",
                         !.resp = [to |-> hist[r].wire, status |-> status, text |-> text]])>>
                ELSE <<>>)])
    BY <1>5 DEF UpstreamAnswers
  <2> DEFINE resp  == [to |-> hist[r].wire, status |-> status, text |-> text]
             q     == [req[r] EXCEPT !.pc = "scanResp", !.resp = resp]
             Item  == [kind : {"billed", "saved"}, target : Models \cup {None},
                       mode : {"none", "dry_run", "applied"}]
             bill  == IF status = "2xx" THEN <<Billed(q)>> ELSE <<>>
             h     == [hist[r] EXCEPT !.usage = @ \o bill]
  <2>2. resp \in Response /\ resp.to = req[r].body
    BY <1>3 DEF Response
  <2>3. /\ q \in RequestType
        /\ q.pc = "scanResp"
        /\ q.body = req[r].body
        /\ q.resp = resp
        /\ q.result = "none"
        /\ q.mode = req[r].mode /\ q.target = req[r].target
        /\ SentOnce(q, hist[r]) /\ Routed(q, q.body)
    <3>1. q \in RequestType
      <4> DEFINE o == req[r]
      <4>1. resp \in Response /\ o \in RequestType
        BY <1>3, <2>2
      <4> HIDE DEF resp, o
      <4>2. [o EXCEPT !.pc = "scanResp", !.resp = resp] \in RequestType
        BY <4>1 DEF RequestType, Waiting
      <4> QED
        BY <4>2 DEF o
    <3>2. /\ q.pc = "scanResp" /\ q.result = req[r].result /\ q.body = req[r].body
          /\ q.resp = resp
          /\ q.header = req[r].header /\ q.mode = req[r].mode /\ q.target = req[r].target
          /\ q.order = req[r].order /\ q.tried = req[r].tried
      BY <1>3 DEF RequestType
    <3>3. req[r].result = "none" /\ SentOnce(req[r], hist[r])
      BY <1>2 DEF Running
    <3> HIDE DEF q, resp
    <3> QED
      BY <1>3, <3>1, <3>2, <3>3 DEF SentOnce, Routed
  <2>4. Billed(q) \in Item
    BY <2>3 DEF Billed, RequestType
  <2>5. bill \in Seq(Item)
    <3> HIDE DEF Item, q
    <3>1. <<Billed(q)>> \in Seq(Item) /\ <<>> \in Seq(Item)
      BY <2>4
    <3> QED
      BY <3>1
  <2>6. hist[r].usage \o bill \in Seq(Item)
    BY <1>3, <2>5, ConcatProperties DEF HistoryType
  <2>7. /\ h \in HistoryType
        /\ h.forwarded = hist[r].forwarded
        /\ h.cleared = hist[r].cleared
        /\ h.resent = hist[r].resent /\ h.wire = hist[r].wire
        /\ h.usage = hist[r].usage \o bill
    BY <1>3, <2>6 DEF HistoryType
  <2>8. Running(q, h)
    <3> HIDE DEF q, h
    <3> QED
      BY <1>2, <2>3, <2>7 DEF Running, Covered, SentOnce
  <2>9. Counted(q, h)
    <3>1. resp.status = status /\ resp.to = req[r].body
      BY <1>3
    <3>2. h.usage = bill
      <4> HIDE DEF h, bill, q
      <4> QED
        BY <1>3, <2>5, <2>7
    <3>3. CASE status = "2xx"
      <4>1. h.usage = <<Billed(q)>>
        BY <3>2, <3>3
      <4> HIDE DEF q, h, resp
      <4>2. q.mode = "applied" => q.target = req[r].body.model
        BY <2>3, <1>3 DEF Routed
      <4> QED
        BY <1>3, <2>3, <2>7, <3>1, <3>3, <4>1, <4>2, NoneAssumption DEF Counted, Billed
    <3>4. CASE status # "2xx"
      <4>1. h.usage = <<>>
        BY <3>2, <3>4
      <4> HIDE DEF q, h, resp
      <4> QED
        BY <2>3, <3>1, <3>4, <4>1 DEF Counted
    <3> QED
      BY <3>3, <3>4
  <2>10. Serving(q, h)
    <3> HIDE DEF q, h, resp
    <3> QED
      BY <1>3, <2>2, <2>3, <2>7, <2>8, <2>9, NoneAssumption DEF Serving
  <2>11. ScanResponse(r, q, h)
    BY <2>1
  <2>12. UNCHANGED <<cfg, broken, cache, pushes, relaxed>>
    BY <1>5 DEF UpstreamAnswers, UntouchedButStores
  <2>13. Settled(r) /\ StoresKept'
    BY <1>2, <2>10, <2>11, <2>12, ScanResponseSettles
  <2> QED
    BY <1>2, <2>12, <2>13 DEF Kept, TypeOK
<1>6. CASE UpstreamFails(r)
  <2>1. PICK result \in {"upstream_error", "too_large", "escaped"} :
          End(r, req[r], hist[r], result)
    BY <1>6 DEF UpstreamFails
  <2>2. result \in Results \ {"served", "hit", "response_blocked"}
    BY <2>1 DEF Results
  <2> QED
    BY <1>2, <1>3, <1>6, <2>1, <2>2, NothingEnds, EndSettles, UntouchedKept
    DEF Running, UpstreamFails
<1> QED
  BY <1>4, <1>5, <1>6

\* What _scan_response does after its await, for an answer and for a hit.
LEMMA ResponseScanSettles ==
  ASSUME PipelineInv, NEW r \in Requests,
         ResponseScanPasses(r) \/ ResponseScanBlocks(r)
  PROVE  Settled(r) /\ Kept
<1>1. req[r].pc \in {"scanHit", "scanResp"}
  BY DEF ResponseScanPasses, ResponseScanBlocks
<1>2. /\ Running(req[r], hist[r])
      /\ Prepared(req[r], hist[r])
      /\ StoresKept
      /\ TypeOK
  BY <1>1, InvAtAwait DEF Waiting, PipelineInv
<1>3. CASE ResponseScanPasses(r)
  <2>1. PICK why \in {"passed", "timed_out"} : Answer(r, req[r], hist[r], why)
    BY <1>3 DEF ResponseScanPasses
  <2>2. UNCHANGED <<cfg, broken, cache, pushes, relaxed>>
    BY <1>3 DEF ResponseScanPasses, UntouchedButStores
  <2>3. Serving(req[r], hist[r])
    BY <1>1, <1>2, InvAtAwait DEF Serving, Running, RequestType, Prepared, Traced, Waiting
  <2>4. Settled(r) /\ StoresKept'
    BY <1>2, <2>1, <2>2, <2>3, AnswerSettles
  <2> QED
    BY <1>2, <2>2, <2>4 DEF Kept, TypeOK
<1>4. CASE ResponseScanBlocks(r)
  <2>1. "response_blocked" \in Results \ {"served", "hit"}
    BY DEF Results
  <2>2. End(r, req[r], hist[r], "response_blocked") /\ Untouched
    BY <1>4 DEF ResponseScanBlocks
  <2> DEFINE done == [req[r] EXCEPT !.pc = "done", !.result = "response_blocked"]
  <2>3. /\ done.pc = "done" /\ done.result = "response_blocked" /\ done.resp = req[r].resp
    BY <1>2 DEF Running, RequestType
  <2>4. Traced(req[r], hist[r]) /\ req[r].result = "none"
    BY <1>1, <1>2, InvAtAwait DEF Waiting, Running
  <2>5. Counted(done, hist[r])
    <3> HIDE DEF done
    <3> QED
      BY <1>1, <2>3, <2>4 DEF Counted, Traced
  <2> QED
    BY <1>2, <2>1, <2>2, <2>5, EndSettles, UntouchedKept DEF Running
<1> QED
  BY <1>3, <1>4

----------------------------------------------------------------------------
(* The invariant is inductive.                                             *)

\* A step of one request keeps the invariant of all of them.
LEMMA SettledKeepsInv ==
  ASSUME PipelineInv, NEW r \in Requests, Settled(r), Kept
  PROVE  PipelineInv'
<1>1. PICK q \in RequestType, h \in HistoryType : Await(r, q, h) /\ RequestInv(q, h)
  BY DEF Settled
<1>2. /\ req' = [req EXCEPT ![r] = q]
      /\ hist' = [hist EXCEPT ![r] = h]
      /\ relaxed' = relaxed
      /\ req \in [Requests -> RequestType]
      /\ hist \in [Requests -> HistoryType]
  BY <1>1 DEF Await, Kept, PipelineInv, TypeOK
<1>3. TypeOK'
  BY <1>2 DEF Kept, StoresKept, PipelineInv, TypeOK
<1>4. (Relaxations(cfg) \subseteq relaxed)' /\ CacheHoldsOwnAnswers'
  BY DEF Kept, StoresKept, PipelineInv, CacheHoldsOwnAnswers, Relaxations
<1>5. ASSUME NEW p \in Requests PROVE RequestInv(req[p], hist[p])'
  <2>1. CASE p = r
    <3>1. req'[p] = q /\ hist'[p] = h
      BY <1>2, <2>1
    <3> QED
      BY <1>1, <1>2, <3>1 DEF RequestInv, Prepared, Covered, Grounded, Answered, Vetted
  <2>2. CASE p # r
    <3>1. req'[p] = req[p] /\ hist'[p] = hist[p]
      BY <1>2, <2>2
    <3>2. RequestInv(req[p], hist[p])
      BY DEF PipelineInv
    <3> QED
      BY <1>2, <3>1, <3>2 DEF RequestInv, Prepared, Covered, Grounded, Answered, Vetted
  <2> QED
    BY <2>1, <2>2
<1> QED
  BY <1>3, <1>4, <1>5 DEF PipelineInv

\* A step of Redis, of a background task or of the control plane changes no
\* request and never forgets a protection that was off.
LEMMA RequestsUnchanged ==
  ASSUME PipelineInv, UNCHANGED <<req, hist>>, relaxed \subseteq relaxed'
  PROVE  (\A r \in Requests : RequestInv(req[r], hist[r]))'
<1> SUFFICES ASSUME NEW r \in Requests
             PROVE  RequestInv(req[r], hist[r])'
  OBVIOUS
<1>1. RequestInv(req[r], hist[r])
  BY DEF PipelineInv
<1>2. \A c : Grounded(c) => Grounded(c)'
  BY DEF Grounded
<1>3. \A b : Covered(b, hist[r]) => Covered(b, hist[r])'
  BY <1>2 DEF Covered
<1>4. Vetted(req[r].resp, hist[r]) => Vetted(req[r].resp, hist[r])'
  BY DEF Vetted
<1> QED
  BY <1>1, <1>3, <1>4 DEF RequestInv, Prepared, Answered

\* Stores, expiries and pushes keep the invariant.
LEMMA EnvironmentKeepsInv ==
  ASSUME PipelineInv, Environment
  PROVE  PipelineInv'
<1> USE DEF PipelineInv, TypeOK, CacheHoldsOwnAnswers
<1>1. ASSUME NEW s \in stores, StoreRuns(s) PROVE PipelineInv'
  <2>1. /\ UNCHANGED <<cfg, req, pushes, relaxed, hist>>
        /\ s \in [key : Body, entry : Response]
        /\ s.entry.to = s.key
        /\ stores' \subseteq stores
        /\ broken' \in BOOLEAN
    BY <1>1 DEF StoreRuns
  <2>2. cache' = cache \/ cache' = [cache EXCEPT ![s.key] = s.entry]
    BY <1>1 DEF StoreRuns
  <2>3. /\ cache' \in [Body -> Response \cup {None}]
        /\ \A b \in Body : cache'[b] # None => cache'[b].to = b
    BY <2>1, <2>2
  <2>4. (Relaxations(cfg) \subseteq relaxed)'
    BY <2>1 DEF Relaxations
  <2> QED
    BY <2>1, <2>3, <2>4, RequestsUnchanged
<1>2. ASSUME NEW b \in Body, Expires(b) PROVE PipelineInv'
  <2>1. /\ UNCHANGED <<cfg, req, broken, stores, pushes, relaxed, hist>>
        /\ cache' = [cache EXCEPT ![b] = None]
    BY <1>2 DEF Expires
  <2>2. (Relaxations(cfg) \subseteq relaxed)'
    BY <2>1 DEF Relaxations
  <2> QED
    BY <2>1, <2>2, RequestsUnchanged
<1>3. ASSUME NEW c \in Config, Applied(c) PROVE PipelineInv'
  <2>1. /\ UNCHANGED <<req, cache, broken, stores, hist>>
        /\ cfg' = c
        /\ pushes' \in 0 .. MaxPushes
    BY <1>3, ConfigAssumption DEF Applied
  <2>2. relaxed' = relaxed \cup Relaxations(c)
    BY <1>3 DEF Applied
  <2>3. (Relaxations(cfg) \subseteq relaxed)'
    BY <2>1, <2>2 DEF Relaxations
  <2>4. relaxed' \in SUBSET {"scan_off", "fail_open", "response_scan_off"}
    BY <2>2 DEF Relaxations
  <2> QED
    BY <2>1, <2>2, <2>3, <2>4, RequestsUnchanged
<1>4. ASSUME NEW f \in Pushable, PushFlag(f) PROVE PipelineInv'
  <2>1. [cfg EXCEPT ![f] = ~@] \in Config
    BY ConfigAssumption DEF Flags, Config
  <2> QED
    BY <1>3, <1>4, <2>1 DEF PushFlag
<1>5. ASSUME NEW c \in RoutingConfigs, PushRouting(c) PROVE PipelineInv'
  <2>1. [cfg EXCEPT !.routing = c] \in Config
    BY ConfigAssumption DEF Config
  <2> QED
    BY <1>3, <1>5, <2>1 DEF PushRouting
<1> QED
  BY <1>1, <1>2, <1>4, <1>5 DEF Environment

\* The proxy boots with nothing in flight and an empty cache.
LEMMA InitInv == Init => PipelineInv
<1> SUFFICES ASSUME Init PROVE PipelineInv
  OBVIOUS
<1>1. TypeOK
  <2>1. Relaxations(cfg) \in SUBSET {"scan_off", "fail_open", "response_scan_off"}
    BY DEF Relaxations
  <2>2. pushes \in 0 .. MaxPushes
    BY ConfigAssumption DEF Init
  <2>3. cfg \in Config
    BY ConfigAssumption DEF Init
  <2> QED
    BY <2>1, <2>2, <2>3, IdleType DEF Init, TypeOK
<1>2. \A r \in Requests : RequestInv(req[r], hist[r])
  <2>1. RequestInv(Idle, NoHistory)
    <3>1. Idle.pc = "idle" /\ Idle.result = "none" /\ Idle.order = <<>>
      BY DEF Idle
    <3>2. /\ NoHistory.forwarded = {} /\ NoHistory.resent = FALSE
          /\ NoHistory.usage = <<>>
      BY DEF NoHistory
    <3>3. Counted(Idle, NoHistory)
      BY <3>1, <3>2, NothingCounted
    <3> QED
      BY <3>1, <3>2, <3>3 DEF RequestInv, Prepared, Traced, SentOnce, Answered, Waiting
  <2> QED
    BY <2>1 DEF Init
<1> QED
  BY <1>1, <1>2 DEF Init, PipelineInv, CacheHoldsOwnAnswers

\* Every step keeps the invariant.
LEMMA NextInv == PipelineInv /\ [Next]_vars => PipelineInv'
<1> SUFFICES ASSUME PipelineInv, [Next]_vars PROVE PipelineInv'
  OBVIOUS
<1>1. ASSUME NEW r \in Requests, RequestStep(r) PROVE PipelineInv'
  <2>1. Settled(r) /\ Kept
    BY <1>1, ArrivalSettles, RequestScanSettles, LookupSettles, UpstreamSettles,
       ResponseScanSettles DEF RequestStep
  <2> QED
    BY <2>1, SettledKeepsInv
<1>2. CASE Environment
  BY <1>2, EnvironmentKeepsInv
<1>3. CASE UNCHANGED vars
  BY <1>3 DEF vars, PipelineInv, TypeOK, CacheHoldsOwnAnswers, Relaxations, RequestInv,
     Prepared, Covered, Grounded, Answered, Vetted
<1> QED
  BY <1>1, <1>2, <1>3 DEF Next

----------------------------------------------------------------------------
(* The theorems.                                                           *)

\* Every reachable state satisfies the inductive invariant.
THEOREM Invariance == Spec => []PipelineInv
  BY InitInv, NextInv, PTL DEF Spec

\* Every variable has its type, for every pool, table and interleaving.
THEOREM TypeCorrect == Spec => []TypeOK
<1>1. PipelineInv => TypeOK
  BY DEF PipelineInv
<1> QED
  BY <1>1, Invariance, PTL

\* No bytes reach a provider that the scanner did not let go, with any number
\* of requests in flight and any sequence of configuration pushes, except
\* through a protection that was switched off at some moment.
THEOREM ForwardsAreScanned == Spec => []ForwardedBytesWereScanned
<1>1. PipelineInv => ForwardedBytesWereScanned
  BY DEF PipelineInv, RequestInv, ForwardedBytesWereScanned
<1> QED
  BY <1>1, Invariance, PTL

\* No response, fresh or cached, is served past an installed response scanner.
THEOREM ServedAreScanned == Spec => []ServedResponsesWereScanned
<1>1. PipelineInv => ServedResponsesWereScanned
  BY DEF PipelineInv, RequestInv, ServedResponsesWereScanned
<1> QED
  BY <1>1, Invariance, PTL

\* No cache entry is ever served for a request it does not answer, whatever the
\* requests, fallbacks, stores and expiries that race on it.
THEOREM AnswersMatch == Spec => []AnswersMatchTheirRequests
<1>1. PipelineInv => AnswersMatchTheirRequests
  BY DEF PipelineInv, RequestInv, AnswersMatchTheirRequests
<1> QED
  BY <1>1, Invariance, PTL

\* No request sends the same model twice, however long its plan and however its
\* pool and fallback lists overlap: what was sent is what was tried.
THEOREM RetriesEnd == Spec => []EachModelTriedOnce
<1>1. PipelineInv => EachModelTriedOnce
  BY DEF PipelineInv, RequestInv, Traced, SentOnce, EachModelTriedOnce
<1> QED
  BY <1>1, Invariance, PTL

\* The header and the usage event of every answer name the model that produced
\* it, after any alias, downgrade, retry or cache hit, and usage is counted once.
THEOREM ProvenanceHolds == Spec => []ProvenanceTruthful
<1>1. ASSUME PipelineInv PROVE RoutedHeaderTruthful
  <2> SUFFICES ASSUME NEW r \in Requests, Answered(req[r])
               PROVE  /\ (req[r].header # None) <=> (req[r].mode = "applied")
                      /\ req[r].header # None => req[r].header = req[r].resp.to.model
    BY DEF RoutedHeaderTruthful
  <2>1. Routed(req[r], req[r].body) /\ req[r].resp.to = req[r].body
    BY <1>1 DEF PipelineInv, RequestInv, Traced
  <2> QED
    BY <2>1 DEF Routed
<1>2. PipelineInv => UsageReportedOnce
  BY DEF PipelineInv, RequestInv, Traced, UsageReportedOnce
<1>3. PipelineInv => ProvenanceTruthful
  BY <1>1, <1>2 DEF ProvenanceTruthful
<1> QED
  BY <1>3, Invariance, PTL
=============================================================================
