----------------------------- MODULE PipelineProofs -----------------------------
(***************************************************************************)
(* The safety of RequestPipeline, for any number of requests of any kind   *)
(* and any limit.                                                          *)
(*                                                                         *)
(* A step of one request leaves all that belongs to the others alone, so   *)
(* the invariant is about one request at a time: RequestInv says what each *)
(* stage may rely on.                                                      *)
(***************************************************************************)
EXTENDS RequestPipeline, TLAPS

Inside == {"limit", "route", "authenticate", "validate", "service", "complete"}
App == {"route", "authenticate", "validate", "service"}

OnlyWarnings(r) ==
    \A i \in DOMAIN records[r] :
        records[r][i].event = "warning" /\ records[r][i].id = requestId[r]

\* Contexts are those of the request, from the middleware to the application.
ContextInv(r) ==
    /\ stage[r] \in Inside => /\ context[<<r, "server">>] = requestId[r]
                              /\ context[<<r, "limit">>] = requestId[r]
    /\ stage[r] \in App => context[<<r, "app">>] = requestId[r]

\* What the stages that were passed have excluded.
PassedInv(r) ==
    /\ stage[r] \in Inside => input[r] \in Inputs
    /\ stage[r] \in App => ~TooLarge(input[r].declared)
    /\ stage[r] \in {"validate", "service"} => input[r].token = "valid"
    /\ stage[r] \notin {"complete", "done"} => reply[r] = None

\* What a reply may say.
ReplyInv(r) ==
    stage[r] \in {"complete", "done"} =>
        /\ input[r] \in Inputs
        /\ reply[r] = None => stage[r] = "complete" /\ input[r].token = "valid"
        /\ reply[r] # None /\ reply[r].status = 413 => TooLarge(input[r].declared)
        /\ reply[r] # None /\ input[r].token # "valid" /\ input[r].routed =>
               \/ reply[r].status \in {401, 413}
               \/ reply[r].status = 400 /\ input[r].body = "unreadable"
               \/ reply[r].status = 422 /\ input[r].body = "malformed"

\* The log of a request that was answered ends with its completion, and with the
\* unexpected exception if there was one.
Completed(log, status) ==
    \E n \in 1 .. Len(log) :
        /\ \A i \in 1 .. n - 1 : log[i].event = "warning"
        /\ log[n].event = "request_completed"
        /\ log[n].status = status
        /\ \A i \in n + 1 .. Len(log) : log[i].event = "unhandled_exception"

LogInv(r) ==
    /\ stage[r] = "idle" => records[r] = <<>>
    /\ stage[r] \in Inside => OnlyWarnings(r)
    /\ stage[r] = "done" =>
           /\ Completed(records[r], reply[r].status)
           /\ reply[r].id = requestId[r]
           /\ \A i \in DOMAIN records[r] :
                  \/ records[r][i].id = requestId[r]
                  \/ records[r][i].id = None /\ records[r][i].event = "unhandled_exception"

RequestInv(r) == ContextInv(r) /\ PassedInv(r) /\ ReplyInv(r) /\ LogInv(r)

PipelineInv == TypeOK /\ \A r \in Requests : RequestInv(r)

LEMMA InitPipelineInv == Init => PipelineInv
BY InputsAssumption, NoReplyAssumption, IdsAssumption
   DEF Init, PipelineInv, TypeOK, RequestInv, ContextInv, PassedInv, ReplyInv, LogInv, Inside,
       App, Stages, Tasks

Handled == DomainExceptions \union
              {"HTTPException 400", "HTTPException 404", "RequestValidationError"}

LEMMA ClientStatus ==
    /\ StatusCode("InvalidToken") = 401
    /\ StatusCode("HTTPException 400") = 400
    /\ StatusCode("RequestValidationError") = 422
BY DEF StatusCode

LEMMA HandledStatus ==
  ASSUME NEW exc \in Handled
  PROVE  StatusCode(exc) \in {400, 401, 404, 409, 422, 500}
<1>1. CASE exc = "InvalidToken"
  <2>1. StatusCode(exc) = 401
    BY <1>1 DEF StatusCode
  <2>2. QED
    BY <2>1
<1>2. CASE exc = "TenderNotFound"
  <2>1. StatusCode(exc) = 404
    BY <1>2 DEF StatusCode
  <2>2. QED
    BY <2>1
<1>3. CASE exc = "InvalidTransition"
  <2>1. StatusCode(exc) = 409
    BY <1>3 DEF StatusCode
  <2>2. QED
    BY <2>1
<1>4. CASE exc = "unmapped"
  <2>1. StatusCode(exc) = 500
    BY <1>4 DEF StatusCode
  <2>2. QED
    BY <2>1
<1>5. CASE exc = "HTTPException 400"
  <2>1. StatusCode(exc) = 400
    BY <1>5 DEF StatusCode
  <2>2. QED
    BY <2>1
<1>6. CASE exc = "HTTPException 404"
  <2>1. StatusCode(exc) = 404
    BY <1>6 DEF StatusCode
  <2>2. QED
    BY <2>1
<1>7. CASE exc = "RequestValidationError"
  <2>1. StatusCode(exc) = 422
    BY <1>7 DEF StatusCode
  <2>2. QED
    BY <2>1
<1>8. QED
  BY <1>1, <1>2, <1>3, <1>4, <1>5, <1>6, <1>7 DEF Handled, DomainExceptions

Same(q) ==
    /\ stage'[q] = stage[q] /\ input'[q] = input[q] /\ requestId'[q] = requestId[q]
    /\ reply'[q] = reply[q] /\ records'[q] = records[q]
    /\ \A k \in Tasks : context'[<<q, k>>] = context[<<q, k>>]

LEMMA SameKeepsInv ==
  ASSUME TypeOK, NEW q \in Requests, RequestInv(q), Same(q)
  PROVE  RequestInv(q)'
BY DEF TypeOK, RequestInv, ContextInv, PassedInv, ReplyInv, LogInv, OnlyWarnings, Completed,
       Same, Inside, App, Tasks

LEMMA RaiseStep ==
  ASSUME TypeOK, NEW r \in Requests, NEW exc \in Handled, RequestInv(r), stage[r] \in App,
         Raise(r, exc),
         input[r].token # "valid" /\ input[r].routed =>
               \/ StatusCode(exc) = 401
               \/ StatusCode(exc) = 400 /\ input[r].body = "unreadable"
               \/ StatusCode(exc) = 422 /\ input[r].body = "malformed"
  PROVE  TypeOK' /\ RequestInv(r)' /\ \A q \in Requests \ {r} : Same(q)
<1> DEFINE rec == Written("warning", None, context, <<r, "app">>)
           answer == [status |-> StatusCode(exc), id |-> requestId[r]]
<1>1. rec \in Record /\ rec.event = "warning" /\ rec.id = requestId[r]
  BY DEF TypeOK, Written, Record, Events, Tasks, RequestInv, ContextInv
<1>2. answer \in Reply /\ answer.status \in {400, 401, 404, 409, 422, 500}
  <2>1. StatusCode(exc) \in {400, 401, 404, 409, 422, 500}
    BY HandledStatus
  <2>2. requestId[r] \in Ids \union {None}
    BY DEF TypeOK
  <2>3. QED
    BY <2>1, <2>2 DEF Reply, Statuses
<1>3. /\ stage' = [stage EXCEPT ![r] = "complete"]
      /\ reply' = [reply EXCEPT ![r] = answer]
      /\ records' = [records EXCEPT ![r] = Append(@, rec)]
      /\ UNCHANGED <<input, requestId, context>>
  BY DEF Raise, Warn
<1>4. answer.status = StatusCode(exc)
  OBVIOUS
<1> HIDE DEF rec, answer
<1>5. TypeOK'
  BY <1>1, <1>2, <1>3 DEF TypeOK, Stages
<1>6. RequestInv(r)'
  <2>1. stage'[r] = "complete" /\ reply'[r] = answer /\ records'[r] = Append(records[r], rec)
    BY <1>3 DEF TypeOK
  <2>2. ContextInv(r)' /\ PassedInv(r)'
    BY <1>3, <2>1 DEF RequestInv, ContextInv, PassedInv, Inside, App
  <2>3. ReplyInv(r)'
    BY <1>2, <1>3, <1>4, <2>1, NoReplyAssumption
       DEF RequestInv, ReplyInv, PassedInv, Inside, App
  <2>4. LogInv(r)'
    <3>1. records[r] \in Seq(Record) /\ OnlyWarnings(r)
      BY DEF TypeOK, RequestInv, LogInv, Inside, App
    <3>2. OnlyWarnings(r)'
      BY <1>1, <1>3, <2>1, <3>1 DEF OnlyWarnings
    <3>3. QED
      BY <2>1, <3>2 DEF LogInv
  <2>5. QED
    BY <2>2, <2>3, <2>4 DEF RequestInv
<1>7. \A q \in Requests \ {r} : Same(q)
  BY <1>3 DEF Same, TypeOK
<1>8. QED
  BY <1>5, <1>6, <1>7

LEMMA ProceedStep ==
  ASSUME TypeOK, NEW r \in Requests, RequestInv(r), stage[r] \in App,
         NEW to \in Inside \ {"limit"}, Proceed(r, to),
         to \in {"validate", "service", "complete"} => input[r].token = "valid"
  PROVE  TypeOK' /\ RequestInv(r)' /\ \A q \in Requests \ {r} : Same(q)
<1>1. TypeOK' /\ stage'[r] = to
  BY DEF TypeOK, Proceed, Stages, Inside
<1>2. ContextInv(r)' /\ PassedInv(r)'
  BY <1>1 DEF RequestInv, ContextInv, PassedInv, Inside, App, Proceed
<1>3. ReplyInv(r)' /\ LogInv(r)'
  BY <1>1 DEF RequestInv, ReplyInv, LogInv, PassedInv, OnlyWarnings, Inside, App, Proceed
<1>4. QED
  BY <1>1, <1>2, <1>3 DEF RequestInv, Same, TypeOK, Proceed

LEMMA ReceiveStep ==
  ASSUME TypeOK, NEW r \in Requests, RequestInv(r), NEW in \in Inputs, Receive(r, in)
  PROVE  TypeOK' /\ RequestInv(r)' /\ \A q \in Requests \ {r} : Same(q)
<1> DEFINE id == IF in.id # None THEN in.id ELSE r
<1>1. id \in Ids
  BY InputsAssumption DEF Input, Ids
<1>2. /\ stage[r] = "idle"
      /\ input' = [input EXCEPT ![r] = in]
      /\ requestId' = [requestId EXCEPT ![r] = id]
      /\ context' = [[context EXCEPT ![<<r, "server">>] = id] EXCEPT ![<<r, "limit">>] = id]
      /\ stage' = [stage EXCEPT ![r] = "limit"]
      /\ UNCHANGED <<reply, records>>
  BY DEF Receive, SetRequestContext, TypeOK, Tasks
<1> HIDE DEF id
<1>3. TypeOK'
  BY <1>1, <1>2 DEF TypeOK, Stages, Tasks
<1>4. ContextInv(r)' /\ PassedInv(r)'
  <2>1. stage'[r] = "limit" /\ input'[r] = in /\ requestId'[r] = id /\ reply'[r] = reply[r]
    BY <1>2 DEF TypeOK
  <2>2. context'[<<r, "server">>] = id /\ context'[<<r, "limit">>] = id
    BY <1>2 DEF TypeOK, Tasks
  <2>3. reply[r] = None
    BY <1>2 DEF RequestInv, PassedInv
  <2>4. QED
    BY <2>1, <2>2, <2>3 DEF ContextInv, PassedInv, Inside, App
<1>5. ReplyInv(r)' /\ LogInv(r)'
  BY <1>2 DEF TypeOK, RequestInv, ReplyInv, LogInv, OnlyWarnings, Inside
<1>6. \A q \in Requests \ {r} : Same(q)
  BY <1>2 DEF Same, TypeOK, Tasks
<1>7. QED
  BY <1>3, <1>4, <1>5, <1>6 DEF RequestInv

LEMMA LimitStep ==
  ASSUME TypeOK, NEW r \in Requests, RequestInv(r), LimitBodySize(r)
  PROVE  TypeOK' /\ RequestInv(r)' /\ \A q \in Requests \ {r} : Same(q)
<1> DEFINE rec == Written("warning", None, context, <<r, "limit">>)
           answer == [status |-> 413, id |-> None]
<1>1. rec \in Record /\ rec.event = "warning" /\ rec.id = requestId[r]
  BY DEF TypeOK, Written, Record, Events, Tasks, RequestInv, ContextInv, LimitBodySize, Inside
<1>2. answer \in Reply /\ answer.status = 413
  BY DEF Reply, Statuses
<1>3. stage[r] = "limit" /\ UNCHANGED <<input, requestId>>
  BY DEF LimitBodySize
<1>4. CASE TooLarge(input[r].declared)
  <2>1. /\ stage' = [stage EXCEPT ![r] = "complete"]
        /\ reply' = [reply EXCEPT ![r] = answer]
        /\ records' = [records EXCEPT ![r] = Append(@, rec)]
        /\ UNCHANGED context
    BY <1>4 DEF LimitBodySize, Warn
  <2> HIDE DEF rec, answer
  <2>2. TypeOK'
    BY <1>1, <1>2, <1>3, <2>1 DEF TypeOK, Stages
  <2>3. ContextInv(r)' /\ PassedInv(r)'
    BY <1>3, <2>1 DEF TypeOK, RequestInv, ContextInv, PassedInv, Inside, App
  <2>4. ReplyInv(r)'
    <3>1. /\ stage'[r] = "complete" /\ input'[r] = input[r]
          /\ reply'[r] = answer /\ reply'[r] # None
      BY <1>2, <1>3, <2>1, NoReplyAssumption DEF TypeOK
    <3>2. input[r] \in Inputs
      BY <1>3 DEF RequestInv, PassedInv, Inside
    <3>3. QED
      BY <1>2, <1>4, <3>1, <3>2 DEF ReplyInv
  <2>5. LogInv(r)'
    <3>1. OnlyWarnings(r)'
      <4>1. OnlyWarnings(r) /\ records[r] \in Seq(Record)
        BY <1>3 DEF TypeOK, RequestInv, LogInv, Inside
      <4>2. records'[r] = Append(records[r], rec)
        BY <2>1 DEF TypeOK
      <4>3. QED
        BY <1>1, <1>3, <4>1, <4>2 DEF OnlyWarnings
    <3>2. stage'[r] = "complete"
      BY <2>1 DEF TypeOK
    <3>3. QED
      BY <3>1, <3>2 DEF LogInv
  <2>6. QED
    BY <1>3, <2>1, <2>2, <2>3, <2>4, <2>5 DEF RequestInv, Same, TypeOK
<1>5. CASE ~TooLarge(input[r].declared)
  <2>1. /\ context' = [context EXCEPT ![<<r, "app">>] = context[<<r, "limit">>]]
        /\ stage' = [stage EXCEPT ![r] = "route"]
        /\ UNCHANGED <<reply, records>>
    BY <1>5 DEF LimitBodySize
  <2>2. TypeOK'
    BY <1>3, <2>1 DEF TypeOK, Stages, Tasks
  <2>3. ContextInv(r)' /\ PassedInv(r)'
    <3>1. stage'[r] = "route" /\ input'[r] = input[r]
      BY <1>3, <2>1 DEF TypeOK
    <3>2. PassedInv(r)'
      BY <1>3, <1>5, <2>1, <3>1 DEF RequestInv, PassedInv, Inside, App
    <3>3. ContextInv(r)'
      BY <1>3, <2>1, <3>1 DEF TypeOK, RequestInv, ContextInv, Inside, App, Tasks
    <3>4. QED
      BY <3>2, <3>3
  <2>4. ReplyInv(r)' /\ LogInv(r)'
    BY <1>3, <2>1 DEF TypeOK, RequestInv, ReplyInv, LogInv, OnlyWarnings, Inside
  <2>5. QED
    BY <1>3, <2>1, <2>2, <2>3, <2>4 DEF RequestInv, Same, TypeOK, Tasks
<1>6. QED
  BY <1>4, <1>5

Unhandled(log) ==
    \A i \in DOMAIN log : log[i].event = "unhandled_exception" /\ log[i].id = None

\* The records of a request that is answered: its completion and perhaps one more.
LEMMA FinishStep ==
  ASSUME TypeOK, NEW r \in Requests, RequestInv(r), stage[r] = "complete",
         NEW answer \in Reply, answer.id = requestId[r],
         NEW done \in Record, done.event = "request_completed",
         done.id = requestId[r], done.status = answer.status,
         NEW more \in Seq(Record), Len(more) <= 1,
         Unhandled(more),
         stage' = [stage EXCEPT ![r] = "done"],
         reply' = [reply EXCEPT ![r] = answer],
         records' = [records EXCEPT ![r] = Append(@, done) \o more],
         context' = [context EXCEPT ![<<r, "server">>] = None],
         UNCHANGED <<input, requestId>>,
         answer.status = 413 => TooLarge(input[r].declared),
         input[r].token # "valid" /\ input[r].routed =>
               \/ answer.status \in {401, 413}
               \/ answer.status = 400 /\ input[r].body = "unreadable"
               \/ answer.status = 422 /\ input[r].body = "malformed"
  PROVE  TypeOK' /\ RequestInv(r)' /\ \A q \in Requests \ {r} : Same(q)
<1>1. records[r] \in Seq(Record) /\ OnlyWarnings(r)
  BY DEF TypeOK, RequestInv, LogInv, Inside
<1> DEFINE s == Append(records[r], done)
           t == s \o more
           n == Len(records[r]) + 1
<1>2. s \in Seq(Record) /\ Len(s) = n /\ n \in Nat \ {0}
  BY <1>1
<1>3. t \in Seq(Record) /\ Len(t) = n + Len(more)
  BY <1>2
<1>4. \A i \in 1 .. n : t[i] = s[i]
  BY <1>2
<1>5. \A i \in n + 1 .. Len(t) : t[i].event = "unhandled_exception" /\ t[i].id = None
  <2>1. \A i \in n + 1 .. Len(t) : t[i] = more[i - n] /\ i - n \in DOMAIN more
    BY <1>2, <1>3
  <2>2. QED
    BY <2>1 DEF Unhandled
<1>6. s[n] = done /\ \A i \in 1 .. n - 1 : s[i] = records[r][i] /\ i \in DOMAIN records[r]
  BY <1>1
<1>7. /\ stage'[r] = "done" /\ reply'[r] = answer /\ records'[r] = t
      /\ input'[r] = input[r] /\ requestId'[r] = requestId[r]
  BY DEF TypeOK
<1> HIDE DEF s, t, n
<1>8. TypeOK'
  BY <1>3, <1>7 DEF TypeOK, Stages, Tasks, t, s
<1>9. ContextInv(r)' /\ PassedInv(r)'
  BY <1>7 DEF ContextInv, PassedInv, Inside, App
<1>10. ReplyInv(r)'
  <2>1. input[r] \in Inputs /\ answer # None
    BY NoReplyAssumption DEF RequestInv, ReplyInv
  <2>2. QED
    BY <1>7, <2>1 DEF ReplyInv
<1>11. LogInv(r)'
  <2>1. Completed(t, answer.status)
    <3>1. n \in 1 .. Len(t) /\ t[n].event = "request_completed" /\ t[n].status = answer.status
      BY <1>2, <1>3, <1>4, <1>6
    <3>2. \A i \in 1 .. n - 1 : t[i].event = "warning"
      BY <1>1, <1>2, <1>4, <1>6 DEF OnlyWarnings
    <3>3. \A i \in n + 1 .. Len(t) : t[i].event = "unhandled_exception"
      BY <1>5
    <3>4. \E m \in 1 .. Len(t) :
             /\ \A i \in 1 .. m - 1 : t[i].event = "warning"
             /\ t[m].event = "request_completed"
             /\ t[m].status = answer.status
             /\ \A i \in m + 1 .. Len(t) : t[i].event = "unhandled_exception"
      BY <3>1, <3>2, <3>3
    <3>5. QED
      BY <3>4 DEF Completed
  <2>2. \A i \in DOMAIN t : \/ t[i].id = requestId[r]
                            \/ t[i].id = None /\ t[i].event = "unhandled_exception"
    <3>1. \A i \in 1 .. n : t[i].id = requestId[r]
      BY <1>1, <1>2, <1>4, <1>6 DEF OnlyWarnings
    <3>2. \A i \in n + 1 .. Len(t) : t[i].id = None /\ t[i].event = "unhandled_exception"
      BY <1>5
    <3>3. DOMAIN t = 1 .. Len(t)
      BY <1>3
    <3>4. QED
      BY <1>2, <1>3, <3>1, <3>2, <3>3
  <2>3. QED
    BY <1>7, <2>1, <2>2 DEF LogInv, Inside
<1>12. \A q \in Requests \ {r} : Same(q)
  BY DEF Same, TypeOK, Tasks
<1>13. QED
  BY <1>8, <1>9, <1>10, <1>11, <1>12 DEF RequestInv

\* What the middleware makes of a request that is complete.
LEMMA AnswerStep ==
  ASSUME TypeOK, NEW r \in Requests, RequestInv(r), Answer(r) \/ HandleUnexpectedException(r)
  PROVE  TypeOK' /\ RequestInv(r)' /\ \A q \in Requests \ {r} : Same(q)
<1> DEFINE done == RequestCompleted(r)
<1>1. stage[r] = "complete" /\ context[<<r, "server">>] = requestId[r]
  BY DEF Answer, HandleUnexpectedException, Finish, RequestInv, ContextInv, Inside
<1>2. requestId[r] \in Ids \union {None} /\ records[r] \in Seq(Record)
  BY DEF TypeOK
<1>3. done.event = "request_completed" /\ done.id = requestId[r]
  BY <1>1 DEF RequestCompleted, Written
<1>4. CASE Answer(r)
  <2> DEFINE answer == [status |-> reply[r].status, id |-> requestId[r]]
  <2>1. reply[r] # None /\ reply[r] \in Reply
    BY <1>4 DEF Answer, TypeOK
  <2>2. answer \in Reply /\ answer.id = requestId[r] /\ answer.status = reply[r].status
    BY <1>2, <2>1 DEF Reply
  <2>3. done \in Record /\ done.status = reply[r].status
    BY <1>1, <1>2, <2>1 DEF RequestCompleted, Written, Record, Events, Reply
  <2>4. /\ stage' = [stage EXCEPT ![r] = "done"]
        /\ reply' = [reply EXCEPT ![r] = answer]
        /\ records' = [records EXCEPT ![r] = Append(@, done) \o <<>>]
        /\ context' = [context EXCEPT ![<<r, "server">>] = None]
        /\ UNCHANGED <<input, requestId>>
    BY <1>4 DEF Answer, Finish, ClearRequestContext, SetRequestContext
  <2> HIDE DEF done, answer
  <2>7. /\ answer.status = 413 => TooLarge(input[r].declared)
        /\ input[r].token # "valid" /\ input[r].routed =>
               \/ answer.status \in {401, 413}
               \/ answer.status = 400 /\ input[r].body = "unreadable"
               \/ answer.status = 422 /\ input[r].body = "malformed"
    BY <1>1, <2>1, <2>2 DEF RequestInv, ReplyInv
  <2> DEFINE more == <<>>
  <2>8. more \in Seq(Record) /\ Len(more) <= 1 /\ Unhandled(more)
    BY DEF Unhandled
  <2>9. records' = [records EXCEPT ![r] = Append(@, done) \o more]
    BY <2>4
  <2>10. done.status = answer.status
    BY <2>2, <2>3
  <2> HIDE DEF more
  <2>11. QED
    BY <1>1, <1>3, <2>2, <2>3, <2>4, <2>7, <2>8, <2>9, <2>10, FinishStep
<1>5. CASE HandleUnexpectedException(r)
  <2> DEFINE answer == [status |-> 500, id |-> requestId[r]]
             last == Written("unhandled_exception", None,
                             ClearRequestContext(context, <<r, "server">>), <<r, "server">>)
             more == <<last>>
  <2>1. reply[r] = None /\ input[r].token = "valid"
    BY <1>1, <1>5 DEF HandleUnexpectedException, RequestInv, ReplyInv
  <2>2. answer \in Reply /\ answer.id = requestId[r] /\ answer.status = 500
    BY <1>2 DEF Reply, Statuses
  <2>3. done \in Record /\ done.status = 500
    BY <1>1, <1>2, <2>1 DEF RequestCompleted, Written, Record, Events, Statuses
  <2>4. last \in Record /\ last.event = "unhandled_exception" /\ last.id = None
    BY DEF Written, Record, Events, ClearRequestContext, SetRequestContext, TypeOK, Tasks
  <2>5. /\ stage' = [stage EXCEPT ![r] = "done"]
        /\ reply' = [reply EXCEPT ![r] = answer]
        /\ records' = [records EXCEPT ![r] = Append(@, done) \o more]
        /\ context' = [context EXCEPT ![<<r, "server">>] = None]
        /\ UNCHANGED <<input, requestId>>
    BY <1>5 DEF HandleUnexpectedException, Finish, ClearRequestContext, SetRequestContext
  <2> HIDE DEF done, answer, last
  <2>6. /\ more \in Seq(Record) /\ Len(more) <= 1
        /\ Unhandled(more)
    BY <2>4 DEF Unhandled
  <2>7. /\ done.status = answer.status
        /\ answer.status = 413 => TooLarge(input[r].declared)
        /\ input[r].token # "valid" /\ input[r].routed =>
               \/ answer.status \in {401, 413}
               \/ answer.status = 400 /\ input[r].body = "unreadable"
               \/ answer.status = 422 /\ input[r].body = "malformed"
    BY <2>1, <2>2, <2>3
  <2> HIDE DEF more
  <2>8. QED
    BY <1>1, <1>3, <2>2, <2>3, <2>5, <2>6, <2>7, FinishStep
<1>6. QED
  BY <1>4, <1>5

LEMMA ApplicationStep ==
  ASSUME TypeOK, NEW r \in Requests, RequestInv(r),
         \/ Route(r) \/ Authenticate(r) \/ Validate(r) \/ CallService(r)
         \/ RenderingDetailsFails(r)
  PROVE  TypeOK' /\ RequestInv(r)' /\ \A q \in Requests \ {r} : Same(q)
<1>1. ASSUME Route(r)
      PROVE  TypeOK' /\ RequestInv(r)' /\ \A q \in Requests \ {r} : Same(q)
  <2>1. stage[r] \in App
    BY <1>1 DEF Route, App
  <2>2. CASE ~input[r].routed /\ Raise(r, "HTTPException 404")
    BY <2>1, <2>2, RaiseStep DEF Handled
  <2>3. CASE input[r].body = "unreadable" /\ Raise(r, "HTTPException 400")
    BY <2>1, <2>3, RaiseStep, ClientStatus DEF Handled
  <2>4. CASE input[r].body = "malformed" /\ Raise(r, "RequestValidationError")
    BY <2>1, <2>4, RaiseStep, ClientStatus DEF Handled
  <2>5. CASE Proceed(r, "authenticate")
    BY <2>1, <2>5, ProceedStep DEF Inside
  <2>6. QED
    BY <1>1, <2>2, <2>3, <2>4, <2>5 DEF Route
<1>2. ASSUME Authenticate(r)
      PROVE  TypeOK' /\ RequestInv(r)' /\ \A q \in Requests \ {r} : Same(q)
  <2>1. stage[r] \in App
    BY <1>2 DEF Authenticate, App
  <2>2. CASE input[r].token = "valid" /\ Proceed(r, "validate")
    BY <2>1, <2>2, ProceedStep DEF Inside
  <2>3. CASE Raise(r, "InvalidToken")
    BY <2>1, <2>3, RaiseStep, ClientStatus DEF Handled, DomainExceptions
  <2>4. QED
    BY <1>2, <2>2, <2>3 DEF Authenticate
<1>3. ASSUME Validate(r)
      PROVE  TypeOK' /\ RequestInv(r)' /\ \A q \in Requests \ {r} : Same(q)
  <2>1. stage[r] \in App /\ input[r].token = "valid"
    BY <1>3 DEF Validate, App, RequestInv, PassedInv
  <2>2. CASE Proceed(r, "service")
    BY <2>1, <2>2, ProceedStep DEF Inside
  <2>3. CASE Raise(r, "RequestValidationError")
    BY <2>1, <2>3, RaiseStep DEF Handled
  <2>4. QED
    BY <1>3, <2>2, <2>3 DEF Validate
<1>4. ASSUME CallService(r)
      PROVE  TypeOK' /\ RequestInv(r)' /\ \A q \in Requests \ {r} : Same(q)
  <2>1. stage[r] \in App /\ input[r].token = "valid" /\ input[r] \in Inputs
    BY <1>4 DEF CallService, App, Inside, RequestInv, PassedInv
  <2>2. CASE input[r].result \in DomainExceptions /\ Raise(r, input[r].result)
    BY <2>1, <2>2, RaiseStep DEF Handled
  <2>3. CASE Proceed(r, "complete")
    BY <2>1, <2>3, ProceedStep DEF Inside
  <2>4. CASE /\ reply' = [reply EXCEPT ![r] = [status |-> 200, id |-> None]]
             /\ stage' = [stage EXCEPT ![r] = "complete"]
             /\ UNCHANGED <<input, requestId, context, records>>
    <3> DEFINE answer == [status |-> 200, id |-> None]
    <3>1. answer \in Reply /\ answer.status = 200 /\ answer # None
      BY NoReplyAssumption DEF Reply, Statuses
    <3>2. reply' = [reply EXCEPT ![r] = answer]
      BY <2>4
    <3> HIDE DEF answer
    <3>3. TypeOK' /\ stage'[r] = "complete" /\ reply'[r] = answer
      BY <2>4, <3>1, <3>2 DEF TypeOK, Stages
    <3>4. ContextInv(r)' /\ PassedInv(r)'
      BY <2>1, <2>4, <3>3 DEF RequestInv, ContextInv, PassedInv, Inside, App
    <3>5. ReplyInv(r)' /\ LogInv(r)'
      BY <2>1, <2>4, <3>1, <3>3 DEF RequestInv, ReplyInv, LogInv, OnlyWarnings, Inside, App
    <3>6. QED
      BY <2>4, <3>2, <3>3, <3>4, <3>5 DEF RequestInv, Same, TypeOK
  <2>5. QED
    BY <1>4, <2>2, <2>3, <2>4 DEF CallService
<1>5. ASSUME RenderingDetailsFails(r)
      PROVE  TypeOK' /\ RequestInv(r)' /\ \A q \in Requests \ {r} : Same(q)
  <2> DEFINE rec == Written("warning", None, context, <<r, "app">>)
  <2>1. stage[r] = "validate" /\ input[r].token = "valid"
    BY <1>5 DEF RenderingDetailsFails, RequestInv, PassedInv
  <2>2. rec \in Record /\ rec.event = "warning" /\ rec.id = requestId[r]
    BY <2>1 DEF TypeOK, Written, Record, Events, Tasks, RequestInv, ContextInv, App
  <2>3. /\ stage' = [stage EXCEPT ![r] = "complete"]
        /\ records' = [records EXCEPT ![r] = Append(@, rec)]
        /\ UNCHANGED <<input, requestId, context, reply>>
    BY <1>5 DEF RenderingDetailsFails, Warn
  <2> HIDE DEF rec
  <2>4. TypeOK' /\ stage'[r] = "complete" /\ records'[r] = Append(records[r], rec)
    BY <2>2, <2>3 DEF TypeOK, Stages
  <2>5. ContextInv(r)' /\ PassedInv(r)' /\ ReplyInv(r)'
    BY <2>1, <2>3, <2>4 DEF RequestInv, ContextInv, PassedInv, ReplyInv, Inside, App
  <2>6. LogInv(r)'
    <3>1. records[r] \in Seq(Record) /\ OnlyWarnings(r)
      BY <2>1 DEF TypeOK, RequestInv, LogInv, Inside
    <3>2. OnlyWarnings(r)'
      BY <2>2, <2>3, <2>4, <3>1 DEF OnlyWarnings
    <3>3. QED
      BY <2>4, <3>2 DEF LogInv
  <2>7. QED
    BY <2>3, <2>4, <2>5, <2>6 DEF RequestInv, Same, TypeOK
<1>6. QED
  BY <1>1, <1>2, <1>3, <1>4, <1>5

LEMMA StepKeepsPipelineInv == PipelineInv /\ [Next]_vars => PipelineInv'
<1> SUFFICES ASSUME PipelineInv, [Next]_vars PROVE PipelineInv'
  OBVIOUS
<1>1. TypeOK /\ \A r \in Requests : RequestInv(r)
  BY DEF PipelineInv
<1>2. ASSUME NEW r \in Requests, Step(r) PROVE PipelineInv'
  <2>1. TypeOK' /\ RequestInv(r)' /\ \A q \in Requests \ {r} : Same(q)
    BY <1>1, <1>2, ReceiveStep, LimitStep, ApplicationStep, AnswerStep DEF Step
  <2>2. \A q \in Requests \ {r} : RequestInv(q)'
    BY <1>1, <2>1, SameKeepsInv
  <2>3. QED
    BY <2>1, <2>2 DEF PipelineInv
<1>3. CASE UNCHANGED vars
  <2>1. TypeOK' /\ \A q \in Requests : Same(q)
    BY <1>1, <1>3 DEF vars, TypeOK, Same
  <2>2. QED
    BY <1>1, <2>1, SameKeepsInv DEF PipelineInv
<1>4. QED
  BY <1>2, <1>3 DEF Next, Terminated

LEMMA PipelineInvariant == Spec => []PipelineInv
BY InitPipelineInv, StepKeepsPipelineInv, PTL DEF Spec

\* Every variable keeps its type, for any number of requests of any kind.
THEOREM PipelineTypeCorrect == Spec => []TypeOK
<1>1. PipelineInv => TypeOK
  BY DEF PipelineInv
<1>2. QED
  BY <1>1, PipelineInvariant, PTL

\* No record names a request it was not written for, in any interleaving of the
\* tasks that keep their own context variables (logger_config).
THEOREM ContextsStayApart == Spec => []RecordsNameNoOther
<1>1. PipelineInv => RecordsNameNoOther
  <2> SUFFICES ASSUME PipelineInv, NEW r \in Requests, NEW i \in DOMAIN records[r]
               PROVE  \/ records[r][i].id = requestId[r]
                      \/ /\ records[r][i].id = None
                         /\ records[r][i].event = "unhandled_exception"
    BY DEF RecordsNameNoOther
  <2>1. LogInv(r) /\ stage[r] \in Stages
    BY DEF PipelineInv, RequestInv, TypeOK
  <2>2. QED
    BY <2>1 DEF LogInv, OnlyWarnings, Inside, Stages
<1>2. QED
  BY <1>1, PipelineInvariant, PTL

\* A request is logged as completed once, with the status and the id of its
\* answer, whoever made the answer (request_logging_middleware).
THEOREM CompletionsAreLogged == Spec => []AnswerMatchesLog
<1>1. PipelineInv => AnswerMatchesLog
  <2> SUFFICES ASSUME PipelineInv, NEW r \in Requests
               PROVE  LET completed == {i \in DOMAIN records[r] :
                                            records[r][i].event = "request_completed"} IN
                      IF Done(r)
                      THEN /\ \E i \in DOMAIN records[r] :
                                  completed = {i} /\ records[r][i].status = reply[r].status
                           /\ reply[r].id = requestId[r]
                      ELSE completed = {}
    BY DEF AnswerMatchesLog
  <2>1. LogInv(r) /\ stage[r] \in Stages /\ records[r] \in Seq(Record)
    BY DEF PipelineInv, RequestInv, TypeOK
  <2> DEFINE completed == {i \in DOMAIN records[r] :
                               records[r][i].event = "request_completed"}
  <2>2. CASE stage[r] = "done"
    <3>1. PICK n \in 1 .. Len(records[r]) :
             /\ \A i \in 1 .. n - 1 : records[r][i].event = "warning"
             /\ records[r][n].event = "request_completed"
             /\ records[r][n].status = reply[r].status
             /\ \A i \in n + 1 .. Len(records[r]) :
                    records[r][i].event = "unhandled_exception"
      BY <2>1, <2>2 DEF LogInv, Completed
    <3>2. completed = {n} /\ n \in DOMAIN records[r]
      BY <2>1, <3>1
    <3>3. reply[r].id = requestId[r]
      BY <2>1, <2>2 DEF LogInv
    <3>4. QED
      BY <2>2, <3>1, <3>2, <3>3 DEF Done
  <2>3. CASE stage[r] # "done"
    <3>1. completed = {}
      BY <2>1, <2>3 DEF LogInv, OnlyWarnings, Inside, Stages
    <3>2. QED
      BY <2>3, <3>1 DEF Done
  <2>4. QED
    BY <2>2, <2>3
<1>2. QED
  BY <1>1, PipelineInvariant, PTL

\* Without a valid token an answer depends on nothing that is in the database or
\* that the validation of a DTO finds (get_current_user_id).
THEOREM AuthenticationComesFirst == Spec => []UnauthenticatedLearnNothing
<1>1. PipelineInv => UnauthenticatedLearnNothing
  BY DEF PipelineInv, RequestInv, ReplyInv, UnauthenticatedLearnNothing, Done
<1>2. QED
  BY <1>1, PipelineInvariant, PTL

\* The limit on bodies refuses exactly the declared lengths beyond it, whatever
\* the limit is, a negative one included (limit_body_size).
THEOREM LimitHolds == Spec => []LimitIsExact
<1>1. PipelineInv => LimitIsExact
  <2> SUFFICES ASSUME PipelineInv, NEW r \in Requests
               PROVE  /\ /\ stage[r] \in {"authenticate", "validate", "service"}
                         /\ input[r].size > MaxBodySize
                         => input[r].declared = {} \/ input[r].size = 0
                      /\ Done(r) /\ reply[r].status = 413 => input[r].size > MaxBodySize
    BY DEF LimitIsExact
  <2>1. PassedInv(r) /\ ReplyInv(r)
    BY DEF PipelineInv, RequestInv
  <2>2. ASSUME input[r] \in Inputs
        PROVE  input[r].size \in Nat /\ input[r].declared \in {{}, {input[r].size}}
    BY <2>2, InputsAssumption DEF Input
  <2>3. ASSUME stage[r] \in {"authenticate", "validate", "service"},
               input[r].size > MaxBodySize
        PROVE  input[r].declared = {} \/ input[r].size = 0
    BY <2>1, <2>2, <2>3 DEF PassedInv, TooLarge, Inside, App
  <2>4. ASSUME Done(r), reply[r].status = 413
        PROVE  input[r].size > MaxBodySize
    BY <2>1, <2>2, <2>4 DEF ReplyInv, TooLarge, Done
  <2>5. QED
    BY <2>3, <2>4
<1>2. QED
  BY <1>1, PipelineInvariant, PTL
===============================================================================
