---------------------------- MODULE RequestPipeline ----------------------------
(***************************************************************************)
(* What a request passes before and after TenderService: the logging       *)
(* middleware around the body limit around the application (create_app     *)
(* registers the outer one last), and the exception handlers.  Each of the *)
(* three runs as a task of its own: BaseHTTPMiddleware starts the inner    *)
(* one with a copy of the context variables of the outer one.              *)
(*                                                                         *)
(*   idle -> limit -> route -> authenticate -> validate -> service         *)
(*   ... -> complete -> done                                               *)
(*                                                                         *)
(* In `complete' an exception that no handler of the application took is   *)
(* on its way through the middlewares if there is no reply yet.            *)
(***************************************************************************)
EXTENDS Integers, Sequences

CONSTANTS
    Requests,     \* a uuid4 is stood for by the request it is drawn for
    ClientIds,    \* values of x-request-id that clients send
    MaxBodySize,  \* REQUEST_BODY_MAX_SIZE
    Inputs,       \* what the requests of this instance may look like
    None          \* absence; in a context variable, its default "-"

\* A body may fail to be read, to be JSON, or to be a valid DTO; details of the
\* latter repeat the input, and NaN in them cannot be rendered as JSON.
Bodies == {"unreadable", "malformed", "invalid", "unencodable", "valid"}
Tokens == {"absent", "rejected", "not a uuid", "valid"}

DomainExceptions == {"TenderNotFound", "InvalidTransition", "InvalidToken", "unmapped"}
Results == {"success", "TenderNotFound", "InvalidTransition", "unmapped", "Exception"}

\* The server reads exactly as many bytes as were declared; a missing or
\* malformed Content-Length is declared = {}.
Input ==
    {in \in [id : ClientIds \union {None}, declared : SUBSET Nat, size : Nat,
             routed : BOOLEAN, body : Bodies, token : Tokens, result : Results] :
        in.declared \in {{}, {in.size}}}

ASSUME InputsAssumption == Inputs \subseteq Input
ASSUME LimitAssumption == MaxBodySize \in Int \ {0}
ASSUME IdsAssumption == None \notin ClientIds \union Requests

VARIABLES
    stage,      \* where each request is
    input,      \* what it looks like
    requestId,  \* request.state.request_id
    context,    \* REQUEST_ID_CTX in each task of each request
    reply,      \* its response, None before there is one
    records     \* the log records written for it

vars == <<stage, input, requestId, context, reply, records>>

Stages == {"idle", "limit", "route", "authenticate", "validate", "service",
           "complete", "done"}
Tasks == {"server", "limit", "app"}
Ids == ClientIds \union Requests
Statuses == {200, 400, 401, 404, 409, 413, 422, 500}

\* One "warning" stands for all that a step of a middleware, of the service or of
\* a handler logs, as it is written in one task.
Events == {"warning", "request_completed", "unhandled_exception"}

Record == [event : Events, id : Ids \union {None}, status : Statuses \union {None}]
Reply == [status : Statuses, id : Ids \union {None}]

ASSUME NoReplyAssumption == None \notin Reply \union Statuses \union Inputs

Init ==
    /\ stage = [r \in Requests |-> "idle"]
    /\ input = [r \in Requests |-> None]
    /\ requestId = [r \in Requests |-> None]
    /\ context = [k \in Requests \X Tasks |-> None]
    /\ reply = [r \in Requests |-> None]
    /\ records = [r \in Requests |-> <<>>]

-------------------------------------------------------------------------------
(* logger_config *)

\* Fault for mutation: the context is kept in variables of the module.
SetForEveryone(ctx, key, id) == [k \in DOMAIN ctx |-> id]

SetRequestContext(ctx, key, id) == [ctx EXCEPT ![key] = id]

\* Fault for mutation: cleared to the empty string, which is not the default.
ClearToEmpty(ctx, key) == SetRequestContext(ctx, key, "")

ClearRequestContext(ctx, key) == SetRequestContext(ctx, key, None)

\* RequestContextFilter: a record names the request of the task it is made in.
Written(event, status, ctx, key) == [event |-> event, id |-> ctx[key], status |-> status]

Warn(r, task) ==
    records' = [records EXCEPT ![r] =
                   Append(@, Written("warning", None, context, <<r, task>>))]

-------------------------------------------------------------------------------
(* GlobalExceptionHandler *)

\* What each exception with a handler is answered with.
StatusCode(exc) ==
    CASE exc = "InvalidToken"             -> 401
      [] exc = "TenderNotFound"           -> 404
      [] exc = "InvalidTransition"        -> 409
      [] exc = "unmapped"                 -> 500
      [] exc = "HTTPException 400"        -> 400
      [] exc = "HTTPException 404"        -> 404
      [] exc = "RequestValidationError"   -> 422

\* The application raises exc, and ExceptionMiddleware has a handler for it.
Raise(r, exc) ==
    /\ Warn(r, "app")
    /\ reply' = [reply EXCEPT ![r] = [status |-> StatusCode(exc), id |-> requestId[r]]]
    /\ stage' = [stage EXCEPT ![r] = "complete"]
    /\ UNCHANGED <<input, requestId, context>>

Proceed(r, to) ==
    /\ stage' = [stage EXCEPT ![r] = to]
    /\ UNCHANGED <<input, requestId, context, reply, records>>

-------------------------------------------------------------------------------
(* request_logging_middleware, inwards, and limit_body_size *)

Receive(r, in) ==
    LET id == IF in.id # None THEN in.id ELSE r
        set == SetRequestContext(context, <<r, "server">>, id) IN
    /\ stage[r] = "idle"
    /\ input' = [input EXCEPT ![r] = in]
    /\ requestId' = [requestId EXCEPT ![r] = id]
    /\ context' = [set EXCEPT ![<<r, "limit">>] = set[<<r, "server">>]]
    /\ stage' = [stage EXCEPT ![r] = "limit"]
    /\ UNCHANGED <<reply, records>>

\* Fault for mutation: a body of exactly the limit is refused.
ReachesLimit(declared) == \E n \in declared : n # 0 /\ n >= MaxBodySize

TooLarge(declared) == \E n \in declared : n # 0 /\ n > MaxBodySize

LimitBodySize(r) ==
    /\ stage[r] = "limit"
    /\ UNCHANGED <<input, requestId>>
    /\ IF TooLarge(input[r].declared)
       THEN /\ Warn(r, "limit")
            /\ reply' = [reply EXCEPT ![r] = [status |-> 413, id |-> None]]
            /\ stage' = [stage EXCEPT ![r] = "complete"]
            /\ UNCHANGED context
       ELSE /\ context' = [context EXCEPT ![<<r, "app">>] = context[<<r, "limit">>]]
            /\ stage' = [stage EXCEPT ![r] = "route"]
            /\ UNCHANGED <<reply, records>>

-------------------------------------------------------------------------------
(* The application: routing, dependencies, validation, the service *)

\* The body is read and parsed before any dependency runs.  The router's 405 and
\* its redirects end a request where its 404 does; no property tells them apart.
Route(r) ==
    LET in == input[r] IN
    /\ stage[r] = "route"
    /\ \/ ~in.routed /\ Raise(r, "HTTPException 404")
       \/ in.routed /\ in.body = "unreadable" /\ Raise(r, "HTTPException 400")
       \/ in.routed /\ in.body = "malformed" /\ Raise(r, "RequestValidationError")
       \/ in.routed /\ in.body \notin {"unreadable", "malformed"} /\ Proceed(r, "authenticate")

\* Fault for mutation: a body that is not valid is reported first.
ValidateFirst(r) ==
    /\ stage[r] = "authenticate"
    /\ IF input[r].body = "invalid" THEN Raise(r, "RequestValidationError")
       ELSE IF input[r].token # "valid" THEN Raise(r, "InvalidToken")
       ELSE Proceed(r, "validate")

\* get_current_user_id, of the dependencies and of JwtAuthService.
Authenticate(r) ==
    /\ stage[r] = "authenticate"
    /\ IF input[r].token = "valid" THEN Proceed(r, "validate") ELSE Raise(r, "InvalidToken")

\* The errors of path, query and body are reported when every dependency has run.
Validate(r) ==
    /\ stage[r] = "validate"
    /\ input[r].body # "unencodable"
    /\ IF input[r].body = "valid" THEN Proceed(r, "service")
                                  ELSE Raise(r, "RequestValidationError")

\* The handler logs the details and then cannot render them.
RenderingDetailsFails(r) ==
    /\ stage[r] = "validate"
    /\ input[r].body = "unencodable"
    /\ Warn(r, "app")
    /\ stage' = [stage EXCEPT ![r] = "complete"]
    /\ UNCHANGED <<input, requestId, context, reply>>

\* The operation of TenderService, by its outcome; 200 stands for 201 as well.
CallService(r) ==
    LET result == input[r].result IN
    /\ stage[r] = "service"
    /\ \/ result \in DomainExceptions /\ Raise(r, result)
       \/ result = "Exception" /\ Proceed(r, "complete")
       \/ /\ result = "success"
          /\ reply' = [reply EXCEPT ![r] = [status |-> 200, id |-> None]]
          /\ stage' = [stage EXCEPT ![r] = "complete"]
          /\ UNCHANGED <<input, requestId, context, records>>

-------------------------------------------------------------------------------
(* request_logging_middleware, outwards *)

\* Fault for mutation: what has no response is logged as a success.
CompletedAs200(r) ==
    Written("request_completed", IF reply[r] = None THEN 200 ELSE reply[r].status,
            context, <<r, "server">>)

RequestCompleted(r) ==
    Written("request_completed", IF reply[r] = None THEN 500 ELSE reply[r].status,
            context, <<r, "server">>)

Finish(r, answer, later) ==
    /\ stage[r] = "complete"
    /\ records' = [records EXCEPT ![r] = Append(@, RequestCompleted(r)) \o later]
    /\ reply' = [reply EXCEPT ![r] = answer]
    /\ context' = ClearRequestContext(context, <<r, "server">>)
    /\ stage' = [stage EXCEPT ![r] = "done"]
    /\ UNCHANGED <<input, requestId>>

Answer(r) ==
    /\ reply[r] # None
    /\ Finish(r, [status |-> reply[r].status, id |-> requestId[r]], <<>>)

\* The exception leaves the middlewares, the context is cleared, and the
\* outermost ServerErrorMiddleware calls the handler of Exception.
HandleUnexpectedException(r) ==
    /\ reply[r] = None
    /\ Finish(r, [status |-> 500, id |-> requestId[r]],
              <<Written("unhandled_exception", None,
                        ClearRequestContext(context, <<r, "server">>), <<r, "server">>)>>)

Step(r) ==
    \/ \E in \in Inputs : Receive(r, in)
    \/ LimitBodySize(r) \/ Route(r) \/ Authenticate(r) \/ Validate(r)
    \/ RenderingDetailsFails(r) \/ CallService(r) \/ Answer(r) \/ HandleUnexpectedException(r)

Terminated == (\A r \in Requests : stage[r] = "done") /\ UNCHANGED vars

Next == (\E r \in Requests : Step(r)) \/ Terminated

Spec == Init /\ [][Next]_vars

-------------------------------------------------------------------------------
(* Requirements *)

\* Every variable keeps its type.
TypeOK ==
    /\ stage \in [Requests -> Stages]
    /\ input \in [Requests -> Inputs \union {None}]
    /\ requestId \in [Requests -> Ids \union {None}]
    /\ context \in [Requests \X Tasks -> Ids \union {None}]
    /\ reply \in [Requests -> Reply \union {None}]
    /\ records \in [Requests -> Seq(Record)]

Done(r) == stage[r] = "done"

\* However requests interleave, a record written for one never names another:
\* it has the id of its own request, or none if it is that of an unexpected
\* exception (REQUEST_ID_CTX, RequestContextFilter).
RecordsNameNoOther ==
    \A r \in Requests : \A i \in DOMAIN records[r] :
        \/ records[r][i].id = requestId[r]
        \/ records[r][i].id = None /\ records[r][i].event = "unhandled_exception"

\* A request that was answered is logged as completed once, with the status the
\* client got, whichever of the middlewares and handlers made the answer; and
\* the answer has the id of the log in x-request-id.
AnswerMatchesLog ==
    \A r \in Requests :
        LET completed == {i \in DOMAIN records[r] :
                              records[r][i].event = "request_completed"} IN
        IF Done(r)
        THEN /\ \E i \in DOMAIN records[r] :
                    completed = {i} /\ records[r][i].status = reply[r].status
             /\ reply[r].id = requestId[r]
        ELSE completed = {}

\* Who is not authenticated is told nothing about data, neither what is in the
\* database nor what is wrong with a well-formed body: validation errors wait
\* for the dependencies, get_current_user_id among them (routes.py).
UnauthenticatedLearnNothing ==
    \A r \in Requests :
        Done(r) /\ input[r].token # "valid" /\ input[r].routed =>
            \/ reply[r].status \in {401, 413}
            \/ reply[r].status = 400 /\ input[r].body = "unreadable"
            \/ reply[r].status = 422 /\ input[r].body = "malformed"

\* A body larger than the limit gets past it only if its length was not
\* declared, and nothing within the limit is refused for its size.
LimitIsExact ==
    \A r \in Requests :
        /\ stage[r] \in {"authenticate", "validate", "service"} /\ input[r].size > MaxBodySize
               => input[r].declared = {} \/ input[r].size = 0
        /\ Done(r) /\ reply[r].status = 413 => input[r].size > MaxBodySize

-------------------------------------------------------------------------------
(* Promised by the repository and not kept *)

\* Every record the application writes for a request has its context: CompactFormatter, "One-line log
\* format: timestamp, level, message, request context, extras."
RecordsHaveContext ==
    \A r \in Requests : \A i \in DOMAIN records[r] : records[r][i].id = requestId[r]

\* A request that is authenticated and not valid is answered 422: tests/unit/
\* test_exception_handler.py, test_validation_error_returns_422_with_details.
InvalidIsRefused ==
    \A r \in Requests :
        /\ Done(r) /\ input[r].token = "valid" /\ input[r].routed
        /\ input[r].body \in {"malformed", "invalid", "unencodable"}
        /\ ~TooLarge(input[r].declared)
        => reply[r].status = 422
===============================================================================
