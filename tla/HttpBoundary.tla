----------------------------- MODULE HttpBoundary -----------------------------
(***************************************************************************)
(* What a request goes through before and after the services: request id,  *)
(* body parser, guard, validation pipe, handler, and the filter that turns *)
(* an exception into a response.  Other clients change the list that one   *)
(* client reads (Listing).  The services are modelled in ProjectTaskApi    *)
(* and Accounts; here a handler is the statement that decides its status.  *)
(***************************************************************************)
EXTENDS Listing

CONSTANTS
  Clients,    \* one request each at a time
  Walker,     \* the client that reads the list
  Requests    \* what the others send

VARIABLE req  \* the request of each client and how far it has come

vars == <<rows, key, walk, req>>

-----------------------------------------------------------------------------
\* Requests: a route, the header X-Request-ID, the body as the parser finds
\* it, the token, and one field of the body or the query.

FieldsOf ==
  [register |-> {"name"}, list |-> {"page"}, ready |-> {"none"}, delete |-> {"none"},
   create |-> {"name", "status", "dueDate"}, update |-> {"name", "status", "dueDate"}]

AnyRequest ==
  {r \in [route : DOMAIN FieldsOf, header : {"none", "valid", "unsafe"},
          body : {"fine", "large", "malformed", "undecodable"}, token : BOOLEAN,
          field : UNION {FieldsOf[route] : route \in DOMAIN FieldsOf},
          value : {"fine", "absent", "null", "wrong", "unstorable"}] :
     r.field \in FieldsOf[r.route]}

ASSUME HttpAssumption == Walker \in Clients /\ Requests \subseteq AnyRequest

\* "unstorable" passes validation and PostgreSQL refuses it: a NUL in a text, an
\* ISO week date, which is no Date, or a page whose OFFSET is no bigint.
NotNull == {"name", "status"}

PageRequest ==
  [route |-> "list", header |-> "none", body |-> "fine", token |-> TRUE,
   field |-> "page", value |-> "fine"]

Idle == [at |-> "idle"]

-----------------------------------------------------------------------------
\* Exceptions and what the filter makes of them.

Http(status) == [http |-> TRUE, status |-> status, validation |-> FALSE]
ValidationException == [http |-> TRUE, status |-> 400, validation |-> TRUE]
Unexpected(status) == [http |-> FALSE, status |-> status, validation |-> FALSE]

statusCodeMap ==
  [s \in {400, 401, 403, 404, 409, 413, 429} |->
     CASE s = 400 -> "BAD_REQUEST"
       [] s = 401 -> "UNAUTHENTICATED"
       [] s = 403 -> "FORBIDDEN"
       [] s = 404 -> "RESOURCE_NOT_FOUND"
       [] s = 409 -> "CONFLICT"
       [] s = 413 -> "PAYLOAD_TOO_LARGE"
       [] s = 429 -> "TOO_MANY_REQUESTS"]

mapException(e) ==
  CASE ~e.http /\ e.status = 413 -> [status |-> 413, code |-> "PAYLOAD_TOO_LARGE"]
    [] ~e.http /\ e.status # 413 -> [status |-> 500, code |-> "INTERNAL_ERROR"]
    [] e.validation -> [status |-> e.status, code |-> "VALIDATION_ERROR"]
    [] e.http /\ ~e.validation /\ e.status \in DOMAIN statusCodeMap ->
         [status |-> e.status, code |-> statusCodeMap[e.status]]
    [] OTHER -> [status |-> e.status, code |-> "INTERNAL_ERROR"]

\* GlobalExceptionFilter.catch()
Thrown(q, e) ==
  [q EXCEPT !.at = "answered", !.status = mapException(e).status,
            !.code = mapException(e).code, !.bodyId = q.id]

Throw(c, e) == req' = [req EXCEPT ![c] = Thrown(@, e)]

\* The exception has its cause in a statement that failed.
ThrowBroken(c, e) == req' = [req EXCEPT ![c] = [Thrown(@, e) EXCEPT !.broken = TRUE]]

Respond(c, status) ==
  req' = [req EXCEPT ![c] = [@ EXCEPT !.at = "answered", !.status = status]]

-----------------------------------------------------------------------------
\* The chain.

\* Mutant: a body that is refused is refused before there is an id.
BugParserFirst(r) ==
  [at |-> "guard", r |-> r, bodyId |-> "unset", status |-> 0, code |-> "none",
   broken |-> FALSE,
   id |-> IF r.body # "fine" THEN "unset"
          ELSE IF r.header = "valid" THEN "own" ELSE "uuid"]

\* RequestIdMiddleware is the first to see a request; helmet and CORS, which
\* come next, only add headers.
WithId(r) ==
  [at |-> "guard", r |-> r, bodyId |-> "unset", status |-> 0, code |-> "none",
   broken |-> FALSE, id |-> IF r.header = "valid" THEN "own" ELSE "uuid"]

\* Nest makes a BadRequestException of the parser's SyntaxError and hands
\* every other error on: "undecodable" stands for an unknown charset or content
\* encoding (415) and for a corrupt or cut short body (400), as the filter
\* looks at the status of such an error only to see whether it is 413.
Parsed(q) ==
  CASE q.r.body = "fine" -> q
    [] q.r.body = "large" -> Thrown(q, Unexpected(413))
    [] q.r.body = "malformed" -> Thrown(q, Http(400))
    [] q.r.body = "undecodable" -> Thrown(q, Unexpected(415))

Arrive(c, r) ==
  /\ req[c].at \in {"idle", "answered"}
  /\ IF c = Walker THEN walk.phase = "ask" /\ r = PageRequest ELSE r \in Requests
  /\ req' = [req EXCEPT ![c] = Parsed(WithId(r))]
  /\ UNCHANGED listVars

Guarded(route) == route \in {"create", "update", "delete", "list"}

\* Mutant: a new project may come without a name.
BugNameOptional(r) == r.route # "register"

\* @IsOptional: also null is let through, on columns that are NOT NULL too.
Optional(r) == r.route # "register" /\ ~(r.route = "create" /\ r.field = "name")

Accepted(r) ==
  \/ r.value \in {"fine", "unstorable"}
  \/ r.value \in {"absent", "null"} /\ Optional(r)

\* The guard and the pipe.  JwtStrategy.validate() answers a failed query with
\* 401 too; ThrottlerGuard is on the routes of AuthController.
Admit(c) ==
  /\ req[c].at = "guard"
  /\ LET r == req[c].r
     IN \/ /\ Guarded(r.route) => r.token
           /\ IF Accepted(r) THEN req' = [req EXCEPT ![c].at = "handler"]
              ELSE Throw(c, ValidationException)
        \/ Guarded(r.route) /\ ~r.token /\ Throw(c, Http(401))
        \/ Guarded(r.route) /\ r.token /\ ThrowBroken(c, Http(401))
        \/ r.route = "register" /\ Throw(c, Http(429))
  /\ UNCHANGED listVars

-----------------------------------------------------------------------------
\* Handlers.

\* "absent" is the default of the column, or leaves it alone.
Storable(r) ==
  /\ r.value # "unstorable"
  /\ r.value = "null" => r.field \notin NotNull
  /\ r.value = "absent" => ~(r.route = "create" /\ r.field = "name")

StatementFails(c) ==
  /\ req[c].at = "handler"
  /\ ThrowBroken(c, IF req[c].r.route = "ready" THEN Http(503) ELSE Unexpected(0))
  /\ IF c = Walker /\ walk.phase = "count" THEN AskAgain ELSE UNCHANGED listVars

StatementRefused(c) ==
  /\ req[c].at = "handler"
  /\ ~Storable(req[c].r)
  /\ Throw(c, Unexpected(0))
  /\ UNCHANGED listVars

Handles(c, route) ==
  req[c].at = "handler" /\ c # Walker /\ req[c].r.route = route /\ Storable(req[c].r)

\* The row may be one of the list, or one its filter keeps out.
Create(c) ==
  /\ Handles(c, "create")
  /\ Respond(c, 201)
  /\ \/ \E r \in Ids, k \in Keys \cup {Null} : Enter(r, k)
     \/ UNCHANGED listVars

\* The update may also carry a row through the filter, in or out.
Update(c) ==
  /\ Handles(c, "update")
  /\ \/ /\ Respond(c, 200)
        /\ \/ \E r \in Ids, k \in Keys \cup {Null} : Enter(r, k) \/ Move(r, k)
           \/ \E r \in Ids : Leave(r)
           \/ UNCHANGED listVars
     \/ Throw(c, Http(404)) /\ UNCHANGED listVars

Delete(c) ==
  /\ Handles(c, "delete")
  /\ \/ Respond(c, 204) /\ ((\E r \in Ids : Leave(r)) \/ UNCHANGED listVars)
     \/ Throw(c, Http(404)) /\ UNCHANGED listVars

\* Any other page, or a project that is not there.
List(c) ==
  /\ Handles(c, "list")
  /\ Respond(c, 200) \/ Throw(c, Http(404))
  /\ UNCHANGED listVars

\* The two queries of getManyAndCount() for the walker.
ListRows(c) ==
  /\ req[c].at = "handler" /\ c = Walker
  /\ \E data \in SUBSET rows : ReadRows(data)
  /\ UNCHANGED req

ListCount(c) ==
  /\ req[c].at = "handler" /\ c = Walker
  /\ CountRows
  /\ Respond(c, 200)

Register(c) ==
  /\ Handles(c, "register")
  /\ Respond(c, 201) \/ Throw(c, Http(409))
  /\ UNCHANGED listVars

Ready(c) ==
  /\ Handles(c, "ready")
  /\ Respond(c, 200)
  /\ UNCHANGED listVars

-----------------------------------------------------------------------------
Init ==
  /\ ListInit
  /\ req = [c \in Clients |-> Idle]

Serve(c) ==
  \/ Admit(c) \/ StatementFails(c) \/ StatementRefused(c)
  \/ Create(c) \/ Update(c) \/ Delete(c)
  \/ List(c) \/ ListRows(c) \/ ListCount(c)
  \/ Register(c) \/ Ready(c)

Next ==
  \E c \in Clients : Serve(c) \/ \E r \in Requests \cup {PageRequest} : Arrive(c, r)

Spec == Init /\ [][Next]_vars

-----------------------------------------------------------------------------
\* Types; a request has an id, the client's own only if that is a safe one, and
\* a status once it is answered.
TypeOK ==
  /\ ListTypeOK
  /\ \A c \in Clients : req[c] # Idle =>
       /\ req[c].r \in Requests \cup {PageRequest}
       /\ req[c].at \in {"guard", "handler", "answered"}
       /\ req[c].id = IF req[c].r.header = "valid" THEN "own" ELSE "uuid"
       /\ req[c].at = "answered" <=> req[c].status # 0

\* Every error response has the code that stands for its status
\* (error-contract.md, its table) and names its request, as runtime.md:55 says
\* of every error body and error-contract.md:28-29, older, does not yet; also
\* when the body parser refuses the request.
Contract ==
  {<<400, "VALIDATION_ERROR">>, <<400, "BAD_REQUEST">>, <<401, "UNAUTHENTICATED">>,
   <<403, "FORBIDDEN">>, <<404, "RESOURCE_NOT_FOUND">>, <<409, "CONFLICT">>,
   <<413, "PAYLOAD_TOO_LARGE">>, <<429, "TOO_MANY_REQUESTS">>,
   <<500, "INTERNAL_ERROR">>, <<503, "INTERNAL_ERROR">>}

Contractual(q) ==
  q.at = "answered" /\ q.status >= 400 =>
    <<q.status, q.code>> \in Contract /\ q.bodyId = q.id /\ q.id # "unset"

ErrorsKeepTheContract == \A c \in Clients : req[c] # Idle => Contractual(req[c])

\* A client only gets a 5xx when a statement has failed, for one of three
\* requests that validation lets through (a page beyond any OFFSET, a text or
\* date PostgreSQL cannot store, null for a column with NOT NULL where the
\* field is optional), or for a body the parser cannot decode, whose 4xx the
\* filter does not keep: unknown charset or encoding, corrupt or cut short.
Accounted(q) ==
  q.at = "answered" /\ q.status >= 500 =>
    \/ q.broken \/ q.r.value = "unstorable" \/ q.r.body = "undecodable"
    \/ /\ q.r.value = "null"
       /\ <<q.r.route, q.r.field>> \in
            {<<"update", "name">>, <<"update", "status">>, <<"create", "status">>}

InternalErrorsAccounted == \A c \in Clients : req[c] # Idle => Accounted(req[c])

\* With the whole chain around it, failures of its requests included, the walk
\* is a walk of Listing.
ImplementsListing == ListSpec
=============================================================================
