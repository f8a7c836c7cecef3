------------------------------ MODULE HttpTool ------------------------------
(***************************************************************************)
(* An API tool from import to call: the operation of an OpenAPI document   *)
(* becomes a tool (OpenApiImport), a client calls it with arguments of its *)
(* input schema, and proxyHttpToolCall places them in the request.  Nobody *)
(* but the client checks that the required ones are there.                 *)
(***************************************************************************)
EXTENDS OpenApiImport

VARIABLES
    operation,      \* the operation of the document
    schema,         \* the input schema of the imported tool
    sending         \* the request under way

httpVars == <<operation, schema, sending>>

Places == {"path", "query", "body", "wholeBody"}

NoSchema == [properties |-> {}, required |-> {}]
NoSend   == [state |-> "none", args |-> {}, sent |-> {}]

HttpInit ==
    /\ operation \in Operations
    /\ schema = NoSchema
    /\ sending = NoSend

ImportOperation ==
    /\ sending.state = "none"
    /\ schema' = InputSchema(operation)
    /\ sending' = [sending EXCEPT !.state = "imported"]
    /\ UNCHANGED operation

CallTool(args) ==
    /\ sending.state \in {"imported", "sent", "refused"}
    /\ sending' = [state |-> "called", args |-> args, sent |-> {}]
    /\ UNCHANGED <<operation, schema>>

\* A path parameter without a value ends the call.
MissPathParam ==
    /\ sending.state = "called"
    /\ ~(operation.path \subseteq sending.args)
    /\ sending' = [sending EXCEPT !.state = "refused"]
    /\ UNCHANGED <<operation, schema>>

RemainingArgs(args, used) == args \ used

\* Mutant: a body of any type is sent as the property of an object.
PlaceWrapped(method, rest) ==
    IF method \in {"GET", "DELETE"} THEN rest \X {"query"}
    ELSE rest \X {"body"}

\* Arguments that are not in the path: the query of a method without a body,
\* the JSON body of any other one.
PlaceRest(method, rest) ==
    IF method \in {"GET", "DELETE"} THEN rest \X {"query"}
    ELSE IF rest = {WholeBody} THEN rest \X {"wholeBody"}
    ELSE rest \X {"body"}

SendRequest ==
    /\ sending.state = "called"
    /\ operation.path \subseteq sending.args
    /\ sending' = [sending EXCEPT
                     !.state = "sent",
                     !.sent = (operation.path \X {"path"}) \cup
                              PlaceRest(operation.method,
                                        RemainingArgs(sending.args, operation.path))]
    /\ UNCHANGED <<operation, schema>>

HttpNext ==
    \/ ImportOperation
    \/ \E args \in SUBSET schema.properties : CallTool(args)
    \/ MissPathParam
    \/ SendRequest

HttpSpec == HttpInit /\ [][HttpNext]_httpVars

-----------------------------------------------------------------------------
\* Where the document declares an argument.
Declared(k) ==
    {p \in Places :
        \/ p = "path" /\ k \in operation.path
        \/ p = "query" /\ k \in operation.query
        \/ p = "body" /\ operation.body.type = "object" /\ k \in operation.body.keys
        \/ p = "wholeBody" /\ operation.body.type = "other" /\ k = WholeBody}

\* Types; what is sent are the arguments of the call.
HttpTypeOK ==
    /\ operation \in Operations
    /\ schema \in [properties : SUBSET Keys, required : SUBSET Keys]
    /\ sending.state \in {"none", "imported", "called", "sent", "refused"}
    /\ sending.args \subseteq schema.properties
    /\ sending.state = "sent" => {s[1] : s \in sending.sent} = sending.args
    /\ sending.sent \subseteq Keys \X Places

\* A call with all that the imported schema requires is never refused for want
\* of a path parameter: import and gateway agree on what a call needs.
SchemaSuffices == schema.required \subseteq sending.args => sending.state # "refused"

\* Every argument goes to exactly one place of the request.
SentOnce ==
    \A s, t \in sending.sent : s[1] = t[1] => s = t

\* A request of a document's usual shape -- query parameters only where the
\* method has no body, a body only where it has one -- carries every argument
\* where the document declares it.
UsualShape ==
    IF operation.method = "POST"
    THEN operation.query = {} /\ (operation.body.type = "object" =>
                                     WholeBody \notin operation.body.keys)
    ELSE operation.body.type = "none"

UsualArgumentsPlaced ==
    UsualShape => \A s \in sending.sent : s[2] \in Declared(s[1])

-----------------------------------------------------------------------------
\* Of tools made from an OpenAPI operation: a call with all that the schema
\* requires is sent, every argument once, and where the document has it.
HttpRules ==
    /\ HttpTypeOK
    /\ SchemaSuffices
    /\ SentOnce
    /\ UsualArgumentsPlaced
=============================================================================

