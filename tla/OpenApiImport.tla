--------------------------- MODULE OpenApiImport ---------------------------
(***************************************************************************)
(* importToolsFromOpenApi: the tools an OpenAPI document turns into.       *)
(*                                                                         *)
(* A name is a sequence: what sanitizeToolName makes of an operationId,    *)
(* then the numbers that uniqueName appended, so that "pets_2" is the name *)
(* <<"pets", 2>> whether the document said so or uniqueName did.           *)
(***************************************************************************)
EXTENDS Integers, Sequences, FiniteSets

CONSTANTS
    Keys,           \* names of arguments
    WholeBody       \* the argument "body" that stands for a body of any type

ASSUME KeysAssumption == WholeBody \in Keys

Methods == {"GET", "POST", "DELETE"}

\* An object's properties become arguments one by one, any other schema
\* becomes the argument WholeBody.
Bodies ==
    [type : {"none"}, keys : {{}}, required : {{}}]
        \cup [type : {"other"}, keys : {{WholeBody}}, required : SUBSET {WholeBody}]
        \cup {b \in [type : {"object"}, keys : SUBSET Keys, required : SUBSET Keys] :
                 b.required \subseteq b.keys}

\* An operation as the document declares it: every path parameter is in the
\* path template, and no name is both a path and a query parameter.
Operations ==
    {o \in [method : Methods, path : SUBSET Keys, query : SUBSET Keys,
            needed : SUBSET Keys, body : Bodies] :
        o.path \cap o.query = {} /\ o.needed \subseteq o.query}

\* The input schema of the tool: properties and the required ones.
InputSchema(o) ==
    [properties |-> o.path \cup o.query \cup o.body.keys,
     required |-> o.path \cup o.needed \cup o.body.required]

UniqueName(base, used) ==
    IF base \notin used THEN base
    ELSE LET free == {i \in 2..(Cardinality(used) + 2) : Append(base, i) \notin used}
         IN  Append(base, CHOOSE i \in free : \A j \in free : i <= j)

\* The names the operations of a document get, in its order.
ImportNames(ids) ==
    LET names[n \in 0..Len(ids)] ==
            IF n = 0 THEN <<>>
            ELSE LET before == names[n - 1]
                 IN  Append(before, UniqueName(ids[n], {before[k] : k \in 1..(n - 1)}))
    IN  names[Len(ids)]
=============================================================================
