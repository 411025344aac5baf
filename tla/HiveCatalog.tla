---------------------------- MODULE HiveCatalog -----------------------------
(***************************************************************************)
(* The Hive catalog (internal/catalog/hive): every call dials, sends one   *)
(* request, and decodes the reply by hand from the items of the Thrift     *)
(* binary protocol (thrift_client.go).  The items say nothing of what they *)
(* belong to: a decoder that takes one too few or too many reads garbage   *)
(* from there on.  Server, transport and the library's Skip are external;  *)
(* text of errors, sequence numbers and the binary layout of an item are   *)
(* left out, as are the End calls, which read nothing in this protocol.    *)
(***************************************************************************)
EXTENDS Integers, SequencesExt

CONSTANTS
    LocationKeys,  \* the spellings of metadata_location, in order of preference
    OtherKey,      \* some other parameter
    Locations,     \* values of parameters, "" is empty
    HiveTables     \* bound: sequences of names that a listing may return

ASSUME HiveAssumption ==
    /\ LocationKeys \in Seq(Range(LocationKeys)) /\ OtherKey \notin Range(LocationKeys)
    /\ "" \in Locations
    /\ \A ns \in HiveTables : ns \in Seq(Range(ns))

VARIABLES
    call,    \* "get_table" for LoadTable, "get_all_tables" for ListTables
    step,    \* "idle", "connected", "sent", "reading", "done"
    answer,  \* history: what the server answered
    wire,    \* the items of the reply that are still to be read
    todo,    \* the readers that are active, innermost first
    params,  \* params of readGetTableResult, NoParams is nil
    names,   \* out of readGetAllTablesResult
    broken,  \* history: the connection broke while the reply was read
    result   \* what the call returns

hiveVars == <<call, step, answer, wire, todo, params, names, broken, result>>

Calls == {"get_table", "get_all_tables"}
NoParams == <<>>
Keys == Range(LocationKeys) \cup {OtherKey}
Params == (UNION {[ks -> Locations] : ks \in (SUBSET Keys) \ {{}}}) \cup {NoParams}

-----------------------------------------------------------------------------
(* External: what a server may answer, and the items it sends for it.      *)

Text(v) == [is |-> "string", text |-> v]
Number == [is |-> "i32"]
Field(type, id) == [is |-> "field", type |-> type, id |-> id]
Stop == Field("stop", 0)
MapOf(key, value, n) == [is |-> "map", key |-> key, value |-> value, size |-> n]
ListOf(elem, n) == [is |-> "list", elem |-> elem, size |-> n]

Types == {"string", "i32", "struct", "map", "list"}

(* Some value of each type: the struct holds a list of structs.            *)
Value(type) ==
    CASE type = "string" -> <<Text("")>>
      [] type = "i32" -> <<Number>>
      [] type = "struct" -> <<Field("list", 1), ListOf("struct", 1), Field("i32", 1), Number, Stop, Stop>>
      [] type = "map" -> <<MapOf("i32", "string", 2), Number, Text(""), Number, Text("")>>
      [] type = "list" -> <<ListOf("string", 2), Text(""), Text("")>>

FieldOf(types, id) ==
    IF types = <<>> THEN <<>> ELSE <<Field(types[1], id)>> \o Value(types[1])
Pairs(p) ==
    LET ks == SetToSeq(DOMAIN p)
    IN  [i \in 1..(2 * Len(ks)) |-> Text(IF i % 2 = 1 THEN ks[(i + 1) \div 2] ELSE p[ks[i \div 2]])]
Struct(id, fields) == <<Field("struct", id)>> \o fields \o <<Stop>>

(* One of them, or none: the fields of a struct that nobody asked for.     *)
Optional == {<<>>} \cup {<<t>> : t \in Types}

(* body: the union that is the result, or an exception or another name in  *)
(* the message.  of is the field 12 of the table, a map from strings to    *)
(* strings or something else; before and after are fields around it.       *)
NoValue == [type |-> "none", value |-> NoParams]
NoAnswer == [body |-> "none"]
Answers(c) ==
    [body : {"exception", "misnamed", "empty", "MetaException"}, of : {NoValue},
     before : {<<>>}, after : {<<>>}]
    \cup (IF c = "get_table"
          THEN [body : {"NoSuchObject"}, of : {NoValue}, before : Optional, after : Optional]
               \cup [body : {"success"}, of : [type : {"none", "list", "foreign"}, value : {NoParams}],
                     before : Optional, after : Optional]
               \cup [body : {"success"}, of : [type : {"params"}, value : Params],
                     before : {<<>>, <<"struct">>}, after : {<<>>, <<"map">>}]
          ELSE [body : {"success"}, of : [type : {"names"}, value : HiveTables] \cup {[type |-> "foreign", value |-> <<>>]},
                before : Optional, after : Optional])

TableItems(a) ==
    FieldOf(a.before, 7) \o
    (CASE a.of.type = "none" -> <<>>
       [] a.of.type = "list" -> FieldOf(<<"list">>, 12)
       [] a.of.type = "foreign" -> FieldOf(<<"map">>, 12)
       [] a.of.type = "params" -> <<Field("map", 12),
            MapOf("string", "string", Cardinality(DOMAIN a.of.value))>> \o Pairs(a.of.value))
    \o FieldOf(a.after, 13)
ListItems(a) ==
    IF a.of.type = "foreign" THEN <<ListOf("struct", 1)>> \o <<Field("i32", 1), Number, Stop>>
    ELSE <<ListOf("string", Len(a.of.value))>> \o [i \in DOMAIN a.of.value |-> Text(a.of.value[i])]
ExceptionItems(a) == FieldOf(a.before, 3) \o <<Field("string", 1), Text("")>> \o FieldOf(a.after, 4)

ResultItems(c, a) ==
    (CASE a.body = "empty" -> <<>>
       [] a.body = "MetaException" -> Struct(1, ExceptionItems(a))
       [] a.body = "NoSuchObject" -> Struct(2, ExceptionItems(a))
       [] a.body = "success" /\ c = "get_table" -> Struct(0, TableItems(a))
       [] OTHER -> FieldOf(a.before, 5) \o <<Field("list", 0)>> \o ListItems(a) \o FieldOf(a.after, 6))
    \o <<Stop>>

(* The exception struct and the rest of a misnamed reply are never looked  *)
(* at: both are errors whatever follows.                                   *)
ReplyItems(c, a) ==
    <<[is |-> "message", body |-> a.body]>>
        \o (IF a.body \in {"exception", "misnamed"} THEN <<>> ELSE ResultItems(c, a))

-----------------------------------------------------------------------------
(* The decoder: a stack of readers, each of which takes the next item.     *)

Fields(owner) == [reads |-> "field", of |-> owner]
Skip(type) == [reads |-> IF type = "struct" THEN "field" ELSE type, of |-> "skipped"]
Owners == Calls \cup {"table", "MetaException", "NoSuchObject", "skipped"}
TheMap == [reads |-> "map", of |-> "params"]
TheList == [reads |-> "list", of |-> "names"]
TheKey == [reads |-> "string", of |-> "key"]
TheValue(k) == [reads |-> "string", of |-> "value", key |-> k]
TheName == [reads |-> "string", of |-> "name"]
Message == [reads |-> "message", of |-> "reply"]

Copies(n, reader) == [i \in 1..n |-> reader]

(* The reader of a field's value: the case distinctions of                 *)
(* readGetTableResult, readTableParameters, readGetAllTablesResult and     *)
(* readExceptionMessage; everything else is skipped.                       *)
Reader(owner, f) ==
    CASE owner = "get_table" /\ f.id = 0 /\ f.type = "struct" -> Fields("table")
      [] owner = "get_table" /\ f.id = 2 /\ f.type = "struct" -> Fields("NoSuchObject")
      [] owner \in Calls /\ f.id = 1 /\ f.type = "struct" -> Fields("MetaException")
      [] owner = "get_all_tables" /\ f.id = 0 /\ f.type = "list" -> TheList
      [] owner = "table" /\ f.id = 12 /\ f.type = "map" -> TheMap
      [] OTHER -> Skip(f.type)

(* A map that is not from strings to strings is skipped pair by pair, and  *)
(* so is a list of anything but strings.                                   *)
PairReaders(m) == [i \in 1..(2 * m.size) |-> Skip(IF i % 2 = 1 THEN m.key ELSE m.value)]
ForeignPairsIgnored(m) == <<>>
ForeignPairs(m) == PairReaders(m)

Error == [status |-> "error"]
NotFound == [status |-> "not found"]

(* lookupMetadataLocation: the first of the spellings that is not empty.   *)
Location(p) ==
    LET given == {i \in DOMAIN LocationKeys : LocationKeys[i] \in DOMAIN p /\ p[LocationKeys[i]] # ""}
    IN  IF given = {} THEN "" ELSE p[LocationKeys[Min(given)]]

Entry(p) ==
    IF Location(p) = "" THEN Error
    ELSE [status |-> "ok", location |-> Location(p), properties |-> p]
Listing(ns) == [status |-> "ok", names |-> ns]
-----------------------------------------------------------------------------
HiveInit ==
    /\ call \in Calls
    /\ step = "idle"
    /\ answer = NoAnswer
    /\ wire = <<>> /\ todo = <<>>
    /\ params = NoParams /\ names = <<>>
    /\ broken = FALSE
    /\ result = Error

Dial ==
    /\ step = "idle"
    /\ step' = "connected"
    /\ UNCHANGED <<call, answer, wire, todo, params, names, broken, result>>

SendRequest ==
    /\ step = "connected"
    /\ step' = "sent"
    /\ UNCHANGED <<call, answer, wire, todo, params, names, broken, result>>

(* Opening the transport, writing or flushing fails, or no reply comes.    *)
CallFails ==
    /\ step \in {"idle", "connected", "sent"}
    /\ step' = "done"
    /\ UNCHANGED <<call, answer, wire, todo, params, names, broken, result>>

(* External: the server answers.                                           *)
Reply ==
    /\ step = "sent"
    /\ step' = "reading"
    /\ answer' \in Answers(call)
    /\ wire' = ReplyItems(call, answer')
    /\ todo' = <<Message>>
    /\ UNCHANGED <<call, params, names, broken, result>>

(* The innermost reader takes the next item and leaves readers in its      *)
(* place.                                                                  *)
Reads(reader) == step = "reading" /\ todo # <<>> /\ Head(todo) = reader
Take(readers) == wire' = Tail(wire) /\ todo' = readers \o Tail(todo)
Return(r) == step' = "done" /\ result' = r

ReadMessageBegin ==
    /\ Reads(Message)
    /\ Take(<<Fields(call)>>)
    /\ IF Head(wire).body \in {"exception", "misnamed"} THEN Return(Error) ELSE UNCHANGED <<step, result>>
    /\ UNCHANGED <<call, answer, params, names, broken>>

(* A table that begins anew has no parameters so far.                      *)
ReadField(owner) ==
    /\ Reads(Fields(owner)) /\ Head(wire) # Stop
    /\ Take(<<Reader(owner, Head(wire)), Head(todo)>>)
    /\ params' = IF Reader(owner, Head(wire)) = Fields("table") THEN NoParams ELSE params
    /\ UNCHANGED <<call, step, answer, names, broken, result>>

ReadStop(owner) ==
    /\ Reads(Fields(owner)) /\ Head(wire) = Stop
    /\ Take(<<>>)
    /\ CASE owner = "get_table" -> Return(Entry(params))
         [] owner = "get_all_tables" -> Return(Listing(names))
         [] owner = "MetaException" -> Return(Error)
         [] owner = "NoSuchObject" -> Return(NotFound)
         [] OTHER -> UNCHANGED <<step, result>>
    /\ UNCHANGED <<call, answer, params, names, broken>>

(* A map that is not from strings to strings leaves nil.                   *)
ReadMap ==
    LET m == Head(wire)
        strings == m.key = "string" /\ m.value = "string"
    IN  /\ Reads(TheMap)
        /\ Take(IF strings THEN Copies(m.size, TheKey) ELSE ForeignPairs(m))
        /\ params' = NoParams
        /\ UNCHANGED <<call, step, answer, names, broken, result>>

ReadKey ==
    /\ Reads(TheKey)
    /\ Take(<<TheValue(Head(wire).text)>>)
    /\ UNCHANGED <<call, step, answer, params, names, broken, result>>

ReadValue(k) ==
    /\ Reads(TheValue(k))
    /\ Take(<<>>)
    /\ params' = [x \in DOMAIN params \cup {k} |-> IF x = k THEN Head(wire).text ELSE params[x]]
    /\ UNCHANGED <<call, step, answer, names, broken, result>>

ReadList ==
    LET l == Head(wire)
    IN  /\ Reads(TheList)
        /\ Take(Copies(l.size, IF l.elem = "string" THEN TheName ELSE Skip(l.elem)))
        /\ names' = IF l.elem = "string" THEN <<>> ELSE names
        /\ UNCHANGED <<call, step, answer, params, broken, result>>

ReadName ==
    /\ Reads(TheName)
    /\ Take(<<>>)
    /\ names' = Append(names, Head(wire).text)
    /\ UNCHANGED <<call, step, answer, params, broken, result>>

(* External: the library's Skip, of everything but a struct, which is read *)
(* field by field as above.                                                *)
SkipItem(type) ==
    LET item == Head(wire)
    IN  /\ Reads(Skip(type)) /\ type # "struct"
        /\ Take(CASE type = "map" -> PairReaders(item)
                  [] type = "list" -> Copies(item.size, Skip(item.elem))
                  [] OTHER -> <<>>)
        /\ UNCHANGED <<call, step, answer, params, names, broken, result>>

(* The connection breaks: an error of the call, except that an exception   *)
(* whose struct has begun is returned whatever becomes of its message.     *)
ConnectionBreaks ==
    /\ step = "reading"
    /\ broken' = TRUE
    /\ Return(IF Fields("NoSuchObject") \in Range(todo) THEN NotFound ELSE Error)
    /\ UNCHANGED <<call, answer, wire, todo, params, names>>

HiveNext ==
    \/ Dial \/ SendRequest \/ CallFails \/ Reply \/ ConnectionBreaks
    \/ ReadMessageBegin \/ ReadMap \/ ReadKey \/ ReadList \/ ReadName
    \/ \E owner \in Owners : ReadField(owner) \/ ReadStop(owner)
    \/ \E k \in Keys : ReadValue(k)
    \/ \E type \in Types : SkipItem(type)

-----------------------------------------------------------------------------
(* Properties                                                              *)

HiveTypeOK ==
    /\ call \in Calls /\ step \in {"idle", "connected", "sent", "reading", "done"}
    /\ answer \in Answers(call) \cup {NoAnswer}
    /\ params \in Params /\ broken \in BOOLEAN
    /\ result \in {Error, NotFound} \/ result.status = "ok"

(* What the server meant.                                                  *)
Meaning ==
    CASE answer.body = "success" /\ call = "get_table" -> Entry(answer.of.value)
      [] answer.body \in {"success", "empty"} /\ call = "get_all_tables" -> Listing(answer.of.value)
      [] answer.body = "NoSuchObject" -> NotFound
      [] OTHER -> Error

(* thrift_client.go:241: the stream stays aligned.  Whatever else a reply  *)
(* carries, the next item is always of the kind that the innermost reader  *)
(* takes; a call that is not interrupted returns what the server meant,    *)
(* and one that is returns an error and nothing half read.                 *)
ReplyUnderstood ==
    /\ step = "reading" => wire # <<>> /\ todo # <<>> /\ Head(wire).is = Head(todo).reads
    /\ step = "done" /\ answer # NoAnswer => result = Meaning \/ (broken /\ result = Error)
=============================================================================
