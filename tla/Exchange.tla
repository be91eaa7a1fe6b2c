------------------------------ MODULE Exchange -------------------------------
(***************************************************************************)
(* One request and its answer as they cross the wire: execute in           *)
(* src/client.c turns a view into a message, encodes and sends it;         *)
(* do_connection in src/server.c decodes it, works, encodes and sends the  *)
(* answer, and the client decodes that.  Each side sends its whole buffer, *)
(* with what was in it behind the message, and receives once, so perhaps   *)
(* a part; no side looks at what pb_encode and pb_decode return.           *)
(*                                                                         *)
(* Numbers are those of the structs; ids and values here fit into 32 bits. *)
(* The union of an Attribute is left out of the conversion: the code never *)
(* sets which_values, so no byte of it is sent.                            *)
(***************************************************************************)
EXTENDS MessageDecoder, MessageEncoder

CONSTANTS
    Views,       \* what parse may return
    BufferSize,  \* BUFFER_SIZE, 1024
    Fills,       \* what the buffers hold before they are used
    Founds,      \* lists of tuples that do_filter may find
    Codes,       \* what parse_request may return
    Arrivals,        \* bytes of the client's buffer that the server's recv may get
    AnswerArrivals   \* bytes of the server's that the client's may get

ASSUME CodecAssumption == Messages = MessageNames /\ Descriptor = Descriptors

\* parse_request returns 0, 1, 13 or 42, or what a crud_ function returned: 0 to 2.
ASSUME AnswersAssumption ==
    /\ BufferSize \in Nat /\ BufferSize >= 2
    /\ Codes \subseteq 0..127
    /\ AnswerArrivals \subseteq Nat

VARIABLES
    phase,   \* "ask", "query", "server", "answer", "client", "shown", or "fault"
    shown,   \* the code execute returned, for main to show, byte by byte
    view,    \* the client's view
    fill,    \* every byte of a buffer that was not written
    out,     \* what pb_encode left in the buffer that was sent last, and whether it is all
    got,     \* bytes of it that were received
    reply    \* what the server answered

exchange == <<phase, shown, view, fill, out, got, reply>>
vars == <<decoder, exchange>>

CRUD_FIND == 63

-----------------------------------------------------------------------------
(***************************************************************************)
(* Structs in memory.                                                      *)
(***************************************************************************)
PlaceOf(m, name) == Layout[m].place[CHOOSE i \in DOMAIN FieldList[m] : FieldList[m][i].name = name]

Offset(m, name) == PlaceOf(m, name).data

\* The i-th entry of an array, from 1, and where its count is.
EntryAt(base, m, name, i) ==
    LET at(place) == base + place.data + (i - 1) * place.size IN at(PlaceOf(m, name))

CountOf(base, m, name) == base + PlaceOf(m, name).count

Word(n) == [i \in 1..4 |-> (n \div 256^(i - 1)) % 256]

At(a, b) == [x \in {a + i - 1 : i \in DOMAIN b} |-> b[x - a + 1]]

Member(base, m, name, n) == At(base + Offset(m, name), Word(n))

Counter(base, m, name, n) == At(CountOf(base, m, name), <<n % 256, n \div 256>>)

\* strcpy
Copied(a, s) == At(a, Append(s, 0))

Joined(parts) ==
    [x \in UNION {DOMAIN p : p \in parts} |-> (CHOOSE p \in parts : x \in DOMAIN p)[x]]

-----------------------------------------------------------------------------
(***************************************************************************)
(* convert_to_message: the lists of a view become the arrays of a tree.    *)
(* A list_element that is not there is <<>>, an operand None.              *)
(***************************************************************************)
None == [field |-> -1, type |-> -1, name |-> <<>>]

OperandMemory(o, base) ==
    LET value == base + Offset("Operator", "value")
    IN  {Member(base, "Operator", "field", o.field), Member(value, "Attribute", "type", o.type)}
        \cup IF o.field = 1 THEN {Copied(value + Offset("Attribute", "name"), o.name)} ELSE {}

ComparatorMemory(c, base) ==
    {Member(base, "Comparator", "negative", c.negative),
     Member(base, "Comparator", "is_true", c.is_true),
     Member(base, "Comparator", "operation", c.operation)}
    \cup OperandMemory(c.op1, base + Offset("Comparator", "op1"))
    \cup OperandMemory(c.op2, base + Offset("Comparator", "op2"))

FilterMemory(f, base) ==
    {Member(base, "Filter", "negative", f.negative),
     Counter(base, "Filter", "comp", Len(f.comparators))}
    \cup UNION {ComparatorMemory(f.comparators[i], EntryAt(base, "Filter", "comp", i)) :
                  i \in DOMAIN f.comparators}

LevelMemory(l, base) ==
    {Member(base, "Level", "negative", l.negative), Member(base, "Level", "any", l.any),
     Member(base, "Level", "parent", l.place),      Member(base, "Level", "id", l.value[1]),
     Counter(base, "Level", "filters", Len(l.filters))}
    \cup UNION {FilterMemory(l.filters[i], EntryAt(base, "Level", "filters", i)) :
                  i \in DOMAIN l.filters}

\* With the name and the value that execute asks for when the command is an update.
TreeMemory(v) ==
    {Member(0, "Query_tree", "command", v.crud_operation),
     Counter(0, "Query_tree", "level", Len(v.tree)),
     Copied(Offset("Query_tree", "name"), v.name),
     Member(0, "Query_tree", "value", v.value)}
    \cup UNION {LevelMemory(v.tree[i], EntryAt(0, "Query_tree", "level", i)) : i \in DOMAIN v.tree}

\* Nothing of the view that is used is NULL.
NothingMissing(v) ==
    \A i \in DOMAIN v.tree :
        /\ v.tree[i].value # <<>>
        /\ \A j \in DOMAIN v.tree[i].filters :
             \A k \in DOMAIN v.tree[i].filters[j].comparators :
                LET c == v.tree[i].filters[j].comparators[k] IN c.op1 # None /\ c.op2 # None

\* The arrays have room for what the lists hold.
RoomForAll(v) ==
    /\ Len(v.tree) <= ArraySize
    /\ \A i \in DOMAIN v.tree :
         /\ Len(v.tree[i].filters) <= ArraySize
         /\ \A j \in DOMAIN v.tree[i].filters :
              Len(v.tree[i].filters[j].comparators) <= ArraySize

-----------------------------------------------------------------------------
(***************************************************************************)
(* get_collection, and the answer when the command is another.             *)
(***************************************************************************)
TupleMemory(t, base) ==
    LET data == base + Offset("Tuple", "data")
        value(i) == EntryAt(data, "Entity", "values", i)
    IN  {Member(base, "Tuple", "id", t.id), Member(base, "Tuple", "parent_id", t.parent),
         Counter(data, "Entity", "values", 2),
         Member(value(1), "Attribute", "type", 3), Member(value(2), "Attribute", "type", 1)}

CollectionMemory(found) ==
    {Counter(0, "Collection", "tuples", Len(found))}
    \cup UNION {TupleMemory(found[i], EntryAt(0, "Collection", "tuples", i)) : i \in DOMAIN found}

-----------------------------------------------------------------------------
Unused == [find |-> FALSE, found |-> <<>>, code |-> 0]

ExchangeInit ==
    /\ phase = "ask"
    /\ shown = <<>>
    /\ view \in Views
    /\ fill \in Fills
    /\ out = [bytes |-> <<>>, ok |-> TRUE]
    /\ got = 0
    /\ reply = Unused
    /\ buf = <<>> /\ pos = 0 /\ stack = Opened(<<>>, "Query_tree") /\ dest = <<>> /\ status = "none"

\* recv: the first n bytes of the other side's buffer, in a buffer of one's own.
Received(n) ==
    [i \in 1..BufferSize |-> IF i <= n /\ i <= Len(out.bytes) THEN out.bytes[i] ELSE fill]

\* A slip: the struct keeps what was decoded into it last.
Decode_Reused(n, m) ==
    /\ buf' = Received(n)
    /\ pos' = 0
    /\ stack' = Opened(Received(n), m)
    /\ dest' = Written(Zeros(m), 0, dest)
    /\ status' = "decoding"

Decode(n, m) ==
    /\ buf' = Received(n)
    /\ pos' = 0
    /\ stack' = Opened(Received(n), m)
    /\ dest' = Zeros(m)
    /\ status' = "decoding"

Send(message, memory) ==
    out' = Encoded(Joined(memory), message, BufferSize)

-----------------------------------------------------------------------------
\* execute, up to send.
Ask ==
    /\ phase = "ask"
    /\ NothingMissing(view)
    /\ RoomForAll(view)
    /\ Send("Query_tree", TreeMemory(view))
    /\ phase' = "query"
    /\ UNCHANGED <<decoder, shown, view, fill, got, reply>>

\* A NULL pointer is followed, or what is behind an array overwritten.
AskFaults ==
    /\ phase = "ask"
    /\ ~(NothingMissing(view) /\ RoomForAll(view))
    /\ phase' = "fault"
    /\ UNCHANGED <<decoder, shown, view, fill, out, got, reply>>

\* do_connection, up to pb_decode.
ServerReceives ==
    /\ phase = "query"
    /\ \E n \in Arrivals :
        /\ got' = n
        /\ Decode(n, "Query_tree")
    /\ phase' = "server"
    /\ UNCHANGED <<shown, view, fill, out, reply>>

Decoding == /\ phase \in {"server", "client"}
            /\ Next
            /\ UNCHANGED exchange

Decoded == status \notin {"none", "decoding"}

Command == Bytes(dest, Offset("Query_tree", "command"), 4)

\* The rest of do_connection.
ServerAnswers ==
    /\ phase = "server"
    /\ Decoded
    /\ \/ /\ Command = Word(CRUD_FIND)
          /\ \E found \in Founds :
                /\ Len(found) <= ArraySize
                /\ reply' = [find |-> TRUE, found |-> found, code |-> 0]
                /\ Send("Collection", CollectionMemory(found))
       \/ /\ Command # Word(CRUD_FIND)
          /\ \E code \in Codes :
                /\ reply' = [find |-> FALSE, found |-> <<>>, code |-> code]
                /\ Send("Return_code", {Member(0, "Return_code", "code", code)})
    /\ phase' = "answer"
    /\ UNCHANGED <<decoder, shown, view, fill, got>>

\* get_collection writes behind the array.
ServerFaults ==
    /\ phase = "server"
    /\ Decoded
    /\ Command = Word(CRUD_FIND)
    /\ \E found \in Founds : Len(found) > ArraySize
    /\ phase' = "fault"
    /\ UNCHANGED <<decoder, shown, view, fill, out, got, reply>>

\* Both cases of the switch decode a Return_code, one of them into a Collection.
ClientReceives ==
    /\ phase = "answer"
    /\ \E n \in AnswerArrivals :
        /\ got' = n
        /\ Decode(n, "Return_code")
    /\ phase' = "client"
    /\ UNCHANGED <<shown, view, fill, out, reply>>

\* A find returns 0 whatever was decoded.
ClientShows ==
    /\ phase = "client"
    /\ Decoded
    /\ shown' = IF view.crud_operation = CRUD_FIND THEN Word(0) ELSE Bytes(dest, 0, 4)
    /\ phase' = "shown"
    /\ UNCHANGED <<decoder, view, fill, out, got, reply>>

ExchangeNext ==
    \/ Ask \/ AskFaults
    \/ ServerReceives \/ Decoding \/ ServerAnswers \/ ServerFaults
    \/ ClientReceives \/ ClientShows

ExchangeSpec == ExchangeInit /\ [][ExchangeNext]_vars

-----------------------------------------------------------------------------
(***************************************************************************)
(* A query as the list of its fields in the order of the wire: the tree in *)
(* memory, and the view.  An entry of an array begins with a field of its  *)
(* own, which is there when the entry is.                                  *)
(***************************************************************************)
StringAt(mem, a) ==
    LET n == CHOOSE k \in 0..StringSize - 1 :
                /\ ByteAt(mem, a + k) = 0
                /\ \A i \in 0..k - 1 : ByteAt(mem, a + i) # 0
    IN  Bytes(mem, a, n)

WordAt(mem, base, m, name) == Bytes(mem, base + Offset(m, name), 4)

EntryCount(mem, base, m, name) ==
    ByteAt(mem, CountOf(base, m, name)) + 256 * ByteAt(mem, CountOf(base, m, name) + 1)

Has(key, bytes) == <<[key |-> key, bytes |-> bytes]>>

Listed(key, entries) ==
    FlattenSeq([i \in DOMAIN entries |-> Has(key, Word(1)) \o entries[i]])

EntriesAt(mem, base, m, name, of(_)) ==
    Listed(name, [i \in 1..EntryCount(mem, base, m, name) |-> of(EntryAt(base, m, name, i))])

QueryAt(mem) ==
    LET word(base, m, name) == Has(name, WordAt(mem, base, m, name))
        text(base, m) == Has("name", StringAt(mem, base + Offset(m, "name")))
        operand(base) ==
          LET value == base + Offset("Operator", "value")
          IN  word(base, "Operator", "field") \o word(value, "Attribute", "type")
              \o text(value, "Attribute")
        comparator(base) ==
          word(base, "Comparator", "negative") \o word(base, "Comparator", "is_true")
          \o word(base, "Comparator", "operation")
          \o operand(base + Offset("Comparator", "op1"))
          \o operand(base + Offset("Comparator", "op2"))
        filter(base) ==
          word(base, "Filter", "negative") \o EntriesAt(mem, base, "Filter", "comp", comparator)
        level(base) ==
          word(base, "Level", "negative") \o word(base, "Level", "any")
          \o word(base, "Level", "parent") \o word(base, "Level", "id")
          \o EntriesAt(mem, base, "Level", "filters", filter)
    IN  word(0, "Query_tree", "command") \o EntriesAt(mem, 0, "Query_tree", "level", level)
        \o text(0, "Query_tree") \o word(0, "Query_tree", "value")

EachOf(name, list, of(_)) == Listed(name, [i \in DOMAIN list |-> of(list[i])])

QueryOf(v) ==
    LET word(name, n) == Has(name, Word(n))
        operand(o) == word("field", o.field) \o word("type", o.type)
                      \o Has("name", IF o.field = 1 THEN o.name ELSE <<>>)
        comparator(c) == word("negative", c.negative) \o word("is_true", c.is_true)
                         \o word("operation", c.operation) \o operand(c.op1) \o operand(c.op2)
        filter(f) == word("negative", f.negative) \o EachOf("comp", f.comparators, comparator)
        level(l) == word("negative", l.negative) \o word("any", l.any)
                    \o word("parent", l.place) \o word("id", l.value[1])
                    \o EachOf("filters", l.filters, filter)
    IN  word("command", v.crud_operation) \o EachOf("level", v.tree, level)
        \o Has("name", v.name) \o word("value", v.value)

Served == phase = "server" /\ Decoded

NumberOf(w) == w[1] + 256 * (w[2] + 256 * (w[3] + 256 * w[4]))

\* Of a number that is cut the lowest groups of seven bits are read, of a string the first bytes.
IsCutField(seen, asked) ==
    /\ seen.key = asked.key
    /\ IF asked.key = "name" THEN IsPrefix(seen.bytes, asked.bytes)
       ELSE \E k \in 0..4 : seen.bytes = Word(NumberOf(asked.bytes) % 128^k)

\* The first fields of those asked for, the next one cut or absent, and none of the others.
IsCutAfter(n, seen, asked) ==
    /\ n <= Len(seen)
    /\ \A i \in 1..n : seen[i] = asked[i]
    /\ \A i \in n + 1..Len(seen) :
         \/ \A k \in DOMAIN seen[i].bytes : seen[i].bytes[k] = 0
         \/ i = n + 1 /\ i <= Len(asked) /\ IsCutField(seen[i], asked[i])

(***************************************************************************)
(* A query that fits into the buffer and arrives is the client's, though   *)
(* what follows it in the buffer is decoded too (client.c:168-170, server.c:60-65), and    *)
(* though its sizes are found by encoding it first: provided that the      *)
(* buffer was clear, or is full.                                           *)
(***************************************************************************)
Arrives ==
    Served /\ out.ok /\ got >= Len(out.bytes)
    /\ (fill = 0 \/ Len(out.bytes) = BufferSize) =>
        QueryAt(dest) = QueryOf(view)

(***************************************************************************)
(* Of a query that does not fit or does not all arrive, the server acts on *)
(* a part, since neither side looks at a status (client.c:165-170,         *)
(* server.c:60-67).  With clear buffers the part is a beginning: the       *)
(* fields are the client's in the order of the wire, up to one that may be *)
(* cut, and none of those behind it is there.  So no other command is      *)
(* carried out, unless 0 is one, no level, filter or comparator is made    *)
(* up or reordered, and none but the last of each lacks anything.  What    *)
(* the last one lacks is 0, which has a meaning too: a level that is cut   *)
(* before its parent is carried out as one from the root (P_ROOT is 0,     *)
(* view.h:8), and one cut before its negative as not negated.              *)
(***************************************************************************)
PartIsOfTheQuery ==
    Served /\ fill = 0 =>
        LET asked == QueryOf(view)
        IN  \E n \in 0..Len(asked) : IsCutAfter(n, QueryAt(dest), asked)

(***************************************************************************)
(* The code that main shows, when clear buffers are used and the server    *)
(* answers with one: the server's, or 0, which main takes for success, if  *)
(* the answer did not all arrive.  Of a find it is 0 whatever the server   *)
(* answered, so a find whose command was lost on the way, and was answered *)
(* with an error, is shown as a success (client.c:179-192).                *)
(***************************************************************************)
AnswerArrives ==
    phase = "shown" /\ fill = 0 /\ ~reply.find =>
        shown = Word(IF view.crud_operation # CRUD_FIND /\ got >= Len(out.bytes)
                     THEN reply.code ELSE 0)

(***************************************************************************)
(* "The actual struct pointed to by dest must match the description in     *)
(* fields" (pb_decode.h:60): then the client shows as many tuples as the   *)
(* server found and sent whole.                                            *)
(***************************************************************************)
FoundIsShown ==
    phase = "shown" /\ fill = 0 /\ reply.find /\ out.ok /\ got >= Len(out.bytes) =>
        Bytes(dest, CountOf(0, "Collection", "tuples"), 2)
            = <<Len(reply.found) % 256, Len(reply.found) \div 256>>
=============================================================================
