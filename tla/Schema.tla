------------------------------- MODULE Schema -------------------------------
(***************************************************************************)
(* Typed schemas and sparse mutations (crates/temnion-schema): validation, *)
(* application to the state of an entity, and the canonical binary form.   *)
(* A payload is a sequence of cells: one for each integer, tag or          *)
(* character the code writes, whatever its width in bytes; a number is the *)
(* pattern of bits it is written as.                                       *)
(***************************************************************************)
EXTENDS Integers, Sequences, SequencesExt, TLC, HistoryFilter

CONSTANTS
    FieldLists,     \* catalogs given to Schema::new: sequences of fields
    Versions,       \* schema versions given to Schema::new
    MutationsIn,    \* mutations a writer sends
    NoiseCells,     \* what a damaged cell may read as
    MaxFields,      \* MAX_SCHEMA_FIELDS = MAX_MUTATION_FIELDS
    MaxText,        \* MAX_FIELD_NAME_BYTES and MAX_FIELD_UNIT_BYTES
    MaxPayload,     \* max_bytes
    MaxDamage       \* bound: cells damaged on one payload

VARIABLES
    schema,         \* the schema in use: None before Schema::new succeeds
    payload,        \* the payload under way: what it is, its cells
    sent,           \* the value it was encoded from
    damage,         \* how often it was damaged
    state           \* the scalar state of the entity, field -> value

schemaVars == <<schema, payload, sent, damage, state>>

(* Characters: a letter, a digit, a blank, a byte that is not UTF-8.       *)
Letter == 1
Digit == 2
BlankCell == 3
NotUtf8 == 9

Kinds6 == <<"bool", "i64", "u64", "f64", "utf8", "bytes">>
TagOf(kind) == (CHOOSE i \in DOMAIN Kinds6 : Kinds6[i] = kind) - 1
Value(kind, data) == [kind |-> kind, data |-> data]
Null == Value("null", 0)
Delete == [op |-> "delete"]
Upsert(updates) == [op |-> "upsert", updates |-> updates]

SchemaInit ==
    /\ schema = None /\ payload = None /\ sent = None
    /\ damage = 0
    /\ state = <<>>

-----------------------------------------------------------------------------
(* What a value, an update, a field and a mutation can be: text of the     *)
(* type String is UTF-8.                                                   *)

Utf8(t) == \A i \in DOMAIN t : t[i] # NotUtf8

IsValue(v) ==
    /\ v = Value(v.kind, v.data)
    /\ v.kind \in {"null"} \union Range(Kinds6)
    /\ v.kind = "null" => v.data = 0
    /\ v.kind \in {"utf8", "bytes"} => v.data \in Seq(Nat)
    /\ v.kind = "utf8" => Utf8(v.data)
    /\ v.kind = "bool" => v.data \in {0, 1}
    /\ v.kind \in {"i64", "u64", "f64"} => v.data \in Nat

IsUpdate(u) == u = [id |-> u.id, value |-> u.value] /\ u.id \in Nat /\ IsValue(u.value)

IsField(f) ==
    /\ f = [id |-> f.id, name |-> f.name, kind |-> f.kind,
            nullable |-> f.nullable, unit |-> f.unit]
    /\ f.id \in Nat /\ f.kind \in Range(Kinds6) /\ f.nullable \in BOOLEAN
    /\ f.name \in Seq(Nat) /\ Utf8(f.name)
    /\ \A u \in f.unit : f.unit = Some(u) /\ u \in Seq(Nat) /\ Utf8(u)

IsMutation(m) ==
    m # Delete =>
        /\ m = Upsert(m.updates)
        /\ m.updates \in Seq(Range(m.updates)) /\ \A u \in Range(m.updates) : IsUpdate(u)

ASSUME SchemaAssumption ==
    /\ Versions \subseteq Nat /\ NoiseCells \subseteq Nat
    /\ MaxFields \in Nat /\ MaxText \in Nat /\ MaxPayload \in Nat
    /\ \A fields \in FieldLists :
          fields \in Seq(Range(fields)) /\ \A f \in Range(fields) : IsField(f)
    /\ \A m \in MutationsIn : IsMutation(m)

-----------------------------------------------------------------------------
(* Schemas and what they accept                                            *)

ValidName(name) ==
    /\ name # <<>> /\ Len(name) <= MaxText
    /\ name[1] = Letter
    /\ \A i \in 2..Len(name) : name[i] \in {Letter, Digit}

(* No unit, or one that trim leaves alone.                                 *)
ValidUnit(unit) ==
    \A u \in unit :
        /\ u # <<>> /\ Len(u) <= MaxText
        /\ BlankCell \notin {u[1], Last(u)}

(* By id.                                                                  *)
Ascending(s) ==
    LET ids == Ranked({x.id : x \in Range(s)})
    IN  [i \in DOMAIN ids |-> CHOOSE x \in Range(s) : x.id = ids[i]]

Distinct(s, Key(_)) == \A i, j \in DOMAIN s : i # j => Key(s[i]) # Key(s[j])

(* Schema::new, None for every error.                                      *)
NewSchema(id, version, fields) ==
    IF /\ version > 0
       /\ Len(fields) <= MaxFields
       /\ \A i \in DOMAIN fields : ValidName(fields[i].name) /\ ValidUnit(fields[i].unit)
       /\ Distinct(fields, LAMBDA f : f.id) /\ Distinct(fields, LAMBDA f : f.name)
    THEN Some([id |-> id, version |-> version, fields |-> Ascending(fields)])
    ELSE None

FieldOf(s, id) == {f \in Range(s.fields) : f.id = id}

ValidValue(field, value) ==
    IF value.kind = "null" THEN field.nullable ELSE value.kind = field.kind

ValidShape(updates) ==
    /\ updates # <<>> /\ Len(updates) <= MaxFields
    /\ Distinct(updates, LAMBDA u : u.id)

Accepted(s, id, value) == \E f \in FieldOf(s, id) : ValidValue(f, value)

ValidMutation(s, m) ==
    m.op = "upsert" =>
        ValidShape(m.updates) /\ \A u \in Range(m.updates) : Accepted(s, u.id, u.value)

CompleteState(s, st) ==
    /\ \A id \in DOMAIN st : Accepted(s, id, st[id])
    /\ \A f \in Range(s.fields) : ~f.nullable => f.id \in DOMAIN st

(* Schema::apply: the state that replaces st, st itself after an error.    *)
Applied(s, st, m) ==
    IF m.op = "delete" THEN <<>>
    ELSE LET next == FoldLeft(LAMBDA acc, u : (u.id :> u.value) @@ acc, st, m.updates)
         IN  IF ValidMutation(s, m) /\ CompleteState(s, next) THEN next ELSE st

-----------------------------------------------------------------------------
(* Encoding                                                                *)

Text(t) == <<Len(t)>> \o t

WriteValue(v) ==
    CASE v.kind = "null" -> <<0>>
      [] v.kind \in {"utf8", "bytes"} -> <<TagOf(v.kind) + 1>> \o Text(v.data)
      [] OTHER -> <<TagOf(v.kind) + 1, v.data>>

WriteUpdate(u) == <<u.id>> \o WriteValue(u.value)

WriteUnit(unit) == IF unit = None THEN <<0>> ELSE <<1>> \o Text(Unwrap(unit))

WriteField(f) ==
    <<f.id, TagOf(f.kind), IF f.nullable THEN 1 ELSE 0>> \o Text(f.name) \o WriteUnit(f.unit)

ValueSize(v) ==
    CASE v.kind = "null" -> 1
      [] v.kind \in {"utf8", "bytes"} -> 2 + Len(v.data)
      [] OTHER -> 2

FieldSize(f) ==
    5 + Len(f.name) + (IF f.unit = None THEN 0 ELSE 1 + Len(Unwrap(f.unit)))

(* An item is a field of a schema or an update of a mutation.              *)
WriteItem(what, x) == IF what = "schema" THEN WriteField(x) ELSE WriteUpdate(x)
ItemSize(what, x) == IF what = "schema" THEN FieldSize(x) ELSE 1 + ValueSize(x.value)

WriteItems(what, items) ==
    LET Out[i \in 0..Len(items)] ==
            IF i = 0 THEN <<>> ELSE Out[i - 1] \o WriteItem(what, items[i])
    IN  Out[Len(items)]

ItemsSize(what, items) ==
    LET Sum[i \in 0..Len(items)] ==
            IF i = 0 THEN 0 ELSE Sum[i - 1] + ItemSize(what, items[i])
    IN  Sum[Len(items)]

(* encode_mutation takes the least remaining field each time round.        *)
EncodeMutation(m) ==
    IF m.op = "delete" THEN <<1, 0>>
    ELSE <<1, 1, Len(m.updates)>> \o WriteItems("mutation", Ascending(m.updates))

(* mutation_encoded_size, None when the shape of the mutation is refused;  *)
(* the sum is the same in the order they are written in.                   *)
MutationSize(m) ==
    IF m.op = "delete" THEN Some(2)
    ELSE IF ValidShape(m.updates)
    THEN Some(3 + ItemsSize("mutation", Ascending(m.updates)))
    ELSE None

EncodeSchema(s) == <<1, s.id, s.version, Len(s.fields)>> \o WriteItems("schema", s.fields)

SchemaSize(s) == 4 + ItemsSize("schema", s.fields)

-----------------------------------------------------------------------------
(* Decoding: a reader is the position of the cursor, what was read so far  *)
(* and whether any read failed.                                            *)

Read(at, got) == [ok |-> TRUE, at |-> at, got |-> got]
Bad == [ok |-> FALSE, at |-> 0, got |-> <<>>]

(* take of the bytes after a length that is at most max.                   *)
ReadText(cells, at, max, utf8) ==
    IF /\ at <= Len(cells)
       /\ cells[at] <= max
       /\ at + cells[at] <= Len(cells)
       /\ utf8 => \A i \in at + 1..at + cells[at] : cells[i] # NotUtf8
    THEN Read(at + cells[at] + 1, SubSeq(cells, at + 1, at + cells[at]))
    ELSE Bad

ReadValue(cells, at) ==
    LET tag == cells[at]
        kind == Kinds6[tag]
        text == ReadText(cells, at + 1, MaxPayload, kind = "utf8")
    IN  IF at > Len(cells) \/ tag > 6 THEN Bad
        ELSE IF tag = 0 THEN Read(at + 1, Null)
        ELSE IF kind \in {"utf8", "bytes"}
        THEN IF text.ok THEN Read(text.at, Value(kind, text.got)) ELSE Bad
        ELSE IF at < Len(cells) /\ (kind = "bool" => cells[at + 1] \in {0, 1})
        THEN Read(at + 2, Value(kind, cells[at + 1]))
        ELSE Bad

(* Mutant: the ids of a payload may come in any order.                     *)
InOrder_Any(got, id) == \A i \in DOMAIN got : got[i].id # id

(* No id is repeated and none is below the one before it.                  *)
InOrder(got, id) == got # <<>> => Last(got).id < id

ReadUpdate(cells, at) ==
    LET value == ReadValue(cells, at + 1)
    IN  IF at < Len(cells) /\ value.ok
        THEN Read(value.at, [id |-> cells[at], value |-> value.got])
        ELSE Bad

ReadUnit(cells, at) ==
    LET unit == ReadText(cells, at + 1, MaxText, TRUE)
    IN  IF at > Len(cells) \/ cells[at] > 1 THEN Bad
        ELSE IF cells[at] = 0 THEN Read(at + 1, None)
        ELSE IF unit.ok THEN Read(unit.at, Some(unit.got)) ELSE Bad

ReadField(cells, at) ==
    LET name == ReadText(cells, at + 3, MaxText, TRUE)
        unit == ReadUnit(cells, name.at)
    IN  IF /\ at + 2 <= Len(cells)
           /\ cells[at + 1] < 6 /\ cells[at + 2] \in {0, 1}
           /\ name.ok /\ unit.ok
        THEN Read(unit.at,
                [id |-> cells[at], name |-> name.got, kind |-> Kinds6[cells[at + 1] + 1],
                 nullable |-> cells[at + 2] = 1, unit |-> unit.got])
        ELSE Bad

ReadItem(what, cells, at) ==
    IF what = "schema" THEN ReadField(cells, at) ELSE ReadUpdate(cells, at)

(* One turn of the loop over the items, the order of the ids included.     *)
ReadOn(what, cells, r) ==
    LET item == ReadItem(what, cells, r.at)
    IN  IF r.ok /\ item.ok /\ InOrder(r.got, item.got.id)
        THEN Read(item.at, Append(r.got, item.got))
        ELSE Bad

ReadItems(what, cells, at, n) ==
    LET In[i \in 0..n] == IF i = 0 THEN Read(at, <<>>) ELSE ReadOn(what, cells, In[i - 1])
    IN  In[n]

DecodeMutation(cells) ==
    LET updates == ReadItems("mutation", cells, 4, cells[3])
    IN  IF Len(cells) \notin 2..MaxPayload \/ cells[1] # 1 THEN None
        ELSE IF cells[2] = 0 THEN (IF Len(cells) = 2 THEN Some(Delete) ELSE None)
        ELSE IF /\ cells[2] = 1 /\ Len(cells) > 2
                /\ cells[3] \in 1..MaxFields
                /\ updates.ok /\ updates.at = Len(cells) + 1
        THEN Some(Upsert(updates.got))
        ELSE None

(* decode_schema ends with Schema::new, which checks what it read.         *)
DecodeSchema(cells) ==
    LET fields == ReadItems("schema", cells, 5, cells[4])
    IN  IF /\ Len(cells) \in 4..MaxPayload
           /\ cells[1] = 1 /\ cells[4] <= MaxFields
           /\ fields.ok /\ fields.at = Len(cells) + 1
        THEN NewSchema(cells[2], cells[3], fields.got)
        ELSE None

-----------------------------------------------------------------------------
(* A writer sends its schema and mutations; storage or a network may       *)
(* change, cut or extend what it carries; a reader decodes and applies.    *)

SendSchema(version, fields) ==
    /\ payload = None /\ schema = None
    /\ \E s \in NewSchema(7, version, fields) :
          /\ SchemaSize(s) <= MaxPayload
          /\ payload' = Some([what |-> "schema", cells |-> EncodeSchema(s)])
          /\ sent' = Some(s)
    /\ damage' = 0
    /\ UNCHANGED <<schema, state>>

SendMutation(m) ==
    /\ payload = None /\ schema # None
    /\ \E size \in MutationSize(m) : size <= MaxPayload
    /\ payload' = Some([what |-> "mutation", cells |-> EncodeMutation(m)])
    /\ sent' = Some(m)
    /\ damage' = 0
    /\ UNCHANGED <<schema, state>>

Damage ==
    /\ damage < MaxDamage
    /\ \E p \in payload :
          \/ \E i \in DOMAIN p.cells, c \in NoiseCells :
                payload' = Some([p EXCEPT !.cells[i] = c])
          \/ \E n \in 0..Len(p.cells) - 1 : payload' = Some([p EXCEPT !.cells = SubSeq(@, 1, n)])
          \/ \E c \in NoiseCells : payload' = Some([p EXCEPT !.cells = Append(@, c)])
    /\ damage' = damage + 1
    /\ UNCHANGED <<schema, sent, state>>

Receive ==
    /\ \E p \in payload :
          IF p.what = "schema"
          THEN /\ schema' = DecodeSchema(p.cells)
               /\ UNCHANGED state
          ELSE LET m == DecodeMutation(p.cells)
               IN  /\ state' = IF m = None THEN state
                               ELSE Applied(Unwrap(schema), state, Unwrap(m))
                   /\ UNCHANGED schema
    /\ payload' = None /\ sent' = None /\ damage' = 0

SchemaNext ==
    \/ \E version \in Versions, fields \in FieldLists : SendSchema(version, fields)
    \/ \E m \in MutationsIn : SendMutation(m)
    \/ Damage
    \/ Receive

-----------------------------------------------------------------------------
(* Sorted as encode_mutation writes it.                                    *)
WireOrder(what, v) ==
    IF what = "mutation" /\ v.op = "upsert" THEN [v EXCEPT !.updates = Ascending(@)] ELSE v

(* Whatever became of a payload, the decoder either refuses it or it is,   *)
(* cell by cell, the encoding of the value it returns, with the size       *)
(* computed beforehand; one that arrived whole is what was sent (the       *)
(* "canonical" of the crate's documentation and the debug_assert of the    *)
(* encoders).  The state the mutations build is complete at every step.    *)
PayloadsAreCanonical ==
    /\ \A p \in payload :
          LET decoded == IF p.what = "schema" THEN DecodeSchema(p.cells)
                         ELSE DecodeMutation(p.cells)
          IN  /\ damage = 0 => decoded = Some(WireOrder(p.what, Unwrap(sent)))
              /\ \A v \in decoded :
                    IF p.what = "schema"
                    THEN EncodeSchema(v) = p.cells /\ SchemaSize(v) = Len(p.cells)
                    ELSE EncodeMutation(v) = p.cells /\ MutationSize(v) = Some(Len(p.cells))
    /\ \A s \in schema : state = <<>> \/ CompleteState(s, state)
=============================================================================
