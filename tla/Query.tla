-------------------------------- MODULE Query --------------------------------
(***************************************************************************)
(* The query surfaces and the executor (crates/temnion-query): TemQL,      *)
(* compact Tem and SQL texts are parsed into one logical plan, which is    *)
(* run over a page of the store or over the causal graph.  A text is the   *)
(* clauses and tokens its characters form; a number that does not parse is *)
(* -1.  Store::history (History) and the graph (Causal) are used by what   *)
(* they promise; the log here is a chain in which each event causes the    *)
(* next.                                                                   *)
(***************************************************************************)
EXTENDS Integers, Sequences, SequencesExt, FiniteSetsExt, TLC, Expressions

CONSTANTS
    StoredEvents,   \* events appended to the store: entity, schema, valid, known
    ScanRequests,   \* entity, from, until, known, filter, projection, limit
    TraceRequests,  \* origin, direction, depth, limit
    MaxRows,        \* QueryBudget::max_rows
    MaxStored       \* bound: events in the store

VARIABLES
    stored,         \* the log of the store
    asked,          \* the surface and the request of the last query
    reply           \* its result: rows (sequences), truncated; None on an error

queryVars == <<stored, asked, reply>>

QueryInit == stored = <<>> /\ asked = None /\ reply = None

-----------------------------------------------------------------------------
(* parse_expr: recursive descent over tokens <<"ident", name>>,            *)
(* <<"lit", value>>, <<"op", op>>, <<"not">>, <<"(">> and <<")">>.         *)

Parsed(at, e) == [ok |-> TRUE, at |-> at, e |-> e]
NoParse == [ok |-> FALSE, at |-> 0, e |-> <<>>]
TokenAt(ts, at) == IF at <= Len(ts) THEN ts[at] ELSE <<"end">>
Both(op, l, r) == IF r.ok THEN Parsed(r.at, <<op, l.e, r.e>>) ELSE NoParse

(* The level each level of the grammar takes its operands from.            *)
Operand == [or |-> "and", and |-> "cmp", cmp |-> "unary", not |-> "unary"]

RECURSIVE Parse(_, _, _), Loop(_, _, _)

(* The while loops of parse_or_expr and parse_and_expr.                    *)
Loop(op, ts, left) ==
    IF left.ok /\ TokenAt(ts, left.at) = <<"op", op>>
    THEN Loop(op, ts, Both(op, left, Parse(Operand[op], ts, left.at + 1)))
    ELSE left

Parse(level, ts, at) ==
    LET t == TokenAt(ts, at) IN
    CASE level \in {"or", "and"} -> Loop(level, ts, Parse(Operand[level], ts, at))
      [] level = "cmp" ->
            LET left == Parse(Operand[level], ts, at)
                op == TokenAt(ts, left.at)
            IN  IF left.ok /\ op[1] = "op" /\ op[2] \in Comparisons
                THEN Both(op[2], left, Parse(Operand[level], ts, left.at + 1))
                ELSE left
      [] level = "unary" /\ t = <<"not">> ->
            LET inner == Parse(Operand["not"], ts, at + 1)
            IN  IF inner.ok THEN Parsed(inner.at, <<"not", inner.e>>) ELSE NoParse
      [] level = "unary" /\ t = <<"(">> ->
            LET inner == Parse("or", ts, at + 1)
            IN  IF inner.ok /\ TokenAt(ts, inner.at) = <<")">>
                THEN Parsed(inner.at + 1, inner.e) ELSE NoParse
      [] level = "unary" /\ t[1] = "ident" -> Parsed(at + 1, <<"field", t[2]>>)
      [] level = "unary" /\ t[1] = "lit" -> Parsed(at + 1, t)
      [] OTHER -> NoParse

ParseExpr(ts) ==
    LET r == Parse("or", ts, 1)
    IN  IF r.ok /\ r.at = Len(ts) + 1 THEN Some(r.e) ELSE None

(* Display of an expression: every operator in parentheses of its own.     *)
RECURSIVE Display(_)
Display(e) ==
    CASE e[1] = "lit" -> <<e>>
      [] e[1] = "field" -> <<<<"ident", e[2]>>>>
      [] e[1] = "not" -> <<<<"not">>, <<"(">>>> \o Display(e[2]) \o <<<<")">>>>
      [] IsBinary(e) -> <<<<"(">>>> \o Display(e[2]) \o <<<<"op", e[1]>>>> \o Display(e[3])
                        \o <<<<")">>>>

-----------------------------------------------------------------------------
(* The parts the three surfaces share                                      *)

NoPlan == [ok |-> FALSE]
EmptyPlan == [ok |-> TRUE, entity |-> None, range |-> None, known |-> None,
              filter |-> None, projection |-> None, limit |-> None]

(* shard:slot:generation, or a slot of shard 0 in generation 1.            *)
ParseEntity(parts) ==
    IF \E i \in DOMAIN parts : parts[i] < 0 THEN None
    ELSE CASE Len(parts) = 3 -> Some(parts)
           [] Len(parts) = 1 -> Some(<<0, parts[1], 1>>)
           [] OTHER -> None

ParseRange(parts) ==
    IF Len(parts) = 2 /\ parts[1] >= 0 /\ parts[2] >= 0 THEN Some(parts) ELSE None

ParseNumber(n) == IF n >= 0 THEN Some(n) ELSE None

(* A part of a plan that has to parse, or there is no plan.                *)
With(plan, part, value) ==
    IF plan.ok /\ value # None THEN [plan EXCEPT ![part] = value] ELSE NoPlan

(* The names between the commas.  What is not a name matches no field.     *)
Names(ts) ==
    {ts[i][2] : i \in {j \in DOMAIN ts :
        /\ ts[j][1] = "ident"
        /\ TokenAt(ts, j + 1) \in {<<",">>, <<"end">>}
        /\ j > 1 => ts[j - 1] = <<",">>}}

(* No field at all is no projection.                                       *)
Project(plan, ts) ==
    IF ~plan.ok \/ \A i \in DOMAIN ts : ts[i] = <<",">> THEN plan
    ELSE [plan EXCEPT !.projection = Some(Names(ts))]

-----------------------------------------------------------------------------
(* parse_temql: one clause a line, in any order, the last of a kind wins.  *)
TemqlClause(plan, clause) ==
    CASE clause[1] = "FROM" -> plan
      [] clause[1] = "ENTITY" -> With(plan, "entity", ParseEntity(clause[2]))
      [] clause[1] = "TIME valid" -> With(plan, "range", ParseRange(clause[2]))
      [] clause[1] = "KNOWN_AS_OF" -> With(plan, "known", ParseNumber(clause[2]))
      [] clause[1] = "WHERE" -> With(plan, "filter", ParseExpr(clause[2]))
      [] clause[1] = "SELECT" -> Project(plan, clause[2])
      [] clause[1] = "LIMIT" -> With(plan, "limit", ParseNumber(clause[2]))
      [] OTHER -> NoPlan

ParseTemql(lines) == IF lines = <<>> THEN NoPlan ELSE FoldLeft(TemqlClause, EmptyPlan, lines)

(* The characters after a "!" are the limit: "!=" ends an expression too.  *)
Bang(ts) == {i \in DOMAIN ts : ts[i] \in {<<"!">>, <<"op", "ne">>}}
BeforeBang(ts) == IF Bang(ts) = {} THEN ts ELSE SubSeq(ts, 1, Min(Bang(ts)) - 1)
LimitAfter(plan, ts) ==
    LET at == Min(Bang(ts)) IN
    IF Bang(ts) = {} THEN plan
    ELSE IF ts[at] = <<"!">> /\ Len(ts) = at + 1 /\ ts[at + 1][1] = "lit"
    THEN With(plan, "limit", ParseNumber(ts[at + 1][2][2]))
    ELSE NoPlan

(* A ">" with a letter right after it may start the projection: the last   *)
(* one does.  (Compact texts are written without blanks.)                  *)
ProjectionMark(ts) ==
    {i \in DOMAIN ts : ts[i] = <<"op", "gt">> /\
        LET next == TokenAt(ts, i + 1) IN
        next[1] \in {"ident", "not"} \/ next \in {Lit(Bool(TRUE)), Lit(Bool(FALSE))}}

(* parse_compact_tem: the parts in a fixed order, at least one of them.  A *)
(* tail that starts with none of the three marks is not looked at.         *)
ParseCompact(text) ==
    LET Optional(plan, part, given, parsed) ==
            IF given = None THEN plan ELSE With(plan, part, parsed)
        head == Optional(Optional(Optional(EmptyPlan,
                    "entity", text.entity, UNION {ParseEntity(e) : e \in text.entity}),
                    "range", text.range, UNION {ParseRange(r) : r \in text.range}),
                    "known", text.known, UNION {ParseNumber(k) : k \in text.known})
        mark == TokenAt(text.tail, 1)
        rest == Tail(text.tail)
        body == BeforeBang(rest)
        limited == LimitAfter(head, rest)
        split == Max(ProjectionMark(body))
    IN  CASE head = EmptyPlan /\ text.tail = <<>> -> NoPlan
          [] mark = <<"?">> /\ ProjectionMark(body) = {} ->
                With(limited, "filter", ParseExpr(body))
          [] mark = <<"?">> /\ ProjectionMark(body) # {} ->
                Project(With(limited, "filter", ParseExpr(SubSeq(body, 1, split - 1))),
                        SubSeq(body, split + 1, Len(body)))
          [] mark = <<"op", "gt">> -> Project(limited, body)
          [] mark = <<"!">> -> LimitAfter(head, text.tail)
          [] OTHER -> head

(* split_sql_and: at every AND outside quotes, inside parentheses too, but *)
(* not at one that ends the text.  What is between two of them is a        *)
(* predicate even when it is empty, and then does not parse.               *)
Conjuncts(ts) ==
    LET bounds == {0, Len(ts) + 1} \union {i \in 1..Len(ts) - 1 : ts[i] = <<"op", "and">>}
        sorted == SetToSortSeq(bounds, <)
    IN  IF ts = <<>> THEN <<>>
        ELSE [i \in 1..Len(sorted) - 1 |-> SubSeq(ts, sorted[i] + 1, sorted[i + 1] - 1)]

(* Mutant: the lower bound of a range takes any comparison.                *)
Bound_AnyIsLower(field, op) ==
    CASE field = "valid_time" -> "from"
      [] field = "known_time" /\ op = "le" -> "known"
      [] field = "known_as_of" /\ op = "eq" -> "known"
      [] OTHER -> "filter"

(* What a predicate of a WHERE clause sets: > is taken for >=, <= for <.   *)
Bound(field, op) ==
    CASE field = "valid_time" /\ op \in {"ge", "gt"} -> "from"
      [] field = "valid_time" /\ op \in {"le", "lt"} -> "until"
      [] field = "known_time" /\ op = "le" -> "known"
      [] field = "known_as_of" /\ op = "eq" -> "known"
      [] OTHER -> "filter"

SqlPredicate(plan, ts) ==
    LET compares == Len(ts) >= 2 /\ ts[1][1] = "ident" /\ ts[2][1] = "op"
        part == IF compares THEN Bound(ts[1][2], ts[2][2]) ELSE "filter"
        number == IF Len(ts) = 3 /\ ts[3][1] = "lit" /\ ts[3][2][1] = "int"
                  THEN ParseNumber(ts[3][2][2]) ELSE None
        expr == ParseExpr(ts)
    IN  IF compares /\ ts[1][2] = "entity" /\ ts[2][2] = "eq"
        THEN With(plan, "entity", IF Len(ts) = 3 /\ ts[3][1] = "lit" /\ ts[3][2][1] = "entity"
                                  THEN ParseEntity(ts[3][2][2]) ELSE None)
        ELSE IF part # "filter" THEN With(plan, part, number)
        ELSE IF ~plan.ok \/ expr = None THEN NoPlan
        ELSE [plan EXCEPT !.filter = IF @ = None THEN expr
                                     ELSE Some(<<"and", Unwrap(@), Unwrap(expr)>>)]

(* parse_sql: one bound of the valid time alone is dropped.                *)
ParseSql(text) ==
    LET start == [entity |-> UNION {ParseEntity(e) : e \in text.table},
                  from |-> None, until |-> None] @@ EmptyPlan
        preds == FoldLeft(SqlPredicate, start, Conjuncts(text.where))
        both == [preds EXCEPT !.range =
                    IF preds.from # None /\ preds.until # None
                    THEN Some(<<Unwrap(preds.from), Unwrap(preds.until)>>) ELSE None]
    IN  IF ~preds.ok THEN NoPlan
        ELSE IF text.limit = None THEN Project(both, text.select)
        ELSE With(Project(both, text.select), "limit", ParseNumber(Unwrap(text.limit)))

-----------------------------------------------------------------------------
(* What clients write for a request.  A filter is a sequence of conjuncts; *)
(* a comparison is written without its outer parentheses.                  *)

WrittenConjunct(e) ==
    IF e[1] \in Comparisons THEN SubSeq(Display(e), 2, Len(Display(e)) - 1) ELSE Display(e)

Joined(s, sep) ==
    FoldLeft(LAMBDA acc, x : IF acc = <<>> THEN x ELSE acc \o sep \o x, <<>>, s)

Written(filter) == Joined([i \in DOMAIN filter |-> WrittenConjunct(filter[i])],
                          <<<<"op", "and">>>>)
List(names) == Joined([i \in DOMAIN names |-> <<<<"ident", names[i]>>>>], <<<<",">>>>)
Clause(kind, option) == IF option = None THEN <<>> ELSE <<<<kind, Unwrap(option)>>>>
RangeOf(q) == IF q.from = None \/ q.until = None THEN None
              ELSE Some(<<Unwrap(q.from), Unwrap(q.until)>>)

AsTemql(q) ==
    <<<<"FROM">>>> \o Clause("ENTITY", q.entity) \o Clause("TIME valid", RangeOf(q))
    \o Clause("KNOWN_AS_OF", q.known)
    \o (IF q.filter = <<>> THEN <<>> ELSE <<<<"WHERE", Written(q.filter)>>>>)
    \o (IF q.projection = <<>> THEN <<>> ELSE <<<<"SELECT", List(q.projection)>>>>)
    \o Clause("LIMIT", q.limit)

AsCompact(q) ==
    [entity |-> q.entity, range |-> RangeOf(q), known |-> q.known,
     tail |-> (IF q.filter = <<>> THEN <<>> ELSE <<<<"?">>>> \o Written(q.filter))
           \o (IF q.projection = <<>> THEN <<>> ELSE <<<<"op", "gt">>>> \o List(q.projection))
           \o (IF q.limit = None THEN <<>> ELSE <<<<"!">>, Lit(Num(Unwrap(q.limit)))>>)]

AsSql(q) ==
    LET Pred(field, op, option) ==
            IF option = None THEN <<>>
            ELSE <<<<<<"ident", field>>, <<"op", op>>, Lit(Num(Unwrap(option)))>>>>
        preds == Pred("valid_time", "ge", q.from) \o Pred("valid_time", "lt", q.until)
                 \o Pred("known_as_of", "eq", q.known)
                 \o [i \in DOMAIN q.filter |-> WrittenConjunct(q.filter[i])]
    IN  [select |-> List(q.projection), table |-> q.entity, limit |-> q.limit,
         where |-> Joined(preds, <<<<"op", "and">>>>)]

-----------------------------------------------------------------------------
(* The executor                                                            *)

FieldsOf(seq) ==
    [entity |-> <<"string", stored[seq].entity>>, schema |-> Num(stored[seq].schema),
     valid_time |-> Num(stored[seq].valid), known_time |-> Num(stored[seq].known),
     sequence |-> Num(seq)]

Passes(plan, seq) ==
    LET e == stored[seq] IN
    /\ \A id \in plan.entity : id = e.entity
    /\ \A r \in plan.range : r[1] <= e.valid /\ e.valid < r[2]
    /\ \A k \in plan.known : e.known <= k

(* Where a page of Store::history may end: at its last result, where its   *)
(* scan budget ends or at the end of the log.                              *)
Page(plan, n) == SelectSeq([i \in 1..n |-> i], LAMBDA seq : Passes(plan, seq))
AnswerEnds(plan, max) ==
    {n \in 0..Len(stored) :
        /\ Len(Page(plan, n)) <= max
        /\ n > 0 /\ Len(Page(plan, n)) = max => Passes(plan, n)
        /\ n = 0 => stored = <<>>}

(* The rows the filter keeps; any error of the filter ends the query.      *)
Answered(plan, n) ==
    LET page == Page(plan, n)
        value(seq) == UNION {Evaluate(e, FieldsOf(seq)) : e \in plan.filter}
        visible(seq) == {f \in DOMAIN FieldsOf(seq) : \A p \in plan.projection : f \in p}
        kept == SelectSeq(page, LAMBDA seq : plan.filter = None \/ value(seq) = Some(Bool(TRUE)))
    IN  IF plan.filter # None /\ \E i \in DOMAIN page : value(page[i]) = None THEN None
        ELSE Some([rows |-> kept, shown |-> [i \in DOMAIN kept |-> visible(kept[i])],
                   truncated |-> n < Len(stored)])

(* min of the limit and the budget, at least one.                          *)
Target(plan) == Max({1, Min({MaxRows} \union plan.limit)})

(* execute_storage_scan: TimeRange::new refuses a range that ends before   *)
(* it starts.                                                              *)
Execute(plan) ==
    IF ~plan.ok \/ (\E r \in plan.range : r[1] > r[2]) THEN {None}
    ELSE {Answered(plan, n) : n \in AnswerEnds(plan, Target(plan))}

AppendStored(e) ==
    /\ Len(stored) < MaxStored
    /\ stored' = Append(stored, e)
    /\ UNCHANGED <<asked, reply>>

(* A query changes nothing, so that a behaviour ends with its first.       *)
ScanQuery(surface, q) ==
    /\ surface \in {"temql", "compact"} => (q.from = None) = (q.until = None)
    /\ LET plan == CASE surface = "temql" -> ParseTemql(AsTemql(q))
                     [] surface = "compact" -> ParseCompact(AsCompact(q))
                     [] surface = "sql" -> ParseSql(AsSql(q))
       IN  reply' \in Execute(plan)
    /\ asked' = Some([surface |-> surface, request |-> q])
    /\ UNCHANGED stored

(* The words after EVENT id TRACE direction, in pairs.                     *)
TraceWord(plan, pair) ==
    IF plan.ok /\ Len(pair) = 2 /\ pair[1] \in {"DEPTH", "LIMIT"}
    THEN With(plan, IF pair[1] = "DEPTH" THEN "depth" ELSE "limit", ParseNumber(pair[2]))
    ELSE NoPlan

(* parse_temql_causal, and the $ form of parse_compact_tem, which has a    *)
(* depth and no limit.                                                     *)
ParseTrace(surface, q) ==
    LET pairs == Clause("DEPTH", q.depth) \o
                 (IF surface = "temql" THEN Clause("LIMIT", q.limit) ELSE <<>>)
        start == [ok |-> Len(q.origin) = 3 /\ q.direction \in {"causes", "effects"},
                  origin |-> q.origin, direction |-> q.direction, depth |-> None, limit |-> None]
    IN  IF surface = "compact" /\ q.depth = None THEN NoPlan
        ELSE FoldLeft(TraceWord, start, pairs)

(* execute_causal_walk: the origin, whether it is there or not, and what   *)
(* the graph reaches from it in 16 levels unless the plan says otherwise.  *)
Walk(plan) ==
    LET depth == IF plan.depth = None THEN 16 ELSE Unwrap(plan.depth)
        origin == plan.origin[3]
        reached == SelectSeq([i \in 1..depth |->
                        IF plan.direction = "causes" THEN origin - i ELSE origin + i],
                      LAMBDA seq : {origin, seq} \subseteq DOMAIN stored)
    IN  SubSeq(<<origin>> \o reached, 1, Min({Len(reached) + 1, MaxRows} \union plan.limit))

TraceQuery(surface, q) ==
    /\ LET plan == ParseTrace(surface, q)
       IN  reply' = IF ~plan.ok THEN None
                    ELSE Some([rows |-> Walk(plan), shown |-> <<>>, truncated |-> FALSE])
    /\ asked' = Some([surface |-> "trace", request |-> q])
    /\ UNCHANGED stored

(* Queries change nothing, so that one of them ends a behaviour.           *)
QueryNext ==
    /\ asked = None
    /\ \/ \E e \in StoredEvents : AppendStored(e)
       \/ \E surface \in {"temql", "compact", "sql"}, q \in ScanRequests : ScanQuery(surface, q)
       \/ \E surface \in {"temql", "compact"}, q \in TraceRequests : TraceQuery(surface, q)

-----------------------------------------------------------------------------
Meant(q, seq) ==
    LET e == stored[seq] IN
    /\ \A id \in UNION {ParseEntity(x) : x \in q.entity} : id = e.entity
    /\ \A from \in q.from : from <= e.valid
    /\ \A until \in q.until : e.valid < until
    /\ \A k \in q.known : e.known <= k
    /\ \A i \in DOMAIN q.filter : Evaluate(q.filter[i], FieldsOf(seq)) = Some(Bool(TRUE))

(* What a surface answers of a request: SQL drops a bound of the valid     *)
(* time that comes alone.                                                  *)
Understood(surface, q) ==
    IF surface = "sql" /\ RangeOf(q) = None THEN [q EXCEPT !.from = None, !.until = None] ELSE q

(* The filters a surface takes for filters: SQL takes a bare comparison of *)
(* a time or of the entity for a part of the plan of its own, compact Tem  *)
(* takes a > before a name for the projection.                             *)
Carried(surface, q) ==
    /\ surface = "sql" =>
          \A i \in DOMAIN q.filter :
             ~(q.filter[i][1] \in Comparisons /\ q.filter[i][2] \in
                 {<<"field", "valid_time">>, <<"field", "known_time">>, <<"field", "entity">>})
    /\ surface = "compact" =>
          \A i \in DOMAIN q.filter : ~(q.filter[i][1] = "gt" /\ q.filter[i][3][1] = "field")

(* Whatever language a request is written in, an answer holds only what    *)
(* was asked for, in order, with the fields asked for, and one that is not *)
(* marked truncated holds all of it (parse_temql, parse_compact_tem,       *)
(* parse_sql, execute_storage_scan).  It has no more rows than its limit,  *)
(* but a limit of 0 allows one; the limit counts what is read before the   *)
(* filter, so that a truncated answer may have fewer rows, or none, though *)
(* more would pass.  A trace starts at its origin and goes away from it in *)
(* its direction, one level after the other, and no deeper than asked.     *)
AnswersMeetTheRequest ==
    \A a \in asked, r \in reply :
        LET q == a.request IN
        /\ a.surface = "trace" =>
            /\ \A i \in DOMAIN r.rows : r.rows[i] =
                  q.origin[3] + (IF q.direction = "causes" THEN 1 - i ELSE i - 1)
            /\ \A depth \in q.depth : Len(r.rows) <= depth + 1
        /\ (a.surface # "trace" /\ Carried(a.surface, q)) =>
            LET meant == Understood(a.surface, q) IN
            /\ \A i \in DOMAIN r.rows : Meant(meant, r.rows[i])
            /\ \A i \in 2..Len(r.rows) : r.rows[i - 1] < r.rows[i]
            /\ \A limit \in q.limit : Len(r.rows) <= IF limit = 0 THEN 1 ELSE limit
            /\ ~r.truncated => {seq \in DOMAIN stored : Meant(meant, seq)} = Range(r.rows)
            /\ q.projection # <<>> =>
                  \A i \in DOMAIN r.shown : r.shown[i] \subseteq Range(q.projection)

(* What ADR 0011 says of the surfaces: two of them that take a request     *)
(* make the same plan of it (parse_temql, parse_compact_tem, parse_sql).   *)
(* They do not: see Carried.                                               *)
SurfacesAgree ==
    \A a \in asked : (a.surface # "trace" /\ (a.request.from = None) = (a.request.until = None)) =>
        LET q == a.request
            plans == {p \in {ParseTemql(AsTemql(q)), ParseCompact(AsCompact(q)), ParseSql(AsSql(q))} :
                        p.ok}
        IN  \A p, other \in plans, part \in DOMAIN EmptyPlan : p[part] = other[part]
=============================================================================
