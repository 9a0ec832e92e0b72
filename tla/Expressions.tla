---------------------------- MODULE Expressions ----------------------------
(***************************************************************************)
(* Query expressions and their evaluation (Expr in crates/temnion-query).  *)
(* An expression is <<"lit", value>>, <<"field", name>>, <<"not", e>> or   *)
(* <<op, left, right>>; a value carries its type.                          *)
(***************************************************************************)
EXTENDS Integers, HistoryFilter

CONSTANT MaxDepth       \* bound: the nesting of an expression

ASSUME DepthAssumption == MaxDepth \in Nat

Bool(b) == <<"bool", b>>
Num(n) == <<"int", n>>
NaN == <<"float", "NaN">>       \* the one float that is told apart
Lit(v) == <<"lit", v>>

Literals == ({"bool"} \X BOOLEAN) \union ({"int"} \X Int) \union ({"string"} \X STRING)
Values == Literals \union {NaN}

Comparisons == {"eq", "ne", "lt", "le", "gt", "ge"}
Binaries == Comparisons \union {"and", "or"}
IsBinary(e) == e[1] \in Binaries

(* The expressions nested n deep at most.  A text cannot write a NaN.      *)
Atoms == ({"lit"} \X Literals) \union ({"field"} \X STRING)
ExprsTo[n \in 0..MaxDepth] ==
    IF n = 0 THEN Atoms
    ELSE Atoms \union ({"not"} \X ExprsTo[n - 1])
               \union (Binaries \X ExprsTo[n - 1] \X ExprsTo[n - 1])

Compare(op, m, n) ==
    CASE op = "eq" -> m = n  [] op = "ne" -> m # n  [] op = "lt" -> m < n
      [] op = "le" -> m <= n [] op = "gt" -> m > n  [] op = "ge" -> m >= n

(* Expr::evaluate on two values.  Values of two types are different, and   *)
(* not ordered; NaN is not equal to itself; a NOT, AND or OR of anything   *)
(* but booleans is an error.                                               *)
Apply(op, l, r) ==
    LET same == l[1] = r[1] IN
    CASE op = "eq"                          -> Some(Bool(l = r /\ l # NaN))
      [] op = "ne"                          -> Some(Bool(l # r \/ l = NaN))
      [] op \in {"lt", "le", "gt", "ge"}    ->
            IF same /\ l[1] = "int" THEN Some(Bool(Compare(op, l[2], r[2])))
            ELSE IF same /\ l[1] = "float" THEN Some(Bool(FALSE)) ELSE None
      [] op \in {"and", "or"}               ->
            IF ~same \/ l[1] # "bool" THEN None
            ELSE Some(Bool(IF op = "and" THEN l[2] /\ r[2] ELSE l[2] \/ r[2]))

Negated(v) == IF v[1] = "bool" THEN Some(Bool(~v[2])) ELSE None

ValueOf(e, row, operands) ==
    CASE e[1] = "lit"   -> Some(e[2])
      [] e[1] = "field" -> IF e[2] \in DOMAIN row THEN Some(row[e[2]]) ELSE None
      [] e[1] = "not"   -> UNION {Negated(v) : v \in operands[e[2]]}
      [] IsBinary(e)    -> UNION {Apply(e[1], l, r) : l \in operands[e[2]], r \in operands[e[3]]}

Evaluate(e, row) ==
    LET value[n \in 0..MaxDepth] == [x \in ExprsTo[n] |-> ValueOf(x, row, value[n - 1])]
    IN  value[MaxDepth][e]
=============================================================================
