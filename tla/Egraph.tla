------------------------------- MODULE Egraph -------------------------------
(***************************************************************************)
(* The e-graph optimizer of query expressions (crates/temnion-transform,   *)
(* M30) against what the executor computes.  An e-node is an expression    *)
(* with class ids for its operands, or <<"scan", Option(id)>> or           *)
(* <<"empty">>.                                                            *)
(***************************************************************************)
EXTENDS Integers, Sequences, FiniteSetsExt, Expressions

CONSTANTS
    Exprs,          \* the expressions that are optimized
    Rows,           \* the rows they are evaluated on: field -> value
    MaxIterations   \* max_iterations of saturate

ASSUME EgraphAssumption ==
    /\ Exprs \subseteq ExprsTo[MaxDepth]
    /\ \A row \in Rows : \A name \in DOMAIN row : row[name] \in Values

VARIABLES
    input,          \* the expression
    egraph,         \* parent, nodes (both by class id) and cons (node -> id)
    goal,           \* the classes of the expression, of a scan with it, of true and false
    round,          \* the iterations run
    saturated

egraphVars == <<input, egraph, goal, round, saturated>>

-----------------------------------------------------------------------------
(* find: the root of a class.  The parents are kept compressed, which is   *)
(* what find does to them and changes no answer.                           *)
Find(g, id) == g.parent[id]

Canonical(g, node) ==
    CASE node[1] \in {"lit", "field", "empty"} -> node
      [] node[1] = "not"  -> <<"not", Find(g, node[2])>>
      [] node[1] = "scan" -> <<"scan", {Find(g, f) : f \in node[2]}>>
      [] IsBinary(node)   -> <<node[1], Find(g, node[2]), Find(g, node[3])>>

(* add, without its answer: the class is then AddedAs.                     *)
AddNode(g, node) ==
    LET canonical == Canonical(g, node)
        id == Len(g.parent) + 1
    IN  IF canonical \in DOMAIN g.cons THEN g
        ELSE [parent |-> Append(g.parent, id), nodes |-> Append(g.nodes, {canonical}),
              cons |-> Put(g.cons, canonical, id)]

AddedAs(g, node) == Find(g, g.cons[Canonical(g, node)])

(* The parts of an expression in the order in which add_expr adds them.     *)
PartsFrom(e, operands) ==
    (CASE e[1] \in {"lit", "field"} -> <<>>
       [] e[1] = "not" -> operands[e[2]]
       [] IsBinary(e)  -> operands[e[2]] \o operands[e[3]]) \o <<e>>
PartsOf[n \in 0..MaxDepth] == [e \in ExprsTo[n] |-> PartsFrom(e, PartsOf[n - 1])]

NodeOf(e, classOf) ==
    CASE e[1] \in {"lit", "field"} -> e
      [] e[1] = "not" -> <<"not", classOf[e[2]]>>
      [] IsBinary(e)  -> <<e[1], classOf[e[2]], classOf[e[3]]>>

AddPart(s, e) ==
    LET node == NodeOf(e, s.classOf)
        h == AddNode(s.graph, node)
    IN  [graph |-> h, classOf |-> Put(s.classOf, e, AddedAs(h, node))]

AddExpr(g, e) ==
    LET parts == PartsOf[MaxDepth][e]
        added[k \in 0..Len(parts)] ==
            IF k = 0 THEN [graph |-> g, classOf |-> <<>>] ELSE AddPart(added[k - 1], parts[k])
    IN  added[Len(parts)]

(* union: the smaller root stays one and takes the nodes of the other.     *)
Merge(g, a, b) ==
    LET stays == Min({Find(g, a), Find(g, b)})
        goes == Max({Find(g, a), Find(g, b)})
    IN  IF stays = goes THEN g
        ELSE [g EXCEPT !.parent = [i \in DOMAIN @ |-> IF @[i] = goes THEN stays ELSE @[i]],
                       !.nodes[goes] = {},
                       !.nodes[stays] = @ \union g.nodes[goes]]

(* rebuild, one node of class root: it is merged with the class that has   *)
(* the same canonical node already, and is put back under root, which may  *)
(* be no root any more.                                                    *)
RebuildNode(root, s, node) ==
    LET canonical == Canonical(s.graph, node)
        known == canonical \in DOMAIN s.cons
        merged == IF known THEN Merge(s.graph, s.cons[canonical], root) ELSE s.graph
    IN  [graph |-> [merged EXCEPT !.nodes[root] = @ \union {canonical}],
         cons |-> IF known THEN s.cons ELSE Put(s.cons, canonical, root)]

(* The members of a set in the order in which they are chosen.             *)
Listed(S) ==
    LET left[k \in 0..Cardinality(S)] ==
            IF k = 0 THEN S ELSE left[k - 1] \ {CHOOSE x \in left[k - 1] : TRUE}
    IN  [k \in 1..Cardinality(S) |-> CHOOSE x \in left[k - 1] : TRUE]

RebuildClass(s, i) ==
    LET nodes == Listed(s.graph.nodes[i])
        rebuilt[k \in 0..Len(nodes)] ==
            IF k = 0 THEN [s EXCEPT !.graph.nodes[i] = {}]
            ELSE RebuildNode(i, rebuilt[k - 1], nodes[k])
    IN  IF Find(s.graph, i) # i THEN s ELSE rebuilt[Len(nodes)]

Rebuild(g) ==
    LET rebuilt[i \in 0..Len(g.parent)] ==
            IF i = 0 THEN [graph |-> g, cons |-> <<>>] ELSE RebuildClass(rebuilt[i - 1], i)
        s == rebuilt[Len(g.parent)]
    IN  [s.graph EXCEPT !.cons = s.cons]

-----------------------------------------------------------------------------
LiteralsOf(g, id) == {node[2] : node \in {n \in g.nodes[id] : n[1] = "lit"}}

(* fold_literals.                                                          *)
Folded(op, l, r) ==
    IF l[1] # r[1] THEN None
    ELSE IF l[1] = "int" /\ op \in Comparisons THEN Some(Bool(Compare(op, l[2], r[2])))
    ELSE IF l[1] = "bool" /\ op \in {"and", "or"} THEN Apply(op, l, r)
    ELSE None

(* Mutant: AND with false is the other operand.                            *)
Absorbed_Kept(op, l, r, yes, no) ==
    LET unit == IF op = "and" THEN yes ELSE no
        zero == IF op = "and" THEN no ELSE yes
    IN  (IF r = unit THEN {l} ELSE IF l = unit THEN {r} ELSE {})
        \union (IF r = zero THEN {l} ELSE {}) \union (IF l = r THEN {l} ELSE {})

(* The rules for AND and OR over the roots of the operands.                *)
Absorbed(op, l, r, yes, no) ==
    LET unit == IF op = "and" THEN yes ELSE no
        zero == IF op = "and" THEN no ELSE yes
    IN  (IF r = unit THEN {l} ELSE IF l = unit THEN {r} ELSE {})
        \union (IF zero \in {l, r} THEN {zero} ELSE {}) \union (IF l = r THEN {l} ELSE {})

(* What saturate finds equal to a node: classes and nodes to be added.     *)
EqualClasses(g, node, yes, no) ==
    CASE node[1] = "not" ->
            LET child == Find(g, node[2]) IN
            {n[2] : n \in {m \in g.nodes[child] : m[1] = "not"}}
            \union (IF child = yes THEN {no} ELSE IF child = no THEN {yes} ELSE {})
      [] node[1] \in {"and", "or"} ->
            Absorbed(node[1], Find(g, node[2]), Find(g, node[3]), yes, no)
      [] node[1] = "eq" -> IF Find(g, node[2]) = Find(g, node[3]) THEN {yes} ELSE {}
      [] OTHER -> {}

EqualNodes(g, node, yes, no) ==
    CASE IsBinary(node) ->
            {Lit(v) : v \in UNION {Folded(node[1], l, r) :
                l \in LiteralsOf(g, Find(g, node[2])), r \in LiteralsOf(g, Find(g, node[3]))}}
      [] node[1] = "scan" /\ node[2] # None ->
            LET filter == CHOOSE f \in node[2] : TRUE IN
            IF Find(g, filter) = yes THEN {<<"scan", None>>}
            ELSE IF Find(g, filter) = no THEN {<<"empty">>} ELSE {}
      [] OTHER -> {}

AddAll(g, pairs) ==
    LET added[k \in 0..Len(pairs)] ==
            IF k = 0 THEN g ELSE AddNode(added[k - 1], pairs[k][2])
    IN  added[Len(pairs)]

MergeAll(g, pairs) ==
    LET merged[k \in 0..Len(pairs)] ==
            IF k = 0 THEN g ELSE Merge(merged[k - 1], pairs[k][1], pairs[k][2])
    IN  merged[Len(pairs)]

(* What the rules find for the nodes under the roots: pairs of a class and  *)
(* a node to be added, or another class.                                   *)
Rooted(g) == UNION {{i} \X g.nodes[i] : i \in {j \in DOMAIN g.parent : Find(g, j) = j}}
NewNodes(g, yes, no) == UNION {{p[1]} \X EqualNodes(g, p[2], yes, no) : p \in Rooted(g)}
OldClasses(g, yes, no) == UNION {{p[1]} \X EqualClasses(g, p[2], yes, no) : p \in Rooted(g)}
NewClasses(more, toAdd) == {<<toAdd[k][1], AddedAs(more, toAdd[k][2])>> : k \in DOMAIN toAdd}

(* One iteration of saturate: the matches, the nodes they add, the merges, *)
(* and rebuild.                                                            *)
Iterate(g, yes, no) ==
    LET toAdd == Listed(NewNodes(g, yes, no))
        more == AddAll(g, toAdd)
        matches == OldClasses(g, yes, no) \union NewClasses(more, toAdd)
        merged == MergeAll(more, Listed(matches))
    IN  [any |-> matches # {} /\ merged # more,
         graph |-> IF matches = {} THEN g ELSE Rebuild(merged)]

-----------------------------------------------------------------------------
EgraphInit ==
    /\ input = Lit(Bool(TRUE))
    /\ egraph = [parent |-> <<>>, nodes |-> <<>>, cons |-> <<>>]
    /\ goal = None
    /\ round = 0
    /\ saturated = FALSE

(* add_plan of a scan with the expression as its filter, and the literals  *)
(* saturate starts with.                                                   *)
AddPlan(expr) ==
    /\ goal = None
    /\ input' = expr
    /\ LET e == AddExpr(egraph, expr)
           scan == <<"scan", Some(e.classOf[expr])>>
           g == AddNode(e.graph, scan)
           h == AddNode(g, Lit(Bool(TRUE)))
           k == AddNode(h, Lit(Bool(FALSE)))
       IN  /\ egraph' = k
           /\ goal' = Some([expr |-> e.classOf[expr], scan |-> AddedAs(g, scan),
                            yes |-> AddedAs(h, Lit(Bool(TRUE))),
                            no |-> AddedAs(k, Lit(Bool(FALSE)))])
    /\ UNCHANGED <<round, saturated>>

Saturate ==
    /\ goal # None /\ ~saturated
    /\ \E classes \in goal :
          LET next == Iterate(egraph, Find(egraph, classes.yes), Find(egraph, classes.no)) IN
          /\ egraph' = next.graph
          /\ round' = round + 1
          /\ saturated' = (~next.any \/ round' = MaxIterations)
    /\ UNCHANGED <<input, goal>>

EgraphNext == (goal = None /\ \E expr \in Exprs : AddPlan(expr)) \/ Saturate

-----------------------------------------------------------------------------
Unknown == 1000     \* usize::MAX

NodeCost(g, best, node) ==
    LET operands == [i \in 2..Len(node) |-> best[Find(g, node[i])]] IN
    CASE node[1] = "lit"   -> 1
      [] node[1] = "field" -> 2
      [] node[1] = "not"   -> 2 + operands[2]
      [] IsBinary(node)    -> 3 + operands[2] + operands[3]
      [] OTHER             -> Unknown

(* The relaxation of extract_best_expr, over all nodes of every class, the *)
(* ones left under a class that was merged away included.                  *)
NodesOf(g, root) == UNION {g.nodes[i] : i \in {j \in DOMAIN g.parent : Find(g, j) = root}}

BestCost(g) ==
    LET relaxed[k \in 0..Len(g.parent) + 10] ==
            LET best == relaxed[k - 1]
                next == [i \in DOMAIN best |->
                    Min({best[i]} \union {NodeCost(g, best, node) : node \in NodesOf(g, i)})]
            IN  IF k = 0 THEN [i \in DOMAIN g.parent |-> Unknown]
                ELSE IF next = best THEN best ELSE next
    IN  relaxed[Len(g.parent) + 10]

(* What a node stands for, from what its classes stand for.                *)
ExprsFrom(g, node, found) ==
    CASE node[1] \in {"lit", "field"} -> {node}
      [] node[1] = "not" -> UNION {{"not"} \X f[Find(g, node[2])] : f \in found}
      [] IsBinary(node)  -> UNION {{node[1]} \X f[Find(g, node[2])] \X f[Find(g, node[3])] :
                                   f \in found}
      [] OTHER           -> {}

(* reconstruct_expr: which of the cheapest nodes it takes depends on the   *)
(* order of a HashSet, so that there is a set of answers.                  *)
Extract(g, best, id) ==
    LET found[n \in 0..MaxDepth] == [root \in DOMAIN g.parent |->
            UNION {ExprsFrom(g, node, IF n = 0 THEN None ELSE Some(found[n - 1])) :
                   node \in {m \in NodesOf(g, root) : NodeCost(g, best, m) = best[root]}}]
    IN  found[MaxDepth][Find(g, id)]

Truth(row) == Evaluate(input, row)

Exact(row) == \A name \in DOMAIN row : row[name] # NaN

(* The optimizer changes no answer: after saturation, on every row the     *)
(* input has a value on, whatever extract_best_expr returns has that       *)
(* value, a scan is equal to the empty relation only if its filter holds   *)
(* nowhere, and to an unfiltered scan only if it never fails.  (On a row   *)
(* where the input is an error, or that has a NaN, the result may be       *)
(* another one: see OptimizedIsEquivalent.)                                *)
OptimizedAgrees ==
    saturated => \A classes \in goal :
        LET scan == NodesOf(egraph, Find(egraph, classes.scan)) IN
        \A row \in Rows : Exact(row) /\ Truth(row) # None =>
            /\ \A e \in Extract(egraph, BestCost(egraph), classes.expr) :
                  Evaluate(e, row) = Truth(row)
            /\ <<"empty">> \in scan => Truth(row) # Some(Bool(TRUE))
            /\ <<"scan", None>> \in scan => Truth(row) # Some(Bool(FALSE))

(* What docs/adr/0012 (line 13) promises of an extracted expression: the   *)
(* semantics of the input, on every row.                                   *)
OptimizedIsEquivalent ==
    saturated => \A classes \in goal :
        \A e \in Extract(egraph, BestCost(egraph), classes.expr) : \A row \in Rows :
            Evaluate(e, row) = Truth(row)
=============================================================================
