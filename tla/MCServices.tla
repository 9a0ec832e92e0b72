----------------------------- MODULE MCServices -----------------------------
(***************************************************************************)
(* Services for TLC.                                                       *)
(***************************************************************************)
EXTENDS Services, MCHistory

-----------------------------------------------------------------------------
(* Two partitions; the third router names one that does not exist.         *)
MCRouters ==
    {[policy |-> "modular", count |-> 2], [policy |-> "modular", count |-> 3],
     [policy |-> "explicit", map |-> (1 :> 1)]}
MCShardEvents == [source : {1, 2}, shard : {1, 2}, tick : {0, 1, 2}]

-----------------------------------------------------------------------------
Stored(slot, valid, known) ==
    [entity |-> <<0, slot, 1>>, schema |-> slot, valid |-> valid, known |-> known]
MCStored == {Stored(1, 0, 1), Stored(1, 1, 1), Stored(2, 1, 2), Stored(2, 2, 1)}

Field(name) == <<"field", name>>
Cmp(op, name, n) == <<op, Field(name), Lit(Num(n))>>
MCWhere ==
    {<<>>,
     <<Cmp("gt", "sequence", 1)>>,
     <<Cmp("eq", "schema", 1), Cmp("lt", "valid_time", 2)>>,
     <<Cmp("ne", "schema", 1)>>,
     <<<<"not", Cmp("eq", "schema", 1)>>>>,
     <<<<"eq", <<"not", <<"eq", Field("schema"), Field("sequence")>>>>, Lit(Bool(TRUE))>>>>,
     <<<<"or", Cmp("eq", "schema", 2), <<"and", Cmp("eq", "schema", 1), Cmp("ge", "sequence", 2)>>>>,
       Cmp("ge", "schema", 1)>>,
     <<<<"gt", Field("sequence"), Field("schema")>>>>,
     <<Cmp("lt", "health", 5)>>}
ScanFor(entity, range, known, filter, projection, limits) ==
    [entity |-> entity, from |-> range[1], until |-> range[2], known |-> known,
     filter |-> filter, projection |-> projection, limit |-> limits]
MCScans ==
    {ScanFor(e, r, k, f, o[1], o[2]) :
        e \in {None, Some(<<1>>)},
        r \in {<<None, None>>, <<Some(1), Some(2)>>, <<Some(2), Some(1)>>, <<Some(1), None>>},
        k \in {None, Some(1)},
        f \in MCWhere,
        o \in {<<<<>>, None>>, <<<<>>, Some(0)>>, <<<<"schema", "sequence">>, Some(1)>>}}
MCTraces ==
    [origin : {<<1, 1, 1>>, <<1, 1, 2>>}, direction : {"causes", "effects"},
     depth : {None, Some(1)}, limit : {None, Some(0)}]

-----------------------------------------------------------------------------
(* Expressions three levels deep, over rows with and without their fields. *)
Leaves == {Lit(Bool(TRUE)), Lit(Bool(FALSE)), Lit(Num(1)), Field("b"), Field("n")}
Pairs(ops, left, right) == {<<op, l, r>> : op \in ops, l \in left, r \in right}
Not(exprs) == {<<"not", e>> : e \in exprs}
Level1 == Not(Leaves) \union Pairs({"and", "or", "eq", "lt"}, Leaves, Leaves)
MCExprs ==
    Not(Level1) \union Not(Not(Not(Leaves)))
      \union Pairs({"and", "or", "eq", "lt"}, Level1, Leaves)
      \union Pairs({"and"}, Pairs({"and", "or"}, Leaves, Leaves), Not(Pairs({"eq"}, Leaves, Leaves)))
MCRows ==
    [{"b"} -> {Bool(TRUE), Bool(FALSE)}] \union [{"b", "n"} -> {Bool(TRUE), Num(1), Num(2)}]
      \union [{"b", "n"} -> {Bool(FALSE), NaN}]

(* A comparison that is TRUE unless its field is a NaN, and one that has   *)
(* no value where its field is absent.                                     *)
MCDoubtful ==
    {<<"eq", Field("n"), Field("n")>>, <<"and", Cmp("lt", "n", 2), Lit(Bool(FALSE))>>}

-----------------------------------------------------------------------------
Proposition(negations) == [not |-> negations, body |-> "alive", words |-> {"alive"}]
MCPropositions == {Proposition(0), Proposition(1)}

Fitness(latency, net) ==
    [latency |-> latency, memory |-> 4, storage |-> 0, amplification |-> 2, background |-> 0,
     net |-> net]
MCMetrics == {Fitness(10, 0), Fitness(5, 20)}
MCConfigs ==
    {[enabled |-> TRUE, manual |-> TRUE, threshold |-> 5],
     [enabled |-> FALSE, manual |-> FALSE, threshold |-> 20]}
MCIsolation == {[cpu |-> 1, memory |-> 1], [cpu |-> 0, memory |-> 1]}
=============================================================================
