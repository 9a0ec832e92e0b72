----------------------------- MODULE MCTimeline -----------------------------
(***************************************************************************)
(* Timeline for TLC: two managers and two forks, a log of four events      *)
(* replayed with pages of two, causal graphs over four events, three       *)
(* events mirrored through a queue of two, two backups of two events, and  *)
(* the fields and mutations below.                                         *)
(***************************************************************************)
EXTENDS Timeline, MCWal

CONSTANTS e1, e2, s1, unknown

Event(entity, of, mutation) == [entity |-> entity, schema |-> of, mutation |-> mutation]

MCEventsIn ==
    {Event(e1, s1, Some("x" :> 0)), Event(e1, s1, Some("y" :> 1)), Event(e1, s1, None),
     Event(e2, s1, Some("x" :> 9)), Event(e2, unknown, Some("x" :> 0))}
MCValid(update) == update[2] # 9
(* Fields that are valid in no order, share an id, have a bad name or a    *)
(* bad unit; updates in and out of order, of every kind of mistake.        *)
FieldDef(id, name, kind, nullable, unit) ==
    [id |-> id, name |-> name, kind |-> kind, nullable |-> nullable, unit |-> unit]
MCFieldLists ==
    {<<FieldDef(2, <<1, 2>>, "utf8", TRUE, Some(<<1>>)), FieldDef(1, <<1>>, "bool", FALSE, None)>>,
     <<FieldDef(1, <<1>>, "bool", FALSE, None), FieldDef(1, <<1, 1>>, "u64", TRUE, None)>>,
     <<FieldDef(1, <<2>>, "bool", FALSE, None)>>,
     <<FieldDef(1, <<1>>, "bool", FALSE, Some(<<3, 1>>))>>}
Update(id, value) == [id |-> id, value |-> value]
MCMutations ==
    {Delete,
     Upsert(<<Update(2, Value("utf8", <<1>>)), Update(1, Value("bool", 1))>>),
     Upsert(<<Update(2, Null)>>),
     Upsert(<<Update(1, Null), Update(2, Null)>>),
     Upsert(<<Update(1, Value("bool", 0)), Update(1, Value("bool", 1))>>),
     Upsert(<<Update(2, Value("utf8", <<1, 2, 3>>))>>),
     Upsert(<<Update(3, Value("i64", 5)), Update(1, Value("bool", 1))>>),
     Upsert(<<Update(2, Value("bytes", <<9>>))>>)}

-----------------------------------------------------------------------------
(* Records on one known clock, and a percept on another.                   *)
MCStamped ==
    {<<"Percept", 1>>, <<"Percept", 2>>, <<"Intention", 1>>, <<"Action", 1>>, <<"Outcome", 1>>}

-----------------------------------------------------------------------------
Symmetry == Permutations(Managers)
=============================================================================
