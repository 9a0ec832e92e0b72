------------------------------- MODULE Shards -------------------------------
(***************************************************************************)
(* Virtual shards (crates/temnion-runtime, M8): a coordinator routes every *)
(* event to the partition of its entity's shard, which numbers it, and     *)
(* answers a query from all partitions together.                           *)
(***************************************************************************)
EXTENDS Integers, Sequences, SequencesExt, FiniteSetsExt, TLC, HistoryFilter

CONSTANTS
    Partitions,     \* the VirtualShardIds the coordinator was made with
    Routers,        \* routing policies: a count, or a map from shard to id
    ShardEvents,    \* events offered to append, without their sequence
    MaxAppended     \* bound: events appended

ASSUME ShardsAssumption ==
    /\ IsFiniteSet(Partitions)
    /\ ShardEvents \subseteq [source : Nat, shard : Nat, tick : Int]

VARIABLES
    router,         \* the ShardRoutingPolicy
    partitions,     \* VirtualShardId -> its events, in the order of append
    merged          \* what the last fanout_query may have returned

shardVars == <<router, partitions, merged>>

ShardsInit ==
    /\ router \in Routers
    /\ partitions = [p \in Partitions |-> <<>>]
    /\ merged = None

(* ShardRouter::route: a shard that an explicit map leaves out goes to 0.  *)
Route(shard) ==
    CASE router.policy = "modular"  -> shard % router.count
      [] router.policy = "explicit" -> IF shard \in DOMAIN router.map THEN router.map[shard] ELSE 0

(* append: PartitionNotFound when the route leads nowhere.                 *)
AppendToShard(event) ==
    LET target == Route(event.shard) IN
    /\ target \in Partitions
    /\ MapThenSumSet(LAMBDA p : Len(partitions[p]), Partitions) < MaxAppended
    /\ partitions' = [partitions EXCEPT ![target] =
            Append(@, Put(event, "sequence", Len(@)))]
    /\ merged' = None
    /\ UNCHANGED router

RuntimeMatches(filter, event) ==
    /\ \A s \in filter.shard : event.shard = s
    /\ \A range \in filter.range : event.tick \in range[1]..range[2]

(* Mutant: the merge compares the valid time only.                         *)
MergeKey_TimeOnly(event) == <<event.tick, 0, 0>>

(* What fanout_query compares (clock and epoch are the same for all).      *)
MergeKey(event) == <<event.tick, event.source, event.sequence>>

Before(k, l) == \E i \in DOMAIN k : k[i] < l[i] /\ \A j \in 1..i - 1 : k[j] = l[j]

(* fanout_query: the partitions are visited in the order of a HashMap and  *)
(* the sort is not stable, so that events with one key come in any order.  *)
Fanout(filter) ==
    LET found == {e \in UNION {{p} \X Range(partitions[p]) : p \in Partitions} :
                      RuntimeMatches(filter, e[2])}
    IN  /\ merged = None
        /\ merged' = Some({order \in SetToSeqs(found) :
                \A i, j \in DOMAIN order :
                    Before(MergeKey(order[i][2]), MergeKey(order[j][2])) => i < j})
        /\ UNCHANGED <<router, partitions>>

ShardsNext ==
    \/ \E event \in ShardEvents : AppendToShard(event)
    \/ \E filter \in [shard : {None, Some(1)}, range : {None, Some(<<0, 1>>)}] : Fanout(filter)

-----------------------------------------------------------------------------
EarlierIn(order, d, e) == \E i, j \in DOMAIN order : i < j /\ order[i] = d /\ order[j] = e

(* Nothing in the merge tells the events apart but their partition.        *)
Tied(d, e) ==
    /\ d[1] # e[1]
    /\ d[2].tick = e[2].tick
    /\ d[2].source = e[2].source
    /\ d[2].sequence = e[2].sequence

(* Two answers of fanout_query to one question, of partitions visited in   *)
(* different orders, differ in ties alone: the events they order           *)
(* differently come from two partitions, where a source wrote both of them *)
(* for one valid time, and append gave both of them the same sequence,     *)
(* because each partition counts from 0.  (ADR 0007 promises a "strictly   *)
(* deterministic total order"; where there are ties there is none.)        *)
FanoutReordersTiesOnly ==
    \A answers \in merged : \A a, b \in answers : \A d, e \in Range(a) :
        EarlierIn(a, d, e) /\ EarlierIn(b, e, d) => Tied(d, e)
=============================================================================
