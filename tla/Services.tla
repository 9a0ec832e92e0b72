------------------------------ MODULE Services ------------------------------
(***************************************************************************)
(* What runs around a store: histories read in pages, shards, background   *)
(* tasks and storage tiers, queries and their optimizer, beliefs and       *)
(* evolution, the client connection and the daemon.  They share no memory; *)
(* a behaviour is one of one of them.                                      *)
(***************************************************************************)
EXTENDS History, Shards, Tasks, Tiers, Query, Egraph, Beliefs, Evolution,
        Connector, Daemon

VARIABLE part       \* which of them this behaviour is about

Parts == {"history", "shards", "tasks", "tiers", "query", "egraph", "beliefs",
          "evolution", "connector", "daemon"}

serviceVars ==
    <<part, vars, shardVars, taskVars, tierVars, queryVars, egraphVars, beliefVars,
      evolutionVars, connectorVars, daemonVars>>

(* Only the part a behaviour is about starts in each of its initial states. *)
ServicesInit ==
    /\ part \in Parts
    /\ Init
    /\ ShardsInit /\ (part # "shards" => router = CHOOSE r \in Routers : TRUE)
    /\ TasksInit /\ (part # "tasks" => limit = CHOOSE l \in Limits : TRUE)
    /\ TiersInit /\ QueryInit /\ EgraphInit /\ BeliefsInit
    /\ EvolutionInit /\ (part # "evolution" => config = CHOOSE c \in Configs : TRUE)
    /\ ConnectorInit
    /\ DaemonInit /\ (part # "daemon" => portTaken = FALSE)

ServicesNext ==
    \/ /\ part = "history" /\ Next
       /\ UNCHANGED <<part, shardVars, taskVars, tierVars, queryVars, egraphVars,
                      beliefVars, evolutionVars, connectorVars, daemonVars>>
    \/ /\ part = "shards" /\ ShardsNext
       /\ UNCHANGED <<part, vars, taskVars, tierVars, queryVars, egraphVars, beliefVars,
                      evolutionVars, connectorVars, daemonVars>>
    \/ /\ part = "tasks" /\ TasksNext
       /\ UNCHANGED <<part, vars, shardVars, tierVars, queryVars, egraphVars, beliefVars,
                      evolutionVars, connectorVars, daemonVars>>
    \/ /\ part = "tiers" /\ TiersNext
       /\ UNCHANGED <<part, vars, shardVars, taskVars, queryVars, egraphVars, beliefVars,
                      evolutionVars, connectorVars, daemonVars>>
    \/ /\ part = "query" /\ QueryNext
       /\ UNCHANGED <<part, vars, shardVars, taskVars, tierVars, egraphVars, beliefVars,
                      evolutionVars, connectorVars, daemonVars>>
    \/ /\ part = "egraph" /\ EgraphNext
       /\ UNCHANGED <<part, vars, shardVars, taskVars, tierVars, queryVars, beliefVars,
                      evolutionVars, connectorVars, daemonVars>>
    \/ /\ part = "beliefs" /\ BeliefsNext
       /\ UNCHANGED <<part, vars, shardVars, taskVars, tierVars, queryVars, egraphVars,
                      evolutionVars, connectorVars, daemonVars>>
    \/ /\ part = "evolution" /\ EvolutionNext
       /\ UNCHANGED <<part, vars, shardVars, taskVars, tierVars, queryVars, egraphVars,
                      beliefVars, connectorVars, daemonVars>>
    \/ /\ part = "connector" /\ ConnectorNext
       /\ UNCHANGED <<part, vars, shardVars, taskVars, tierVars, queryVars, egraphVars,
                      beliefVars, evolutionVars, daemonVars>>
    \/ /\ part = "daemon" /\ DaemonNext
       /\ UNCHANGED <<part, vars, shardVars, taskVars, tierVars, queryVars, egraphVars,
                      beliefVars, evolutionVars, connectorVars>>

ServicesSpec ==
    /\ ServicesInit /\ [][ServicesNext]_serviceVars
    /\ HistoryFairness /\ TasksFairness /\ DaemonFairness
=============================================================================
