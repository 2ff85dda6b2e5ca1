----------------------------- MODULE MCDatabases ------------------------------
(***************************************************************************)
(* The two databases of a node, which share nothing: a behaviour uses the  *)
(* linear store, or the persistent facts of one predicate.                 *)
(***************************************************************************)
EXTENDS LinearStore, Persistent

VARIABLE kind    \* the database of this behaviour

databaseVars == <<kind, vars, factVars>>

\* An unused database is empty, of one of the predicates.
DatabasesInit ==
  /\ kind \in {"linear", "persistent"}
  /\ Init /\ FactsInit
  /\ kind = "linear" => pred = CHOOSE p \in Preds : TRUE

DatabasesNext ==
  \/ kind = "linear" /\ Next /\ UNCHANGED <<kind, factVars>>
  \/ kind = "persistent" /\ FactsNext /\ UNCHANGED <<kind, vars>>

DatabasesSpec == DatabasesInit /\ [][DatabasesNext]_databaseVars

-----------------------------------------------------------------------------
\* Instances: v1, v2 and v3 meet in the root, v2 and v3 also in the sub table.
MCValues == {"v1", "v2", "v3", "v4"}
Zeroed == {{}}
MCDigit == "v1" :> <<0, 0, 0>> @@ "v2" :> <<0, 1, 0>> @@ "v3" :> <<0, 1, 1>> @@ "v4" :> <<1, 0, 1>>

Pred(agg) == [agg |-> agg, cyclic |-> FALSE, reused |-> FALSE]
MCPreds == {Pred("none"), Pred("first"), Pred("max"), Pred("min"), Pred("sum"),
            [Pred("none") EXCEPT !.reused = TRUE]}
CyclePreds == {[Pred("none") EXCEPT !.cyclic = TRUE]}

================================================================================
