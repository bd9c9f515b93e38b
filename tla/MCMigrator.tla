----------------------------- MODULE MCMigrator -----------------------------
(* Instances of Migrator: two tables, migrations that create them, rename a *)
(* column and add columns, and programs of one or of two versions.          *)
EXTENDS Migrator, SequencesExt

CONSTANTS club, office   \* computers

Add(t, c) == <<NoColumn, <<t, c>>>>
Rename(t, c, d) == <<<<t, c>>, <<t, d>>>>

TheTables == <<"people", "flights">>

\* initial, add_towpilot, rename_columns
WithRename ==
  1 :> <<Add("people", "id"), Add("flights", "id")>> @@
  2 :> <<Add("flights", "towpilot")>> @@
  3 :> <<Rename("flights", "towpilot", "towpilot_id"),
         Add("people", "comments")>>

AllAvailable == [p \in Programs |-> {1, 2, 3}]
OneBehind    == [p \in Programs |-> {1, 2}]

\* SchemaOf is what running the migrations one after the other leads to
Migrate(schema, v) == FoldLeft(Alter, schema, Steps[v])
ASSUME SchemaAssumption == \A V \in SUBSET Versions :
  SchemaOf(V) = FoldLeft(Migrate, {}, SetToSortSeq(V, <))

EachVersion  == {{1}, {1, 2}, {1, 2, 3}}
=============================================================================
