---------------------------- MODULE InstanceQuery ----------------------------
(***************************************************************************)
(* query_instances and get_instance: a row goes from the table's columns   *)
(* to the properties' names, gets its virtual fields, and is masked last.  *)
(* A property is read from a column or computed from another one; two of   *)
(* them may share a column, and a column may be named like a property.     *)
(* Of a value only its origin is kept: whether it can tell what the table  *)
(* holds.  A computation may fail, and shorten what it was given.          *)
(***************************************************************************)
EXTENDS NoValue, FiniteSets

CONSTANTS Props,     \* api_names of a type's properties
          Columns    \* columns of its table

VARIABLES property,  \* the schema that the query works with
          stage,
          todo,      \* virtual fields still to compute
          cells      \* the row: a value for each key

queryVars == <<property, stage, todo, cells>>

ASSUME QueryAssumption == None \notin Props \cup Columns

\* masked: sensitivity is not PUBLIC and the strategy is not MASK_NONE.
Property == [column : Columns \cup {None}, from : Props \cup {None}, masked : BOOLEAN]

Keys == Props \cup Columns

QueryTypeOK ==
  /\ property \in [Props -> Property]
  /\ stage \in {"start", "columns", "names", "virtual", "done", "refused"}
  /\ todo \subseteq Props
  /\ cells \in [Keys -> {"none", "raw", "hidden"}]

----------------------------------------------------------------------------

Masked == {p \in Props : property[p].masked}

Mapped == {p \in Props : property[p].column # None}

\* A property with a column is never virtual.
Virtual == {p \in Props \ Mapped : property[p].from # None}

\* _translate_filters and _translate_sort: a masked property is refused, one
\* without a column left out.
Translate(asked) ==
  /\ stage = "start"
  /\ stage' = IF asked \cap Masked # {} THEN "refused" ELSE "columns"
  /\ UNCHANGED <<property, todo, cells>>

\* The columns of the mapped properties; all of them when there is none.
ExecuteQuery ==
  /\ stage = "columns"
  /\ LET selected == IF Mapped = {} THEN Columns ELSE {property[p].column : p \in Mapped}
     IN cells' = [k \in Keys |-> IF k \in selected THEN "raw" ELSE "none"]
  /\ stage' = "names"
  /\ UNCHANGED <<property, todo>>

\* reverse_map keeps one property of each column, name; in what order the
\* properties come is not fixed.
MapBack(name) ==
  /\ stage = "names"
  /\ \A p \in Mapped : name[property[p].column] \in Mapped
                       /\ property[name[property[p].column]].column = property[p].column
  /\ cells' = [k \in Keys |->
                 IF Mapped = {} THEN cells[k]
                 ELSE IF \E c \in Columns : cells[c] # "none" /\ name[c] = k THEN "raw"
                 ELSE "none"]
  /\ stage' = "virtual"
  /\ todo' = Virtual
  /\ UNCHANGED property

\* apply_virtual_fields computes from the row as it is by then.
Compute(p) ==
  /\ stage = "virtual"
  /\ p \in todo
  /\ \E value \in {cells[property[p].from], "none"} : cells' = [cells EXCEPT ![p] = value]
  /\ todo' = todo \ {p}
  /\ UNCHANGED <<property, stage>>

\* Variant: the rules are those of the columns.
MaskColumns ==
  /\ stage = "virtual"
  /\ todo = {}
  /\ cells' = [k \in Keys |-> IF k \in Masked \cap Mapped /\ cells[k] = "raw"
                            THEN "hidden" ELSE cells[k]]
  /\ stage' = "done"
  /\ UNCHANGED <<property, todo>>

\* apply_masking by the names that are in the row.
Mask ==
  /\ stage = "virtual"
  /\ todo = {}
  /\ cells' = [k \in Keys |-> IF k \in Masked /\ cells[k] = "raw" THEN "hidden" ELSE cells[k]]
  /\ stage' = "done"
  /\ UNCHANGED <<property, todo>>

QueryInit ==
  /\ property \in [Props -> Property]
  /\ stage = "start"
  /\ todo = {}
  /\ cells = [k \in Keys |-> "none"]

QueryNext ==
  \/ \E asked \in SUBSET Props : Translate(asked)
  \/ ExecuteQuery
  \/ \E name \in [Columns -> Props \cup {None}] : MapBack(name)
  \/ \E p \in Props : Compute(p)
  \/ Mask

QuerySpec == QueryInit /\ [][QueryNext]_queryVars

----------------------------------------------------------------------------

\* What a query answers under the name of a masked property never tells what
\* the table holds, be it read from a column that an unmasked property
\* shares, computed from one, or named like a column (masking comes last).
MaskedHidden == stage = "done" => \A p \in Masked : cells[p] # "raw"
=============================================================================
