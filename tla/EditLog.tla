------------------------------ MODULE EditLog ------------------------------
(***************************************************************************)
(* EditLogStore and EditLogMerger: the edits of one row.  An entry takes   *)
(* its time when it is made and is seen when its session commits, which    *)
(* need not be in the same order; the row that a reader sees is the base   *)
(* row with the entries replayed by their times.                           *)
(***************************************************************************)
EXTENDS NoValue, Naturals, Sequences, FiniteSets, SequencesExt

CONSTANTS EntryIds,
          Fields,
          Writers,   \* writes at work at once
          Base,      \* what a field of the base row holds
          Absent     \* a field that the row does not have

VARIABLES edits,     \* edit_logs: the committed entries of the row
          baseRow,
          time,      \* every commit takes some
          writing

editVars == <<edits, baseRow, time, writing>>

EditEntry == [id : EntryIds, op : {"create", "update", "delete"},
          fields : SUBSET Fields, createdAt : Nat]

Rows == [Fields -> EntryIds \cup {Base, Absent}]

ASSUME EditAssumption ==
  /\ Base # Absent
  /\ Base \notin EntryIds
  /\ Absent \notin EntryIds
  /\ None \notin EditEntry \cup Rows

EditTypeOK ==
  /\ edits \subseteq [entry : EditEntry, seenAt : Nat]
  /\ baseRow \in Rows \cup {None}
  /\ time \in Nat
  /\ writing \in [Writers -> EditEntry \cup {None}]

----------------------------------------------------------------------------

\* Each entry writes its identifier into its fields.
FieldValues(e) == [f \in Fields |-> IF f \in e.fields THEN e.id ELSE Absent]

\* Variant: an entry that creates the row keeps what the row had.
ReplayKeepingOld(row, e) ==
  CASE e.op = "delete" -> None
    [] e.op # "delete" /\ row = None -> FieldValues(e)
    [] OTHER -> [f \in Fields |-> IF f \in e.fields THEN e.id ELSE row[f]]

\* One step of merge_row; an update of a missing row creates it.
Replay(row, e) ==
  CASE e.op = "delete" -> None
    [] e.op = "create" \/ (e.op = "update" /\ row = None) -> FieldValues(e)
    [] OTHER -> [f \in Fields |-> IF f \in e.fields THEN e.id ELSE row[f]]

\* ORDER BY created_at: entries of one instant come in any order.
ReadByKey ==
  {s \in SetToSeqs({d.entry : d \in edits}) :
     \A i, j \in 1..Len(s) : i < j => s[i].createdAt <= s[j].createdAt}

\* merge_row, as a fold over what was read.
MergeRow(s) == FoldLeft(Replay, baseRow, s)

----------------------------------------------------------------------------

UsedIds == {d.entry.id : d \in edits}
           \cup {writing[w].id : w \in {v \in Writers : writing[v] # None}}

\* make_entry and the flush.
WriteEntry(w, x, op, fields) ==
  /\ writing[w] = None
  /\ x \notin UsedIds
  /\ writing' = [writing EXCEPT ![w] =
                  [id |-> x, op |-> op, fields |-> fields, createdAt |-> time]]
  /\ UNCHANGED <<edits, baseRow, time>>

CommitEntry(w) ==
  /\ writing[w] # None
  /\ edits' = edits \cup {[entry |-> writing[w], seenAt |-> time]}
  /\ time' = time + 1
  /\ writing' = [writing EXCEPT ![w] = None]
  /\ UNCHANGED baseRow

WriteFails(w) ==
  /\ writing[w] # None
  /\ writing' = [writing EXCEPT ![w] = None]
  /\ UNCHANGED <<edits, baseRow, time>>

EditLogInit ==
  /\ edits = {}
  /\ baseRow \in {None, [f \in Fields |-> Base]}
  /\ time = 0
  /\ writing = [w \in Writers |-> None]

EditLogNext ==
  \E w \in Writers :
    \/ \E x \in EntryIds, op \in {"create", "update", "delete"},
          fields \in SUBSET Fields : WriteEntry(w, x, op, fields)
    \/ CommitEntry(w)
    \/ WriteFails(w)

EditLogSpec == EditLogInit /\ [][EditLogNext]_editVars

----------------------------------------------------------------------------

\* Later(d): what was made after d was seen, whatever the orders of the others.
Later(d) == {e \in edits : e.entry.createdAt > d.seenAt}

Writes(d, f) == d.entry.op \in {"create", "delete"} \/ f \in d.entry.fields

\* A reader never sees a value, a base value or a deletion that an edit made
\* after it was seen has replaced, however the commits of concurrent edits
\* are ordered and whichever order the database gives entries of one instant.
LaterEditWins ==
  \A s \in ReadByKey :
    LET row == MergeRow(s)
    IN IF row = None
       THEN \/ baseRow = None /\ edits = {}
            \/ \E d \in edits : /\ d.entry.op = "delete"
                                /\ \A e \in Later(d) : e.entry.op = "delete"
       ELSE \A f \in Fields :
              /\ row[f] = Base => \A d \in edits : ~Writes(d, f)
              /\ \A d \in edits : row[f] = d.entry.id => \A e \in Later(d) : ~Writes(e, f)
=============================================================================
