------------------------------ MODULE TableSink ------------------------------
(* The table sink of onestep-sql: insert, upsert and update statements under  *)
(* the column policies of _shared/table_sink_policy.py, written to a row that *)
(* several deliveries of the same key reach, replays included.                *)
EXTENDS Integers, Sequences, FiniteSets

CONSTANTS Cols,      \* the columns besides the key
          Names,     \* what update_columns entries may name: columns and the key
          Json,      \* the columns of type JSON
          Scalars,   \* plain values
          Stored,    \* values of the columns of rows written by others
          MaxSends   \* bound

Null == "null"
Missing == "missing"   \* the payload has no such entry
Doc == "doc"           \* a list or dict
Text == "text"         \* its JSON text
Expr == "expr"         \* what update_expr computes
Values == Scalars \cup {Null, Doc}
Payloads == [Cols -> Values \cup {Missing}]
Absent == [c \in {} |-> Null]

VARIABLES config, row, last, outcome, sends
vars == <<config, row, last, outcome, sends>>

-----------------------------------------------------------------------------
(* Construction *)

Policies == {"overwrite", "skip_null", "backfill"}
\* An update_columns entry: a bare name, or a mapping that may name a policy.
Entries == [name : Names, bare : BOOLEAN, policy : Policies]
EntryOK(e) == (e.bare => e.policy = "overwrite") /\ (~e.bare => e.name \in Cols)
\* _normalize_update_columns: no duplicates, nothing that update_expr sets too.
\* <<"*">> stands for update_columns = None: every column of the payload.
NormalizeOK(entries, expr) ==
  /\ \A i \in 1..Len(entries) : EntryOK(entries[i])
  /\ \A i, j \in 1..Len(entries) : i # j => entries[i].name # entries[j].name
  /\ \A i \in 1..Len(entries) : entries[i].name \notin expr
\* __init__ refuses settings that could not write anything.
ConfigOK(c) ==
  /\ c.mode = "insert" => c.all /\ c.expr = {}
  /\ c.mode # "insert" => c.all \/ c.entries # <<>> \/ c.expr # {}
  /\ NormalizeOK(c.entries, c.expr)
Configs ==
  {c \in [mode : {"insert", "upsert", "update"}, all : BOOLEAN,
          entries : {<<>>} \cup {<<e>> : e \in Entries} \cup {<<e, f>> : e, f \in Entries},
          expr : {{}} \cup {{n} : n \in Cols}, json : {"auto", "always", "never"}] :
     (c.all => c.entries = <<>>) /\ ConfigOK(c)}

Listed(c, col) == \E i \in 1..Len(c.entries) : c.entries[i].name = col
Policy(c, col) ==
  IF \E i \in 1..Len(c.entries) : c.entries[i].name = col
  THEN LET i == CHOOSE i \in 1..Len(c.entries) : c.entries[i].name = col IN c.entries[i].policy
  ELSE "overwrite"

-----------------------------------------------------------------------------
(* Statements *)

\* _coerce_json_values
Coerced(c, p, col) ==
  IF p[col] = Doc /\ c.json # "never" /\ (c.json = "always" \/ col \notin Json)
  THEN Text ELSE p[col]

\* The key is always in the payload, and may be listed by its bare name.
Candidates(c, p) ==
  {col \in Cols : p[col] # Missing /\ (c.all \/ Listed(c, col))}
    \cup {key \in Names \ Cols : Listed(c, key)}
Skipped(c, p) == {col \in Candidates(c, p) \cap Cols : Policy(c, col) = "skip_null" /\ p[col] = Null}
\* Mutant: the stored value is not looked at.
PayloadValue(c, p, col, old) == IF col \in c.expr THEN Expr ELSE Coerced(c, p, col)
\* _update_payload: the value a column gets; backfill keeps what is there.
NewValue(c, p, col, old) ==
  IF col \in c.expr THEN Expr
  ELSE IF Policy(c, col) = "backfill" /\ old # Null THEN old
  ELSE Coerced(c, p, col)
Updates(c, p) == (Candidates(c, p) \ Skipped(c, p)) \cup c.expr

\* Columns the statement does not name get their default.
Inserted(c, p) == [col \in Cols |-> IF p[col] = Missing THEN Null ELSE Coerced(c, p, col)]
Applied(c, p, r) ==
  [col \in Cols |-> IF col \in Updates(c, p) THEN NewValue(c, p, col, r[col]) ELSE r[col]]
\* A driver refuses a list or dict for a column that is not JSON.
Refused(c, p, cols) == \E col \in cols \ Json : p[col] = Doc /\ Coerced(c, p, col) = Doc

\* _build_statement and _send; a statement without columns is skipped when the
\* policy emptied it, and an error otherwise.
Outcome(c, p) ==
  CASE c.mode = "insert" ->
         IF row # Absent \/ Refused(c, p, Cols) THEN "error" ELSE "inserted"
    [] c.mode # "insert" /\ Updates(c, p) = {} ->
         IF Skipped(c, p) # {} THEN "skipped" ELSE "error"
    [] c.mode = "update" /\ Updates(c, p) # {} ->
         IF Refused(c, p, (Updates(c, p) \cap Cols) \ c.expr) THEN "error"
         ELSE IF row = Absent THEN "unmatched" ELSE "updated"
    [] c.mode = "upsert" /\ Updates(c, p) # {} ->
         IF Refused(c, p, Cols) THEN "error"
         ELSE IF row = Absent THEN "inserted" ELSE "updated"

Init ==
  /\ config \in Configs /\ row \in {Absent} \cup [Cols -> Stored]
  /\ last = [col \in Cols |-> Missing] /\ outcome = "none" /\ sends = 0

Send(p) ==
  /\ sends < MaxSends /\ sends' = sends + 1
  /\ outcome' = Outcome(config, p) /\ last' = p
  /\ row' = CASE Outcome(config, p) = "inserted" -> Inserted(config, p)
              [] Outcome(config, p) = "updated" -> Applied(config, p, row)
              [] OTHER -> row
  /\ UNCHANGED config
Next == \E p \in Payloads : Send(p)
Spec == Init /\ [][Next]_vars

-----------------------------------------------------------------------------
(* Properties *)

\* The type invariant.
TypeOK ==
  /\ ConfigOK(config)
  /\ row = Absent \/ row \in [Cols -> Values \cup {Text, Expr}]
  /\ outcome \in {"none", "inserted", "updated", "unmatched", "skipped", "error"}

\* Without update_expr, an upsert or update that is sent again changes nothing:
\* the replay of an at-least-once delivery is safe under every mix of policies.
ReplaySafe ==
  sends > 0 /\ config.mode # "insert" /\ config.expr = {} /\ last' = last /\ outcome # "error"
    => row' = row

\* A column under skip_null is never emptied, and one under backfill keeps its
\* first value, whatever the other columns of the statement do.
PoliciesKept ==
  \A i \in 1..Len(config.entries) :
    LET e == config.entries[i] IN
    (e.name \in Cols /\ row # Absent /\ row[e.name] # Null) =>
      /\ e.policy = "skip_null" => row'[e.name] # Null
      /\ e.policy = "backfill" => row'[e.name] = row[e.name]

\* With serialize_json = "auto" a JSON column holds documents, never their text,
\* and any other column never a document.
JsonStored ==
  config.json = "auto" /\ row # Absent =>
    \A col \in Cols : (row[col] = Text => col \notin Json) /\ (row[col] = Doc => col \in Json)
=============================================================================
