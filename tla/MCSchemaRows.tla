----------------------------- MODULE MCSchemaRows -----------------------------
(***************************************************************************)
(* Rows and fields for TLC: a typical row of every table, and all rows     *)
(* that differ from it in at most two columns.                             *)
(***************************************************************************)
EXTENDS SchemaRows

Letters(n) == [len |-> n, kind |-> "upper"]

Texts(limit) ==
    {Letters(0)} \cup
        [len : {1, limit - 1, limit, limit + 1},
         kind : {"upper", "lower", "marked", "other", "padded"}]

Times == [at : 1..2, zone : {"utc", "none"}]

Amounts ==
    {amount \in [form : {"integer", "real", "text"},
                 halves : {-2, 0, 1, 2, 3, 2 * MaxMinorUnits - 1, 2 * MaxMinorUnits,
                           2 * MaxMinorUnits + 1, 2 * MaxMinorUnits + 2}] :
        amount.form = "integer" => amount.halves % 2 = 0}

OneLine(id, side) ==
    [id |-> id, position |-> id, side |-> side, currency |-> Letters(3),
     amount |-> [form |-> "integer", halves |-> 2], description |-> Null]

OddLines ==
    LET line == OneLine(2, "credit") IN
    {[line EXCEPT !.id = 1], [line EXCEPT !.side = "debit"], [line EXCEPT !.side = Null]}
        \cup {[line EXCEPT !.position = p] : p \in {-1, 0, 1, 7}}
        \cup {[line EXCEPT !.amount = a] : a \in Amounts \cup {Null}}
        \cup {[line EXCEPT !.currency = c] : c \in Texts(3) \cup {Null}}
        \cup {[line EXCEPT !.description = d] : d \in Texts(1000)}

Lines ==
    {{}, {OneLine(1, "debit")}}
        \cup {{OneLine(1, "debit"), line} : line \in OddLines}
        \cup {{[OneLine(1, "debit") EXCEPT !.amount = a],
               [OneLine(2, "credit") EXCEPT !.amount = a]} : a \in Amounts}

Values(column) ==
    CASE column.type = "text" -> Texts(column.limit) \cup {Null}
      [] column.type = "time" -> Times \cup {Null}
      [] column.type = "json" -> {"none", "declared", "core", Null}
      [] column.type = "choice" -> {"asset", "delete", Null}
      [] column.type = "flag" -> {0, 1, 2, Null}
      [] column.type = "lines" -> Lines

Usual(column) ==
    CASE column.type = "text" -> Letters(1)
      [] column.type = "time" -> [at |-> 1, zone |-> "utc"]
      [] column.type = "json" -> "none"
      [] column.type = "choice" -> "asset"
      [] column.type = "flag" -> 1
      [] column.type = "lines" -> {OneLine(1, "debit"), OneLine(2, "credit")}

OddRows ==
    [t \in Tables |->
        LET columns == Declared[t]
            usual == [c \in DOMAIN columns |->
                         IF c = "action" THEN "delete" ELSE Usual(columns[c])]
        IN  UNION {{[usual EXCEPT ![c] = v, ![d] = w] :
                       v \in Values(columns[c]), w \in Values(columns[d])} :
                   c \in DOMAIN columns, d \in DOMAIN columns}]
=============================================================================
