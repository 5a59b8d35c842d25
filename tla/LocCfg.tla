-------------------------------- MODULE LocCfg --------------------------------
(***************************************************************************)
(* The reading of configuration files and of the framework's updates into  *)
(* tables of parameters (utils/loc_cfg.cpp).                               *)
(*                                                                         *)
(* A line is a name and a value, or has no two operands. Of a value the    *)
(* model keeps its text, whether it is written in hexadecimal, and its     *)
(* number. No table names a parameter twice. Lines longer than the buffer  *)
(* are left out.                                                           *)
(***************************************************************************)
EXTENDS Naturals, Sequences, FiniteSets

CONSTANTS Table,     \* config_table: a sequence of [name, type, flag]
          LogTable,  \* loc_param_table
          Broken,    \* a line without two operands
          Files      \* sequences of lines [name, value] and Broken

VARIABLES values,  \* *param_ptr of the entries of Table
          valid,   \* their *param_set
          logs,    \* *param_ptr of the entries of LogTable
          out      \* what was done last, and the values before it (history)
vars == <<values, valid, logs, out>>

Unset(table) == [i \in DOMAIN table |-> IF table[i].type = "s" THEN "" ELSE 0]
Init ==
  /\ values = Unset(Table) /\ valid = [i \in DOMAIN Table |-> FALSE]
  /\ logs = Unset(LogTable)
  /\ out = [op |-> "none"]

\* What an entry of the type takes of a value: "NULL" empties a string, and a
\* number in hexadecimal is not read as a double.
Stored(type, v) ==
  CASE type = "s" -> IF v.text = "NULL" THEN "" ELSE v.text
    [] type = "n" -> v.number
    [] type = "f" -> IF v.hex THEN 0 ELSE v.number

Hits(table, line) == IF line = Broken THEN {} ELSE {i \in DOMAIN table : table[i].name = line.name}

FillConfItem(table, st, line) ==
  LET hits == Hits(table, line) IN
  [values |-> [i \in DOMAIN table |-> IF i \in hits THEN Stored(table[i].type, line.value) ELSE st.values[i]],
   valid |-> [i \in DOMAIN table |-> st.valid[i] \/ (i \in hits /\ table[i].flag)],
   lines |-> st.lines + 1]

\* Lines are read until num of them have filled an entry.
RECURSIVE FillFrom(_, _, _, _)
FillFrom(table, st, lines, num) ==
  IF num = 0 \/ lines = <<>> THEN st
  ELSE FillFrom(table, FillConfItem(table, st, Head(lines)), Tail(lines),
                num - Cardinality(Hits(table, Head(lines))))
\* Faulty variant: every line counts.
RECURSIVE FillFromCounting(_, _, _, _)
FillFromCounting(table, st, lines, num) ==
  IF num = 0 \/ lines = <<>> THEN st
  ELSE FillFromCounting(table, FillConfItem(table, st, Head(lines)), Tail(lines), num - 1)
CountedLines(table, st, lines, num) == FillFromCounting(table, st, lines, num)
ReadLines(table, st, lines, num) == FillFrom(table, st, lines, num)

\* The validity bits are cleared first.
ReadConfR(table, old, file) ==
  ReadLines(table, [values |-> old, valid |-> [i \in DOMAIN table |-> FALSE], lines |-> 0], file, Len(table))

\* The file is read twice: for the table, and for the log level.
ReadConf(file) ==
  LET read == ReadConfR(Table, values, file) IN
  /\ values' = read.values /\ valid' = read.valid
  /\ logs' = ReadConfR(LogTable, logs, file).values
  /\ out' = [op |-> "read", data |-> file, before |-> values, set |-> valid, logs |-> logs, ret |-> 0]

\* An update stops one entry short of the whole table; it returns the lines
\* it has read.
UpdateConf(data) ==
  LET read == ReadLines(Table, [values |-> values, valid |-> valid, lines |-> 0], data, Len(Table) - 1) IN
  /\ values' = read.values /\ valid' = read.valid
  /\ out' = [op |-> "update", data |-> data, before |-> values, set |-> valid, logs |-> logs, ret |-> read.lines]
  /\ UNCHANGED logs

Next == \E file \in Files : ReadConf(file) \/ UpdateConf(file)
Spec == Init /\ [][Next]_vars
------------------------------------------------------------------------------
Given(table, i, data) == {k \in DOMAIN data : i \in Hits(table, data[k])}
Fits(table, data, limit) == Cardinality({k \in DOMAIN data : Hits(table, data[k]) # {}}) <= limit
Last(S) == CHOOSE k \in S : \A l \in S : l <= k
Expected(table, i, data, old) ==
  LET given == Given(table, i, data)
  IN IF given = {} THEN old ELSE Stored(table[i].type, data[Last(given)].value)

(* After a file or an update every parameter has the last value given for   *)
(* it, or the one it had, whatever other lines there are, and it is valid    *)
(* exactly if a file has given it: unless the lines that name parameters    *)
(* are more than the table has entries, or for an update more than all but   *)
(* one of them.                                                             *)
LastValueHolds ==
  /\ out.op # "none" /\ Fits(Table, out.data, IF out.op = "read" THEN Len(Table) ELSE Len(Table) - 1) =>
       \A i \in DOMAIN Table :
          /\ values[i] = Expected(Table, i, out.data, out.before[i])
          /\ valid[i] = (Table[i].flag /\ (Given(Table, i, out.data) # {} \/ (out.op = "update" /\ out.set[i])))
  /\ out.op = "read" /\ Fits(LogTable, out.data, Len(LogTable)) =>
       \A i \in DOMAIN LogTable : logs[i] = Expected(LogTable, i, out.data, out.logs[i])
===============================================================================
