-------------------------- MODULE StatementImport --------------------------
(***************************************************************************)
(* Importing bank statements (app/treasury/statements.py and               *)
(* import_statement of reconciling.py): what keeps a row that the bank     *)
(* tells twice from becoming two lines, and two rows that look the same    *)
(* from becoming one.                                                      *)
(*                                                                         *)
(* A file tells a stretch of the bank's history (ImportedRows).            *)
(***************************************************************************)
EXTENDS ImportedRows

CONSTANTS
  Sessions,  \* requests being served
  Formats,   \* bound: formats a bank sends, of csv, mt940 and ofx
  MidDay     \* formats whose files may start within a day

ASSUME StatementImportAssumption ==
  /\ Formats \subseteq {"csv", "mt940", "ofx"}
  /\ MidDay \subseteq Formats

VARIABLE
  tx  \* the request each session serves

vars == <<format, lines, told, tx>>

DayStarts(i) == i = 1 \/ History[i - 1].day # History[i].day

Files ==
  {f \in [from: DOMAIN History, to: DOMAIN History] :
     f.from <= f.to /\ (format \in MidDay \/ DayStarts(f.from))}

(* The rows a source can read; the others are reported and left out. *)
Parsed(f) == {i \in f.from..f.to : History[i].readable}

(* Only MT940 states the balance it starts from. *)
Opening(f) == IF format = "mt940" THEN AmountOf(1..(f.from - 1)) ELSE Null

(* Mutant of Running: the balance starts from nothing in every file. *)
RunningFromNothing(f, i) ==
  IF Opening(f) = Null THEN Null ELSE AmountOf({j \in Parsed(f) : j <= i})

(* The balance as import_statement adds it up, over the rows it was given. *)
Running(f, i) ==
  IF Opening(f) = Null THEN Null ELSE Opening(f) + AmountOf({j \in Parsed(f) : j <= i})

(* line_hash, without collisions. *)
Hash(f, i) == <<Look(i), Running(f, i)>>

(* Which of the rows of its hash in the file this one is. *)
Seen(f, i) == Cardinality({j \in Parsed(f) : j <= i /\ Hash(f, j) = Hash(f, i)})

(* Mutant of Repeats: a hash known is a row known. *)
RepeatsAny(f, i, known) == \E l \in known : l.hash = Hash(f, i)

(* A row is a repeat as long as the lines of its hash are not used up.     *)
Repeats(f, i, known) == Seen(f, i) <= Cardinality({l \in known : l.hash = Hash(f, i)})

NewLines(f, known) ==
  {[hash |-> Hash(f, i), occurrence |-> Seen(f, i)] : i \in {j \in Parsed(f) : ~Repeats(f, j, known)}}

Idle == [pc |-> "idle", file |-> Null, new |-> {}]

-----------------------------------------------------------------------------
Init ==
  /\ format \in Formats
  /\ lines = {}
  /\ told = {}
  /\ tx = [s \in Sessions |-> Idle]

(* The file is parsed, and the lines of each hash are counted, before      *)
(* anything is inserted.                                                   *)
BeginImport(s, f) ==
  /\ tx[s].pc = "idle"
  /\ tx' = [tx EXCEPT ![s] = [pc |-> "insert", file |-> f, new |-> NewLines(f, lines)]]
  /\ UNCHANGED <<format, lines, told>>

(* The unique index on hash and occurrence: a row waits for a transaction  *)
(* that has inserted the same key.                                         *)
Blocked(s) == \E r \in Sessions \ {s} : tx[r].pc = "commit" /\ tx[r].new \cap tx[s].new # {}

Inserted(s) == tx[s].new \cap lines = {}

Insert(s) ==
  /\ tx[s].pc = "insert" /\ ~Blocked(s)
  /\ tx' = [tx EXCEPT ![s] = IF Inserted(s) THEN [@ EXCEPT !.pc = "commit"] ELSE Idle]
  /\ UNCHANGED <<format, lines, told>>

Commit(s) ==
  /\ tx[s].pc = "commit"
  /\ lines' = lines \cup tx[s].new
  /\ told' = told \cup Parsed(tx[s].file)
  /\ tx' = [tx EXCEPT ![s] = Idle]
  /\ UNCHANGED format

Rollback(s) ==
  /\ tx[s].pc # "idle"
  /\ tx' = [tx EXCEPT ![s] = Idle]
  /\ UNCHANGED <<format, lines, told>>

Next ==
  \E s \in Sessions :
    \/ \E f \in Files : BeginImport(s, f)
    \/ Insert(s)
    \/ Commit(s)
    \/ Rollback(s)

Spec == Init /\ [][Next]_vars
=============================================================================
