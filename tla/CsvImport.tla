----------------------------- MODULE CsvImport -----------------------------
(***************************************************************************)
(* products.service importFromCsv: the lines of a file are imported in     *)
(* batches; the lines of a batch run side by side, each looking its name   *)
(* up, counting the inventory (products.repository create) and inserting.  *)
(* Two imports may run at the same time.                                   *)
(*                                                                         *)
(* A title is a product name as findByName compares it, without regard to  *)
(* case; nothing in the database makes it unique.                          *)
(***************************************************************************)
EXTENDS Naturals, FiniteSets

CONSTANTS
  Files,         \* imports in progress at the same time
  FileLength,    \* products in a file
  BatchSize,     \* 50 in the code
  Titles,
  MaxListed      \* bound: products of a title

ASSUME CsvImportAssumption ==
  /\ FileLength \in Nat \ {0} /\ BatchSize \in Nat \ {0} /\ MaxListed \in Nat
  /\ Titles # {}

VARIABLES
  listed,        \* products of each title
  sellable,      \* some product has an available unit
  heading,       \* the category the imports name: is it there
  file           \* what each import is doing

csvImportVars == <<listed, sellable, heading, file>>

(* raced: a product of the title has appeared since the line looked it up. *)
Line == [pc : {"wait", "count", "insert", "done"}, title : Titles, raced : BOOLEAN]
NoLine == [pc |-> "done", title |-> CHOOSE t \in Titles : TRUE, raced |-> FALSE]

File == [running : BOOLEAN, headed : BOOLEAN, active : BOOLEAN, line : [1 .. FileLength -> Line]]
IdleFile == [running |-> FALSE, headed |-> FALSE, active |-> FALSE,
             line |-> [i \in 1 .. FileLength |-> NoLine]]

CsvImportTypeOK ==
  /\ listed \in [Titles -> Nat]
  /\ sellable \in BOOLEAN /\ heading \in BOOLEAN
  /\ file \in [Files -> File]

CsvImportInit ==
  /\ listed = [t \in Titles |-> 0]
  /\ sellable \in BOOLEAN /\ heading = TRUE
  /\ file = [f \in Files |-> IdleFile]

BatchOf(i) == (i - 1) \div BatchSize
BatchsTurn(f, i) ==
  \A j \in 1 .. FileLength : BatchOf(j) < BatchOf(i) => file[f].line[j].pc = "done"

ListStays == UNCHANGED <<listed, sellable, heading>>
LineGoes(f, i, pc) == file' = [file EXCEPT ![f].line[i].pc = pc] /\ ListStays

(* The file is parsed and the category, if one is named, must be there.    *)
StartImportFile(f, titles, headed, active) ==
  /\ ~ file[f].running
  /\ headed => heading
  /\ file' = [file EXCEPT ![f] = [running |-> TRUE, headed |-> headed, active |-> active,
                line |-> [i \in 1 .. FileLength |-> [pc |-> "wait", title |-> titles[i], raced |-> FALSE]]]]
  /\ ListStays

(* Mutant: the name is not looked up.                                      *)
SkipsLookUp(f, i) ==
  /\ file[f].running /\ file[f].line[i].pc = "wait"
  /\ BatchsTurn(f, i)
  /\ LineGoes(f, i, "count")

LookUp(f, i) ==
  /\ file[f].running /\ file[f].line[i].pc = "wait"
  /\ BatchsTurn(f, i)
  /\ LineGoes(f, i, IF listed[file[f].line[i].title] > 0 THEN "done" ELSE "count")

(* validateActivationInventory with no product: any unit will do.          *)
CountInventory(f, i) ==
  /\ file[f].line[i].pc = "count"
  /\ LineGoes(f, i, IF file[f].active /\ ~ sellable THEN "done" ELSE "insert")

(* A new product of title t, by whatever way.                              *)
Raced(t) ==
  [f \in Files |-> [file[f] EXCEPT !.line = [j \in 1 .. FileLength |->
     IF file[f].line[j].title = t /\ file[f].line[j].pc \in {"count", "insert"}
     THEN [file[f].line[j] EXCEPT !.raced = TRUE] ELSE file[f].line[j]]]]

InsertLine(f, i) ==
  LET t == file[f].line[i].title
  IN  /\ file[f].line[i].pc = "insert"
      /\ file[f].headed => heading
      /\ listed[t] < MaxListed
      /\ listed' = [listed EXCEPT ![t] = @ + 1]
      /\ file' = [Raced(t) EXCEPT ![f].line[i] = [@ EXCEPT !.pc = "done", !.raced = FALSE]]
      /\ UNCHANGED <<sellable, heading>>

(* A statement of the line throws, the category's foreign key or another:  *)
(* the line is counted as failed and the others go on.                     *)
LineFails(f, i) ==
  /\ file[f].line[i].pc \in {"count", "insert"} \/ (file[f].running /\ file[f].line[i].pc = "wait" /\ BatchsTurn(f, i))
  /\ LineGoes(f, i, "done")

EndImportFile(f) ==
  /\ file[f].running
  /\ \A i \in 1 .. FileLength : file[f].line[i].pc = "done"
  /\ file' = [file EXCEPT ![f] = IdleFile]
  /\ ListStays

(* create looks no name up; products are deleted; units, categories change.*)
CreateByHand(t) ==
  /\ listed[t] < MaxListed
  /\ listed' = [listed EXCEPT ![t] = @ + 1]
  /\ file' = Raced(t)
  /\ UNCHANGED <<sellable, heading>>

DeleteListed(t) ==
  /\ listed[t] > 0
  /\ listed' = [listed EXCEPT ![t] = @ - 1]
  /\ UNCHANGED <<sellable, heading, file>>

ShopChanges(s, c) ==
  /\ sellable' = s /\ heading' = c
  /\ UNCHANGED <<listed, file>>

CsvImportNext ==
  \/ \E f \in Files :
       \/ \E titles \in [1 .. FileLength -> Titles], headed, active \in BOOLEAN :
            StartImportFile(f, titles, headed, active)
       \/ \E i \in 1 .. FileLength :
            LookUp(f, i) \/ CountInventory(f, i) \/ InsertLine(f, i) \/ LineFails(f, i)
       \/ EndImportFile(f)
  \/ \E t \in Titles : CreateByHand(t) \/ DeleteListed(t)
  \/ \E s, c \in BOOLEAN : ShopChanges(s, c)

CsvImportSpec == CsvImportInit /\ [][CsvImportNext]_csvImportVars

-----------------------------------------------------------------------------
(* "Prevents duplicate data": an import adds a product of a name that is   *)
(* taken only when that product appeared between the line's look-up and    *)
(* its insert - by another import, by hand, or by a line of the same batch.*)
RepeatsOnlyRaced ==
  [][\A f \in Files, i \in 1 .. FileLength :
       (/\ file[f].line[i].pc = "insert" /\ file'[f].line[i].pc = "done"
        /\ listed[file[f].line[i].title] > 0 /\ listed' # listed) =>
       file[f].line[i].raced]_csvImportVars
=============================================================================
