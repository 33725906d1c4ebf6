---------------------------- MODULE ImportReader ----------------------------
(***************************************************************************)
(* What the file import (importing/reader.py) and the load script read:    *)
(* the records of a file of one of three formats, and the document each is *)
(* mapped to.                                                              *)
(*                                                                         *)
(* A file has a format and a sequence of entries: the lines of JSONL and   *)
(* CSV, the elements of a JSON array.  An entry is a record, blank, not    *)
(* JSON ("garbled"), or JSON that is no object or whose metadata is none   *)
(* ("wrong"); a CSV file has a header.  The values of a record's fields    *)
(* are numbers, 0 for a field that is missing or has only white space.     *)
(***************************************************************************)
EXTENDS Naturals, Sequences, FiniteSets

CONSTANTS
    GenerateIds,        \* IMPORT_GENERATE_IDS
    DefaultCollection   \* DOCUMENT_DEFAULT_COLLECTION, 0 if it is blank

ASSUME MappingAssumption == GenerateIds \in BOOLEAN /\ DefaultCollection \in Nat

EntryOf(kind, c, i, text) == [kind |-> kind, collection |-> c, id |-> i, content |-> text]
Record(c, i, text) == EntryOf("record", c, i, text)
Blank == EntryOf("blank", 0, 0, 0)
Garbled == EntryOf("garbled", 0, 0, 0)
Wrong == EntryOf("wrong", 0, 0, 0)
Header == EntryOf("header", 0, 0, 0)
NoFile == [format |-> "json", entries |-> << >>]

EntryType ==
    [kind : {"record", "blank", "garbled", "wrong", "header"},
     collection : Nat, id : Nat, content : Nat]
FileType == [format : {"json", "jsonl", "csv"}, entries : Seq(EntryType)]

(* The entries that are not skipped, in their order.  This is SelectSeq,   *)
(* whose definition is out of sight for proofs.                            *)
Without(entries, skipped) ==
    LET kept[n \in 0..Len(entries)] ==
          IF n = 0 THEN << >>
          ELSE IF entries[n] \in skipped THEN kept[n - 1]
          ELSE Append(kept[n - 1], entries[n])
    IN kept[Len(entries)]

(* What iter_raw_records yields, as far as the consumer follows it; an     *)
(* entry that is no record stands for the exception.  JSON is parsed as a  *)
(* whole, JSONL line by line; CSV has neither of those errors, but its     *)
(* first line must be there and not be blank.                              *)
Raw(file) ==
    LET lines == Without(file.entries, {Blank})
    IN CASE file.format = "json" ->
              IF Garbled \in {lines[n] : n \in 1..Len(lines)} THEN <<Garbled>> ELSE lines
         [] file.format = "jsonl" -> lines
         [] file.format = "csv" ->
              IF file.entries = << >> \/ Head(file.entries) = Blank THEN <<Garbled>>
              ELSE Tail(lines)

(* map_record raises an error if there is no content, no collection, or no *)
(* id and none may be generated.                                           *)
Collection(e) == IF e.collection # 0 THEN e.collection ELSE DefaultCollection
Mappable(e) ==
    /\ e.kind = "record"
    /\ e.content # 0 /\ Collection(e) # 0
    /\ e.id # 0 \/ GenerateIds

(* load_documents.py takes JSONL and CSV; it skips blank lines, falls back *)
(* to the default collection, and leaves it to the database to refuse what *)
(* is missing.  In a file to load, 0 only stands for a missing field: the  *)
(* database takes an empty text.                                           *)
LoadRows(file) == Without(file.entries, {Blank, Header})
Loadable(e) == e.kind = "record" /\ e.content # 0 /\ Collection(e) # 0 /\ e.id # 0

(* The key of the document.  A generated id is a hash of the whole record, *)
(* and so as good as the record.                                           *)
KeyOf(e) ==
    <<Collection(e), IF e.id # 0 THEN <<e.id>> ELSE <<e.collection, e.content>>>>
Keys(file) == LET raw == Raw(file) IN {KeyOf(raw[n]) : n \in 1..Len(raw)}
LoadKeys(file) == LET rows == LoadRows(file) IN {KeyOf(rows[n]) : n \in 1..Len(rows)}

(* "Duplicate IDs and invalid records fail", and so does "an empty file":  *)
(* what a file must be, whatever the order and the chunks it is read in.   *)
Valid(file) ==
    LET raw == Raw(file)
    IN /\ raw # << >>
       /\ \A n \in 1..Len(raw) : Mappable(raw[n])
       /\ \A m, n \in 1..Len(raw) : KeyOf(raw[m]) = KeyOf(raw[n]) => m = n
=============================================================================
