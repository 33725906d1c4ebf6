---------------------------- MODULE MCIngestion ----------------------------
EXTENDS Ingestion, TLC
Symmetry == Permutations(Jobs)
\* Sources of one, two and three pages; some rows are filtered out.
ThreePages == <<2, 2, 1>>
TwoPages == <<2, 1>>
\* The live table is up to date, or holds what the source has no longer.
AnyTable == {Source, {<<9, <<9>>>>, <<1, <<1>>>>}}
OldTable == {{<<9, <<9>>>>}}

\* Three documents, in chunks of two: one of the source, one without a
\* collection, one without an id.
Good == <<Record(1, 1, 1), Record(0, 2, 1), Record(2, 0, 1)>>
File(format, entries) == [format |-> format, entries |-> entries]
GoodFile == File("jsonl", Good)
\* A load of the source's documents and more, in a full and a short batch; a
\* replace that leaves documents of no source in staging when it is rejected.
TaskFiles ==
    [k \in {"replace", "load"} |->
       IF k = "load" THEN {File("csv", <<Header, Record(1, 2, 1), Record(0, 3, 1), Record(5, 5, 1)>>)}
       ELSE {GoodFile, File("jsonl", <<Record(5, 1, 1), Record(5, 3, 1), Garbled>>)}]
\* Imports that are rejected at once, or after the first chunk.
ResumeFiles ==
    [k \in {"replace"} |->
       {File("json", << >>), File("jsonl", <<Record(1, 1, 1), Record(7, 7, 1), Wrong>>)}]
\* Good files, a key that comes again in a later chunk (once because of the
\* default collection), records that cannot be mapped, files without documents.
OddFiles ==
    {File("jsonl", <<Record(1, 2, 1), Blank, Record(2, 2, 1), Record(0, 2, 2)>>),
     File("json", <<Record(2, 0, 1), Record(2, 0, 2), Record(2, 0, 1)>>),
     File("jsonl", Good \o <<Record(2, 2, 0)>>),
     File("json", Good \o <<Garbled>>), File("jsonl", Good \o <<Garbled>>),
     File("csv", <<Header, Blank>>), File("csv", <<Blank>>), File("json", <<Wrong>>)}
GoodFiles == {GoodFile, File("csv", <<Header, Record(1, 1, 1)>>)}
\* A file that is loaded, and one whose second batch cannot be.
LoadFiles ==
    {File("jsonl", <<Record(0, 2, 1), Record(1, 1, 1)>>),
     File("jsonl", <<Record(2, 2, 1), Record(3, 3, 1), Blank, Record(3, 3, 1), Garbled>>)}
SomeFiles ==
    [k \in Imports \cup Loads |->
       CASE k = "upsert" -> GoodFiles
         [] k \in Loads -> LoadFiles
         [] OTHER -> GoodFiles \cup OddFiles]
=============================================================================
