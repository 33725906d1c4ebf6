----------------------------- MODULE LiveTable -----------------------------
(***************************************************************************)
(* What the ingestion jobs promise to whoever reads the live table,        *)
(* without jobs, pages, staging tables or checkpoints: documents are added *)
(* to it, and what goes away goes with the whole table, in one step, for a *)
(* snapshot that is complete: a source or a file, and nothing else.        *)
(*                                                                         *)
(* Nothing is promised of a snapshot in doubt: one of which a job has lost *)
(* track while it was interrupted.                                         *)
(***************************************************************************)
CONSTANTS
    Documents,      \* all there are
    Snapshots,      \* what may be published, as a whole
    Before          \* what the table may hold in the beginning

VARIABLES
    rows,           \* what a query of the live table sees
    doubt           \* a snapshot in preparation is in doubt

Init == rows \in Before /\ doubt = FALSE

(* SEED, upsert or load commits some documents more. *)
Add ==
    /\ rows \subseteq rows' /\ rows' \subseteq Documents
    /\ UNCHANGED doubt

Publish ==
    /\ rows' \in Snapshots
    /\ UNCHANGED doubt

PublishAnything ==
    /\ doubt
    /\ rows' \subseteq Documents
    /\ UNCHANGED doubt

(* What is prepared may come into doubt, and is not when begun afresh. *)
Prepare ==
    /\ doubt' = ~doubt
    /\ UNCHANGED rows

Next == Add \/ Publish \/ PublishAnything \/ Prepare

Spec == Init /\ [][Next]_<<rows, doubt>>

----------------------------------------------------------------------------
(* A document that every snapshot has, the source and every file that may  *)
(* replace it, stays in the live table once it is there: no swap takes it  *)
(* away, not even for a moment.                                            *)
Lasts == \A d \in rows : ~doubt /\ (\A s \in Snapshots : d \in s) => d \in rows'
Lasting == [][Lasts]_<<rows, doubt>>
=============================================================================
