---------------------------- MODULE MCEmbedChunks ----------------------------
(* Answers of the embedding service for batches of two texts, the last of   *)
(* one: one vector too few, as many as there are texts, and one too many.   *)
(* The order inside a batch is always right: a batch with another one is    *)
(* what OwnVector excepts.                                                  *)
EXTENDS EmbedChunks

ManyReplies == {<<1>>, <<1, 2>>, <<1, 2, 2>>}
=============================================================================
