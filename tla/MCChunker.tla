------------------------------ MODULE MCChunker ------------------------------
(***************************************************************************)
(* All documents of one page of up to five paragraphs followed by one that *)
(* is empty or has one.  The sizes lie on both sides of every limit: 1 and *)
(* 2 fit into the overlap, 4 reaches the target, 7 is over the maximum by  *)
(* itself, 2 + 4, 1 + 4 and 1 + 1 + 4 are around it, and 1 + 1 + 1 + 3 is  *)
(* the maximum, with as many blank lines as there can be.                  *)
(***************************************************************************)
EXTENDS Chunker

Sizes == {1, 2, 3, 4, 7}
Pages == UNION {[1 .. k -> Sizes] : k \in 0 .. 5}

mcDocuments == {<<p, q>> : p \in Pages, q \in {<< >>, <<2>>}}

=============================================================================
