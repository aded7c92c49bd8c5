-------------------------------- MODULE Chunker --------------------------------
(***************************************************************************)
(* chunk_pages (ingestion/chunker.py): the paragraphs of a page are        *)
(* gathered in a buffer, the buffer is emitted as a chunk when it is large *)
(* enough or the next paragraph would make it too large, and the last      *)
(* paragraphs of a chunk are kept in the buffer as overlap.                *)
(*                                                                         *)
(* A paragraph is its number of tokens.  The buffer always holds adjacent  *)
(* paragraphs, from .. next - 1 of the page: it is extended at its end by  *)
(* the next paragraph and cut to one of its suffixes.  buf_tok is the sum  *)
(* of the paragraphs; the text of a chunk also has the blank lines between *)
(* them, which no limit is compared with.                                  *)
(***************************************************************************)
EXTENDS Integers, Sequences

CONSTANTS
  Documents,      \* documents after OCR: sequences of pages
  TargetTokens,
  MaxTokens,
  OverlapTokens,
  BlankLine       \* the tokens a blank line adds to a text, at the most

ASSUME DocumentsAssumption == Documents \subseteq Seq(Seq(Nat))
(* _split_paragraphs returns none that is empty. *)
ASSUME ParagraphsAssumption ==
  \A d \in Documents : \A p \in DOMAIN d : \A n \in DOMAIN d[p] : d[p][n] > 0
ASSUME BudgetAssumption ==
  TargetTokens \in Nat /\ MaxTokens \in Nat /\ OverlapTokens \in Nat /\ BlankLine \in Nat

VARIABLES
  doc,      \* ocr.pages
  page,     \* the page of the outer loop
  next,     \* the paragraph of the inner loop
  from,     \* buf is paragraphs from .. next - 1
  chunks

vars == <<doc, page, next, from, chunks>>

Sum(s, i, j) ==
  LET sum[k \in 0 .. Len(s)] == IF k < i THEN 0 ELSE sum[k - 1] + s[k]
  IN  sum[j]

(* buf_tok, for the paragraphs i .. j of page p. *)
Tokens(p, i, j) == Sum(doc[p], i, j)

(* The tokens of paragraphs i .. j joined to one text. *)
Text(p, i, j) == Tokens(p, i, j) + BlankLine * (j - i)

(* _emit: chunk_id is the position in chunks, tokens is token_count. *)
Emit(cs, p, i, j) ==
  Append(cs, [page |-> p, from |-> i, to |-> j, tokens |-> Text(p, i, j)])

(* Mutant: the overlap starts one paragraph too late. *)
OverlapSkips(p, i, j) ==
  LET fits == {t \in i .. j : Tokens(p, t, j) <= OverlapTokens} \cup {j + 2}
  IN  CHOOSE t \in fits : \A u \in fits : t <= u

(* Mutant: the overlap begins with the paragraph that exceeds it. *)
OverlapExceeds(p, i, j) ==
  LET fits == {t \in i .. j : Tokens(p, t + 1, j) <= OverlapTokens}
  IN  CHOOSE t \in fits : \A u \in fits : t <= u

(* _tail_for_overlap(buf): where the longest suffix of paragraphs i .. j   *)
(* that fits into OverlapTokens begins.                                    *)
Overlap(p, i, j) ==
  LET fits == {t \in i .. j : Tokens(p, t, j) <= OverlapTokens} \cup {j + 1}
  IN  CHOOSE t \in fits : \A u \in fits : t <= u

Init ==
  /\ doc \in Documents
  /\ page = 1 /\ next = 1 /\ from = 1
  /\ chunks = <<>>

(* Mutant: a paragraph is appended whatever the buffer holds. *)
TooLargeNever == FALSE

(* The next paragraph does not fit: the buffer is emitted before it. *)
TooLarge == from < next /\ Tokens(page, from, next) > MaxTokens

(* One round of the inner loop. *)
AddParagraph ==
  /\ page <= Len(doc) /\ next <= Len(doc[page])
  /\ LET flushed == IF TooLarge THEN Emit(chunks, page, from, next - 1) ELSE chunks
         start == IF TooLarge THEN Overlap(page, from, next - 1) ELSE from
         full == Tokens(page, start, next) >= TargetTokens
     IN  /\ chunks' = IF full THEN Emit(flushed, page, start, next) ELSE flushed
         /\ from' = IF full THEN Overlap(page, start, next) ELSE start
  /\ next' = next + 1
  /\ UNCHANGED <<doc, page>>

(* Mutant: what is left in the buffer is dropped. *)
EndPageDrops ==
  /\ page <= Len(doc) /\ next > Len(doc[page])
  /\ page' = page + 1 /\ next' = 1 /\ from' = 1
  /\ UNCHANGED <<doc, chunks>>

(* The end of the inner loop: what is left in the buffer is a chunk. *)
EndPage ==
  /\ page <= Len(doc) /\ next > Len(doc[page])
  /\ chunks' = IF from < next THEN Emit(chunks, page, from, next - 1) ELSE chunks
  /\ page' = page + 1 /\ next' = 1 /\ from' = 1
  /\ UNCHANGED doc

Next == AddParagraph \/ EndPage

Spec == Init /\ [][Next]_vars

-----------------------------------------------------------------------------
TypeOK ==
  /\ doc \in Documents
  /\ page \in 1 .. Len(doc) + 1
  /\ next \in Nat /\ from \in Nat /\ 1 <= from /\ from <= next
  /\ IF page \in DOMAIN doc THEN next <= Len(doc[page]) + 1 ELSE next = 1
  /\ chunks \in Seq([page : Nat, from : Nat, to : Nat, tokens : Nat])

Holds(c, p, n) == c.page = p /\ c.from <= n /\ n <= c.to

(* Nothing of a document is lost: every paragraph that was read is in a    *)
(* chunk of its page or still in the buffer, whatever the sizes that made  *)
(* the buffer overflow, the overlap that was kept, and paragraphs larger   *)
(* than any limit (chunker.py:42-63).                                      *)
NothingLost ==
  \A p \in DOMAIN doc : \A n \in DOMAIN doc[p] :
    p < page \/ (p = page /\ n < from) =>
      \E i \in DOMAIN chunks : Holds(chunks[i], p, n)

(* What the buffer holds before a paragraph is added to it. *)
BufferLimit == IF OverlapTokens < TargetTokens THEN TargetTokens - 1 ELSE OverlapTokens

(* The text of a chunk exceeds max_tokens by no more than its blank lines, *)
(* of which there are fewer than tokens in the buffer before the last      *)
(* paragraph, or else it is a last paragraph with no more than the overlap *)
(* and its blank lines before it (token_count, chunker.py:42-63, 75-86).   *)
BudgetKept ==
  \A i \in DOMAIN chunks :
    LET c == chunks[i]
    IN  \/ c.tokens <= MaxTokens + BlankLine * BufferLimit
        \/ c.tokens <= doc[c.page][c.to] + OverlapTokens + BlankLine * OverlapTokens

(* A chunk repeats text of the one before it only as overlap.  One that    *)
(* is nothing but overlap is emitted where the next paragraph does not fit *)
(* behind it and where the page ends, and only once (chunker.py:43-63).    *)
ChunksAdvance ==
  \A i \in DOMAIN chunks : i > 1 /\ chunks[i - 1].page = chunks[i].page =>
    LET last == chunks[i - 1]
        c == chunks[i]
        repeatsOnly(j) == chunks[j - 1].page = c.page /\ chunks[j].to = chunks[j - 1].to
    IN  /\ last.from <= c.from /\ last.to <= c.to
        /\ Tokens(c.page, c.from, last.to) <= OverlapTokens
        /\ last.to = c.to =>
             /\ \/ c.to = Len(doc[c.page])
                \/ Tokens(c.page, c.from, c.to + 1) > MaxTokens
             /\ i > 2 => ~repeatsOnly(i - 1)

=============================================================================
