------------------------------ MODULE Chunking ------------------------------
(***************************************************************************)
(* knowledge/ingestion/chunking.py: chunk_text, one turn of its loop per   *)
(* step, over every text of a small alphabet and every parameter, refused  *)
(* ones included.  Offsets count from 0; text[p] is the character between  *)
(* the offsets p - 1 and p.                                                *)
(***************************************************************************)
EXTENDS Integers, Sequences, FiniteSetsExt

CONSTANTS
  Characters,     \* the alphabet, of the classes below or of none
  MaxLength,      \* bound: characters of a text
  Parameters,     \* bound: the pairs of max_chars and overlap_chars of calls
  SearchWindow    \* _BOUNDARY_SEARCH_WINDOW

ASSUME ChunkAssumption == Parameters \subseteq Int \X Int /\ SearchWindow \in Nat

VARIABLES
  call,       \* "none", "looping", "returned", "refused"
  given,      \* text, max_chars and overlap_chars
  position,   \* where the next chunk starts
  cut         \* the chunks so far; `upto` is the offset a chunk was cut at

chunkVars == <<call, given, position, cut>>

Whitespace == {" ", "newline"}
Terminators == {"."}
Closers == {")"}

Length == Len(given.text)
Inked(from, to) == {p \in from + 1 .. to : given.text[p] \notin Whitespace}

-----------------------------------------------------------------------------
\* The ends of the matches in text[from:to] of a paragraph break, ...
ParagraphEnds(from, to) ==
  {p \in from + 1 .. to : /\ given.text[p] = "newline"
                          /\ \E q \in from + 1 .. p - 1 : given.text[q] = "newline"
                                                       /\ Inked(q, p) = {}}

\* ... of a sentence end, ...
SentenceEnds(from, to) ==
  {p \in from + 1 .. to : /\ given.text[p] \in Whitespace
                          /\ \E q \in from + 1 .. p - 1 :
                               /\ given.text[q] \in Terminators
                               /\ \A k \in q + 1 .. p - 1 : given.text[k] \in Closers}

\* ... and of a space.
SpaceEnds(from, to) == {p \in from + 1 .. to : given.text[p] = " "}

\* The last of the first kind that occurs, else the limit
Nicest(from, to) ==
  LET kinds == <<ParagraphEnds(from, to), SentenceEnds(from, to), SpaceEnds(from, to), {to}>>
  IN Max(kinds[Min({n \in DOMAIN kinds : kinds[n] # {}})])

\* Mutant: a boundary is worth any shortening of the chunk.
FindBoundaryAnywhere(start, hard_end) == Nicest(start + 1, hard_end)

\* _find_boundary
FindBoundary(start, hard_end) ==
  Nicest(Max({start + 1, hard_end - SearchWindow}), hard_end)

\* Mutant: forward progress is left to the overlap.
NextPositionByOverlap(end) == Max({end - given.overlap, position})

\* Mutant: the character at the boundary is left out.
NextPositionPastEnd(end) == Max({end - given.overlap, position + 1}) + 1

\* Where the next chunk starts after one that ends at `end`
NextPosition(end) == Max({end - given.overlap, position + 1})

\* Mutant: whitespace is a chunk too.
ChunkOfAnything(from, to) == <<[start |-> from, end |-> to, upto |-> to]>>

\* The stripped span of text[from:to], if anything is left of it
ChunkOf(from, to) ==
  LET ink == Inked(from, to)
  IN IF ink = {} THEN <<>> ELSE <<[start |-> Min(ink) - 1, end |-> Max(ink), upto |-> to]>>

-----------------------------------------------------------------------------
\* The text comes to be, one character a step.
Write ==
  /\ call = "none" /\ Length < MaxLength
  /\ \E c \in Characters : given' = [given EXCEPT !.text = Append(@, c)]
  /\ UNCHANGED <<call, position, cut>>

\* ChunkingError: parameters that cannot produce progress
Refused(max_chars, overlap) == max_chars < 1 \/ overlap < 0 \/ overlap >= max_chars

\* A call; whether it is refused does not depend on the text, so only the
\* empty one is tried.  A blank text has no chunks.
ChunkText ==
  /\ call = "none"
  /\ \E p \in Parameters :
       /\ Refused(p[1], p[2]) => given.text = <<>>
       /\ given' = [given EXCEPT !.max = p[1], !.overlap = p[2]]
       /\ call' = IF Refused(p[1], p[2]) THEN "refused"
                  ELSE IF Inked(0, Length) = {} THEN "returned"
                  ELSE "looping"
  /\ UNCHANGED <<position, cut>>

\* A turn of the loop; the loop's own condition is always true here (ChunkTypeOK).
CutChunk ==
  /\ call = "looping" /\ position < Length
  /\ LET hard_end == Min({position + given.max, Length})
         end == IF hard_end >= Length THEN hard_end ELSE FindBoundary(position, hard_end)
     IN /\ cut' = cut \o ChunkOf(position, end)
        /\ IF end >= Length
             THEN call' = "returned" /\ UNCHANGED position
             ELSE position' = NextPosition(end) /\ UNCHANGED call
  /\ UNCHANGED given

ChunkInit ==
  /\ call = "none" /\ given = [text |-> <<>>, max |-> 0, overlap |-> 0]
  /\ position = 0 /\ cut = <<>>

ChunkNext == Write \/ ChunkText \/ CutChunk

ChunkSpec == ChunkInit /\ [][ChunkNext]_chunkVars

-----------------------------------------------------------------------------
(* Properties *)

\* A chunk starts and ends at ink inside of the text and is no longer than
\* max_chars, so that a citation by offsets quotes what it should.
ChunkTypeOK ==
  /\ call \in {"none", "looping", "returned", "refused"}
  /\ position \in 0 .. Length
  /\ call = "looping" => position < Length
  /\ \A n \in DOMAIN cut :
       /\ 0 <= cut[n].start /\ cut[n].start < cut[n].end /\ cut[n].end <= Length
       /\ {cut[n].start + 1, cut[n].end} \subseteq Inked(0, Length)
       /\ cut[n].end - cut[n].start <= given.max

\* What the defaults satisfy (1200 - 300 > 150) and chunk_text does not demand
OverlapFits == given.max - SearchWindow > given.overlap

\* A pair of characters no further apart than the overlap is together in some
\* chunk (a clause whose subject is in one chunk and whose condition is in the
\* next retrieves badly from either), wherever the boundaries fall, when the
\* overlap fits; nothing of the text is lost in any case.
FactsStayTogether ==
  call = "returned" =>
    LET apart == IF OverlapFits THEN given.overlap ELSE 0
    IN \A p \in Inked(0, Length) : \A q \in Inked(p - 1, Min({p + apart, Length})) :
         \E n \in DOMAIN cut : cut[n].start < p /\ q <= cut[n].end

\* Every chunk is cut beyond the one before it when the overlap fits: no chunk
\* repeats what is whole in the one before, but for blanks at the text's end.
EveryChunkAddsText ==
  OverlapFits => \A n \in 2 .. Len(cut) : cut[n - 1].upto < cut[n].upto

\* Every turn of the loop that is not the last starts its chunk further on,
\* within the text (ChunkTypeOK): every call ends, wherever the boundaries fall
\* (_find_boundary may end a chunk so early that the overlap would take the
\* next one back).
EveryTurnAdvances ==
  [][call = "looping" /\ call' = "looping" => position' > position]_chunkVars

\* The chunks of a text hold all of it, pairs included, and none twice.
ChunksCoverTheText == FactsStayTogether /\ EveryChunkAddsText
=============================================================================
