------------------------------- MODULE Chunking -------------------------------
(***************************************************************************)
(* chunk_markdown (northforge/retrieval/chunking.py): a document is cut    *)
(* into the chunks that are searched and cited.  A heading ends a section; *)
(* within a section sentences are gathered up to a token cap, and a chunk  *)
(* begins with the last sentence of the one before it.                     *)
(*                                                                         *)
(* A text is the sequence of its headings and sentences.  Each item knows  *)
(* how many body tokens the text has up to its end (heading lines belong   *)
(* to no body), so that token counts are differences, as the code's slices *)
(* of the text are.  Control characters, which are removed first, and      *)
(* blank space, which is trimmed from every span, leave no trace here.     *)
(***************************************************************************)
EXTENDS Integers, Sequences

CONSTANTS
    Texts,          \* documents, as sequences of items
    Headings,       \* texts of heading lines; NoHeading for a blank one
    NoHeading,
    MaxTokens       \* the cap, DEFAULT_MAX_TOKENS = 220

Items == [is : {"heading"}, name : Headings, upto : Nat]
         \cup [is : {"sentence"}, upto : Nat]

IsHeading(t, i) == t[i].is = "heading"
Before(t, i) == IF i = 1 THEN 0 ELSE t[i - 1].upto

\* _token_count of the text from item a to item b.
Tokens(t, a, b) == t[b].upto - Before(t, a)

ASSUME ChunkingAssumption ==
    /\ MaxTokens \in Nat \ {0}
    /\ NoHeading \in Headings
    /\ Texts \subseteq Seq(Items)
    /\ \A t \in Texts : \A i \in DOMAIN t :
         IF IsHeading(t, i) THEN t[i].upto = Before(t, i) ELSE t[i].upto > Before(t, i)

VARIABLES
    text,       \* the document
    pos,        \* the next item to read
    heading,    \* the heading the section at hand stands under
    start,      \* first sentence of the open chunk, 0 without one
    total,      \* token_total
    chunks      \* the chunks so far; the sequence number is the index

cutVars == <<text, pos, heading, start, total, chunks>>

Chunk(h, a, b) == [heading |-> h, first |-> a, last |-> b, tokens |-> Tokens(text, a, b)]

CutInit ==
    /\ text \in Texts
    /\ pos = 1
    /\ heading = NoHeading
    /\ start = 0
    /\ total = 0
    /\ chunks = <<>>

Reading(kind) == pos <= Len(text) /\ text[pos].is = kind
ReadOn == pos' = pos + 1

WouldExceed == total + Tokens(text, pos, pos) > MaxTokens

\* The first sentence of a section always goes in, and every one that fits.
TakeSentence ==
    /\ Reading("sentence")
    /\ start = 0 \/ ~WouldExceed
    /\ start' = IF start = 0 THEN pos ELSE start
    /\ total' = total + Tokens(text, pos, pos)
    /\ ReadOn
    /\ UNCHANGED <<text, heading, chunks>>

\* Bug: the chunks of a section do not overlap.
CloseChunkWithoutOverlap ==
    /\ Reading("sentence")
    /\ start # 0 /\ WouldExceed
    /\ chunks' = Append(chunks, Chunk(heading, start, pos - 1))
    /\ start' = pos
    /\ total' = Tokens(text, pos, pos)
    /\ ReadOn
    /\ UNCHANGED <<text, heading>>

\* Bug: the tokens of the overlap are not counted.
CloseChunkUncounted ==
    /\ Reading("sentence")
    /\ start # 0 /\ WouldExceed
    /\ chunks' = Append(chunks, Chunk(heading, start, pos - 1))
    /\ start' = pos - 1
    /\ total' = Tokens(text, pos, pos)
    /\ ReadOn
    /\ UNCHANGED <<text, heading>>

\* A sentence that does not fit closes the chunk.  The next one is the last sentence of
\* this one and the sentence at hand, whatever the two amount to.
CloseChunk ==
    /\ Reading("sentence")
    /\ start # 0 /\ WouldExceed
    /\ chunks' = Append(chunks, Chunk(heading, start, pos - 1))
    /\ start' = pos - 1
    /\ total' = Tokens(text, pos - 1, pos)
    /\ ReadOn
    /\ UNCHANGED <<text, heading>>

\* What is open when a section ends is its last chunk; a section without text has none.
Flushed == IF start = 0 THEN chunks ELSE Append(chunks, Chunk(heading, start, pos - 1))

ReadHeading ==
    /\ Reading("heading")
    /\ chunks' = Flushed
    /\ heading' = text[pos].name
    /\ start' = 0
    /\ total' = 0
    /\ ReadOn
    /\ UNCHANGED text

EndOfText ==
    /\ pos = Len(text) + 1
    /\ chunks' = Flushed
    /\ start' = 0
    /\ total' = 0
    /\ ReadOn
    /\ UNCHANGED <<text, heading>>

CutNext == TakeSentence \/ CloseChunk \/ ReadHeading \/ EndOfText

CutSpec == CutInit /\ [][CutNext]_cutVars

---------------------------------------------------------------------------
\* The heading a sentence stands under.
HeadingOf(t, i) ==
    LET above == {k \in 1..(i - 1) : IsHeading(t, k)}
    IN  IF above = {} THEN NoHeading
        ELSE t[CHOOSE k \in above : \A l \in above : l <= k].name

\* No heading stands between two items.
SameSection(t, a, b) == \A k \in a..b : ~IsHeading(t, k)

Done == pos > Len(text) + 1

\* Nothing is lost and nothing is cited under a wrong clause: every sentence is in a chunk,
\* a chunk lies within one section and names its heading, and the chunks come in the order
\* of the text (chunk ids are their numbers).  A clause cut in two is never orphaned: where
\* a section goes on, the next chunk begins with the last sentence of the one before.
ChunksCover ==
    /\ Done => \A i \in DOMAIN text : ~IsHeading(text, i) =>
         \E n \in DOMAIN chunks : i \in chunks[n].first..chunks[n].last
    /\ \A n \in DOMAIN chunks :
         /\ SameSection(text, chunks[n].first, chunks[n].last)
         /\ chunks[n].heading = HeadingOf(text, chunks[n].first)
    /\ \A n \in 1..(Len(chunks) - 1) :
         IF SameSection(text, chunks[n].first, chunks[n + 1].last)
         THEN chunks[n + 1].first = chunks[n].last /\ chunks[n + 1].last > chunks[n].last
         ELSE chunks[n + 1].first > chunks[n].last

\* The cap: a chunk that exceeds it is a single sentence that does, or an overlap sentence
\* and its successor; and a chunk is closed within a section only if one more sentence
\* would have exceeded it.
ChunkSizes ==
    /\ \A n \in DOMAIN chunks :
         chunks[n].tokens > MaxTokens => chunks[n].last <= chunks[n].first + 1
    /\ \A n \in 1..(Len(chunks) - 1) :
         SameSection(text, chunks[n].first, chunks[n + 1].last) =>
            Tokens(text, chunks[n].first, chunks[n].last + 1) > MaxTokens

=============================================================================
