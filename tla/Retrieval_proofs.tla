-------------------------- MODULE Retrieval_proofs --------------------------
(***************************************************************************)
(* Proofs about the package retrieval: how a text is cut (Chunking), what  *)
(* a search or a listing answers (Retrieval), and what the requests and    *)
(* jobs that use them hold (DocumentAccess).                               *)
(***************************************************************************)
EXTENDS Chunking, DocumentAccess, FiniteSetTheorems, WellFoundedInduction, TLAPS

(***************************************************************************)
(* Part 1.  Chunking, for every set of texts, every cap and any number of  *)
(* sections and sentences: nothing is lost, headings are right, chunks of  *)
(* a section overlap by one sentence (ChunksCoverAlways), and only an      *)
(* overlap or a single sentence exceeds the cap (ChunkSizesAlways).        *)
(*                                                                         *)
(* Both speak of finished chunks; the invariant adds what is known of the  *)
(* open one: it lies in one section, total counts its tokens, and how it   *)
(* goes on from the last finished chunk.                                   *)
(***************************************************************************)

ChunkSet == [heading : Headings, first : Nat, last : Nat, tokens : Int]

TypeInv ==
  /\ text \in Texts
  /\ pos \in 1..(Len(text) + 2)
  /\ heading \in Headings
  /\ start \in 0..Len(text)
  /\ total \in Int
  /\ chunks \in Seq(ChunkSet)

(* The last heading before item i, if there is one, has this name.         *)
Under(t, i, name) ==
  \/ name = NoHeading /\ \A k \in 1..(i - 1) : ~IsHeading(t, k)
  \/ \E k \in 1..(i - 1) :
       /\ IsHeading(t, k) /\ t[k].name = name
       /\ \A l \in (k + 1)..(i - 1) : ~IsHeading(t, l)

HeadingInv == pos <= Len(text) + 1 => Under(text, pos, heading)

OpenInv ==
  IF start = 0 THEN total = 0
  ELSE /\ start < pos /\ pos <= Len(text) + 1
       /\ SameSection(text, start, pos - 1)
       /\ total = Tokens(text, start, pos - 1)
       /\ total > MaxTokens => pos <= start + 2

SoundChunk(t, p, c) ==
  /\ 1 <= c.first /\ c.first <= c.last /\ c.last <= Len(t) /\ c.last < p
  /\ SameSection(t, c.first, c.last)
  /\ Under(t, c.first, c.heading)
  /\ c.tokens > MaxTokens => c.last <= c.first + 1

ChunksInv == \A n \in DOMAIN chunks : SoundChunk(text, pos, chunks[n])

(* A heading stands strictly between two items.                            *)
Cut(t, a, b) == \E k \in (a + 1)..(b - 1) : IsHeading(t, k)

(* How the sentences first to last go on from chunk c: in another section, *)
(* or in its section, from its last sentence.                              *)
Follows(t, c, first, last) ==
  \/ Cut(t, c.last, first)
  \/ /\ first = c.last /\ last > c.last
     /\ Tokens(t, c.first, c.last + 1) > MaxTokens

PairsInv ==
  \A n \in 1..(Len(chunks) - 1) :
    Follows(text, chunks[n], chunks[n + 1].first, chunks[n + 1].last)

LinkInv ==
  chunks # <<>> =>
    IF start # 0 THEN Follows(text, chunks[Len(chunks)], start, pos - 1)
    ELSE pos <= Len(text) + 1 => Cut(text, chunks[Len(chunks)].last, pos)

Covered(i) == \E n \in DOMAIN chunks : i \in chunks[n].first..chunks[n].last
CoverInv ==
  \A i \in DOMAIN text :
    i < pos /\ ~IsHeading(text, i) => Covered(i) \/ (start # 0 /\ start <= i)

CutInv ==
  /\ TypeInv
  /\ HeadingInv
  /\ OpenInv
  /\ ChunksInv
  /\ PairsInv
  /\ LinkInv
  /\ CoverInv

-----------------------------------------------------------------------------
(* What the assumption says of one item of a text.                         *)
LEMMA ItemFacts ==
  ASSUME NEW t \in Texts, NEW i \in 1..Len(t)
  PROVE  /\ t \in Seq(Items) /\ DOMAIN t = 1..Len(t) /\ Len(t) \in Nat
         /\ t[i].upto \in Nat
         /\ IsHeading(t, i) => t[i].name \in Headings
<1>1. t \in Seq(Items) /\ DOMAIN t = 1..Len(t) /\ Len(t) \in Nat
  BY ChunkingAssumption
<1>2. t[i] \in Items
  BY <1>1
<1>3. CASE t[i] \in [is : {"heading"}, name : Headings, upto : Nat]
  BY <1>1, <1>3 DEF IsHeading
<1>4. CASE t[i] \in [is : {"sentence"}, upto : Nat]
  BY <1>1, <1>4 DEF IsHeading
<1> QED
  BY <1>2, <1>3, <1>4 DEF Items

(* Token counts are integers, and neighbouring stretches add up.           *)
LEMMA TokensAdd ==
  ASSUME NEW t \in Texts, NEW a \in 1..Len(t), NEW b \in 1..Len(t), a < b
  PROVE  /\ Tokens(t, a, b - 1) \in Int /\ Tokens(t, b, b) \in Int
         /\ Tokens(t, b - 1, b) \in Int /\ Tokens(t, a, b) \in Int
         /\ Tokens(t, a, b - 1) + Tokens(t, b, b) = Tokens(t, a, b)
<1>1. Len(t) \in Nat
  BY ChunkingAssumption
<1>2. \A i \in 1..Len(t) : t[i].upto \in Nat
  BY ItemFacts
<1>3. \A i \in 1..Len(t) : Before(t, i) \in Nat
  BY <1>1, <1>2 DEF Before
<1>4. b - 1 \in 1..Len(t) /\ Before(t, b) = t[b - 1].upto
  BY <1>1 DEF Before
<1>5. /\ t[b].upto \in Nat /\ t[b - 1].upto \in Nat
      /\ Before(t, a) \in Nat /\ Before(t, b - 1) \in Nat
  BY <1>2, <1>3, <1>4
<1>6. /\ Tokens(t, a, b - 1) = t[b - 1].upto - Before(t, a)
      /\ Tokens(t, b, b) = t[b].upto - t[b - 1].upto
      /\ Tokens(t, b - 1, b) = t[b].upto - Before(t, b - 1)
      /\ Tokens(t, a, b) = t[b].upto - Before(t, a)
  BY <1>4 DEF Tokens
<1> QED
  BY <1>5, <1>6

(* Under names the heading.                                                *)
LEMMA UnderIsHeadingOf ==
  ASSUME NEW i \in Nat, NEW name, Under(text, i, name)
  PROVE  HeadingOf(text, i) = name
<1> DEFINE above == {k \in 1..(i - 1) : IsHeading(text, k)}
<1>1. CASE name = NoHeading /\ \A k \in 1..(i - 1) : ~IsHeading(text, k)
  <2>1. above = {}
    BY <1>1
  <2> QED
    BY <1>1, <2>1 DEF HeadingOf
<1>2. ASSUME NEW k \in 1..(i - 1), IsHeading(text, k), text[k].name = name,
             \A l \in (k + 1)..(i - 1) : ~IsHeading(text, l)
      PROVE  HeadingOf(text, i) = name
  <2>1. k \in above /\ \A l \in above : l <= k
    BY <1>2
  <2>2. \A m \in above : (\A l \in above : l <= m) => m = k
    BY <2>1
  <2>3. (CHOOSE m \in above : \A l \in above : l <= m) = k
    BY <2>1, <2>2
  <2> QED
    BY <1>2, <2>1, <2>3 DEF HeadingOf
<1> QED
  BY <1>1, <1>2 DEF Under

(* The heading of the section at hand is the heading of its open chunk.    *)
LEMMA OpenUnder ==
  ASSUME TypeInv, HeadingInv, OpenInv, start # 0
  PROVE  Under(text, start, heading)
<1>1. /\ Under(text, pos, heading) /\ start < pos /\ start \in Nat /\ pos \in Nat
      /\ \A k \in start..(pos - 1) : ~IsHeading(text, k)
  BY ChunkingAssumption DEF TypeInv, HeadingInv, OpenInv, SameSection
<1>2. CASE heading = NoHeading /\ \A k \in 1..(pos - 1) : ~IsHeading(text, k)
  BY <1>1, <1>2 DEF Under
<1>3. ASSUME NEW k \in 1..(pos - 1), IsHeading(text, k), text[k].name = heading,
             \A l \in (k + 1)..(pos - 1) : ~IsHeading(text, l)
      PROVE  Under(text, start, heading)
  <2>1. k \in 1..(start - 1)
    BY <1>1, <1>3
  <2>2. \A l \in (k + 1)..(start - 1) : ~IsHeading(text, l)
    BY <1>1, <1>3
  <2> QED
    BY <1>3, <2>1, <2>2 DEF Under
<1> QED
  BY <1>1, <1>2, <1>3 DEF Under

(* A sound chunk stays sound.                                              *)
LEMMA SoundLater ==
  ASSUME NEW t, NEW p \in Nat, NEW c \in ChunkSet, SoundChunk(t, p, c)
  PROVE  SoundChunk(t, p + 1, c)
<1>1. c.last \in Nat
  BY DEF ChunkSet
<1> QED
  BY <1>1 DEF SoundChunk

(* Closing the open chunk adds a sound one that follows the one before.    *)
LEMMA Closing ==
  ASSUME CutInv, start # 0, pos' = pos + 1, text' = text,
         chunks' = Append(chunks, Chunk(heading, start, pos - 1))
  PROVE  /\ chunks' \in Seq(ChunkSet) /\ Len(chunks') = Len(chunks) + 1
         /\ chunks' # <<>>
         /\ chunks'[Len(chunks')] = Chunk(heading, start, pos - 1)
         /\ ChunksInv' /\ PairsInv'
         /\ \A i \in DOMAIN text : i < pos /\ ~IsHeading(text, i) => Covered(i)'
<1> DEFINE c == Chunk(heading, start, pos - 1)
<1>1. /\ text \in Texts /\ pos \in Nat /\ start \in 1..Len(text) /\ heading \in Headings
      /\ start < pos /\ pos <= Len(text) + 1 /\ Len(text) \in Nat
      /\ chunks \in Seq(ChunkSet) /\ Len(chunks) \in Nat /\ DOMAIN chunks = 1..Len(chunks)
  BY ChunkingAssumption DEF CutInv, TypeInv, OpenInv
<1>2. Tokens(text, start, pos - 1) \in Int
  <2>1. \A i \in 1..Len(text) : text[i].upto \in Nat
    BY <1>1, ItemFacts
  <2>2. Before(text, start) \in Nat
    BY <1>1, <2>1 DEF Before
  <2> QED
    BY <1>1, <2>1, <2>2 DEF Tokens
<1>3. /\ c \in ChunkSet /\ c.first = start /\ c.last = pos - 1 /\ c.heading = heading
      /\ c.tokens = Tokens(text, start, pos - 1)
  BY <1>1, <1>2 DEF Chunk, ChunkSet
<1>4. /\ chunks' \in Seq(ChunkSet) /\ Len(chunks') = Len(chunks) + 1
      /\ chunks'[Len(chunks')] = c
      /\ \A n \in 1..Len(chunks) : chunks'[n] = chunks[n]
      /\ DOMAIN chunks' = 1..(Len(chunks) + 1)
  BY <1>1, <1>3
<1>5. SoundChunk(text, pos + 1, c)
  <2>1. Under(text, start, heading)
    BY OpenUnder DEF CutInv
  <2>2. SameSection(text, start, pos - 1) /\ total = c.tokens
        /\ (total > MaxTokens => pos <= start + 2)
    BY <1>3 DEF CutInv, OpenInv
  <2> QED
    BY <1>1, <1>3, <2>1, <2>2 DEF SoundChunk
<1>6. ChunksInv'
  <2> SUFFICES ASSUME NEW n \in 1..(Len(chunks) + 1)
               PROVE  SoundChunk(text, pos + 1, chunks'[n])
    BY <1>4 DEF ChunksInv
  <2>1. CASE n = Len(chunks) + 1
    BY <1>4, <1>5, <2>1
  <2>2. CASE n \in 1..Len(chunks)
    <3>1. SoundChunk(text, pos, chunks[n]) /\ chunks[n] \in ChunkSet
      BY <1>1, <2>2 DEF CutInv, ChunksInv
    <3> QED
      BY <1>1, <1>4, <2>2, <3>1, SoundLater
  <2> QED
    BY <1>1, <2>1, <2>2
<1>7. PairsInv'
  <2> SUFFICES ASSUME NEW n \in 1..Len(chunks)
               PROVE  Follows(text, chunks'[n], chunks'[n + 1].first, chunks'[n + 1].last)
    BY <1>1, <1>4 DEF PairsInv
  <2>1. CASE n = Len(chunks)
    <3>1. Follows(text, chunks[n], start, pos - 1)
      BY <1>1, <2>1 DEF CutInv, LinkInv
    <3> QED
      BY <1>1, <1>3, <1>4, <2>1, <3>1
  <2>2. CASE n \in 1..(Len(chunks) - 1)
    <3>1. Follows(text, chunks[n], chunks[n + 1].first, chunks[n + 1].last)
      BY <2>2 DEF CutInv, PairsInv
    <3> QED
      BY <1>1, <1>4, <2>2, <3>1
  <2>3. n = Len(chunks) \/ n \in 1..(Len(chunks) - 1)
    <3>1. \A l \in Nat : \A k \in 1..l : k = l \/ k \in 1..(l - 1)
      OBVIOUS
    <3>2. Len(chunks) \in Nat
      BY <1>1
    <3> QED
      BY <3>1, <3>2
  <2> QED
    BY <2>1, <2>2, <2>3
<1>8. ASSUME NEW i \in DOMAIN text, i < pos, ~IsHeading(text, i)
      PROVE  Covered(i)'
  <2>0. i \in 1..Len(text)
    BY <1>1, ChunkingAssumption
  <2>1. CASE Covered(i)
    BY <1>1, <1>4, <2>1 DEF Covered
  <2>2. CASE start <= i
    <3>1. i \in c.first..c.last
      BY <1>1, <1>3, <1>8, <2>0, <2>2
    <3> QED
      BY <1>1, <1>4, <3>1 DEF Covered
  <2> QED
    BY <1>8, <2>1, <2>2 DEF CutInv, CoverInv
<1>9. chunks' # <<>>
  BY <1>1, <1>4
<1> QED
  BY <1>4, <1>6, <1>7, <1>8, <1>9

-----------------------------------------------------------------------------
LEMMA CutStart == CutInit => CutInv
<1> SUFFICES ASSUME CutInit PROVE CutInv
  OBVIOUS
<1> USE DEF CutInit
<1>1. Len(text) \in Nat
  BY ChunkingAssumption
<1>2. TypeInv
  BY <1>1, ChunkingAssumption DEF TypeInv
<1>3. HeadingInv
  BY DEF HeadingInv, Under
<1>4. OpenInv /\ ChunksInv /\ PairsInv /\ LinkInv
  BY DEF OpenInv, ChunksInv, PairsInv, LinkInv
<1>5. CoverInv
  BY <1>1, ChunkingAssumption DEF CoverInv
<1> QED
  BY <1>2, <1>3, <1>4, <1>5 DEF CutInv

(* Reading a sentence leaves the section's heading as it is.               *)
LEMMA StaysUnder ==
  ASSUME TypeInv, HeadingInv, Reading("sentence"), ReadOn,
         UNCHANGED <<text, heading>>
  PROVE  HeadingInv'
<1>1. pos \in Nat /\ pos >= 1 /\ Len(text) \in Nat /\ pos <= Len(text) /\ ~IsHeading(text, pos)
  BY ChunkingAssumption DEF TypeInv, Reading, IsHeading
<1>2. Under(text, pos, heading)
  BY <1>1 DEF HeadingInv
<1>3. Under(text, pos + 1, heading)
  BY <1>1, <1>2 DEF Under
<1> QED
  BY <1>1, <1>3 DEF HeadingInv, ReadOn

LEMMA TakeSentenceKeeps == CutInv /\ TakeSentence => CutInv'
<1> SUFFICES ASSUME CutInv, TakeSentence PROVE CutInv'
  OBVIOUS
<1>1. /\ text' = text /\ heading' = heading /\ chunks' = chunks /\ pos' = pos + 1
      /\ start' = (IF start = 0 THEN pos ELSE start)
      /\ total' = total + Tokens(text, pos, pos)
      /\ start = 0 \/ total + Tokens(text, pos, pos) <= MaxTokens
      /\ ~IsHeading(text, pos)
      /\ text \in Texts /\ pos \in 1..Len(text) /\ start \in 0..Len(text)
      /\ total \in Int /\ Len(text) \in Nat /\ chunks \in Seq(ChunkSet)
      /\ Len(chunks) \in Nat /\ DOMAIN text = 1..Len(text) /\ MaxTokens \in Nat
  <2>1. Len(text) \in Nat /\ MaxTokens \in Nat /\ DOMAIN text = 1..Len(text)
    BY ChunkingAssumption DEF CutInv, TypeInv
  <2>2. pos \in 1..Len(text)
    BY <2>1 DEF CutInv, TypeInv, TakeSentence, Reading
  <2>3. Tokens(text, pos, pos) \in Int
    <3>1. \A i \in 1..Len(text) : text[i].upto \in Nat
      BY ItemFacts DEF CutInv, TypeInv
    <3> QED
      BY <2>1, <2>2, <3>1 DEF Tokens, Before
  <2> QED
    BY <2>1, <2>2, <2>3 DEF CutInv, TypeInv, TakeSentence, Reading, ReadOn, WouldExceed, IsHeading
<1>2. HeadingInv'
  BY StaysUnder DEF CutInv, TakeSentence
<1>3. OpenInv' /\ TypeInv'
  <2>1. CASE start = 0
    <3>1. total = 0 /\ start' = pos /\ total' = Tokens(text, pos, pos)
      <4>1. \A i \in 1..Len(text) : text[i].upto \in Nat
        BY <1>1, ItemFacts
      <4>2. Tokens(text, pos, pos) \in Int
        BY <1>1, <4>1 DEF Tokens, Before
      <4> QED
        BY <1>1, <2>1, <4>2 DEF CutInv, OpenInv
    <3>2. Tokens(text, pos, pos) \in Int
      <4>1. \A i \in 1..Len(text) : text[i].upto \in Nat
        BY <1>1, ItemFacts
      <4> QED
        BY <1>1, <4>1 DEF Tokens, Before
    <3>3. SameSection(text, pos, pos)
      BY <1>1 DEF SameSection
    <3>4. pos' - 1 = pos /\ start' # 0 /\ start' < pos' /\ pos' <= Len(text) + 1
      BY <1>1, <3>1
    <3>5. SameSection(text', start', pos' - 1) /\ total' = Tokens(text', start', pos' - 1)
      BY <1>1, <3>1, <3>3, <3>4 DEF SameSection
    <3>6. OpenInv'
      BY <1>1, <3>1, <3>4, <3>5 DEF OpenInv
    <3> QED
      BY <1>1, <3>1, <3>2, <3>6 DEF TypeInv, CutInv
  <2>2. CASE start # 0
    <3>1. /\ start < pos /\ SameSection(text, start, pos - 1)
          /\ total = Tokens(text, start, pos - 1)
      BY <2>2 DEF CutInv, OpenInv
    <3>2. total' = Tokens(text, start, pos) /\ total' \in Int /\ total' <= MaxTokens
      BY <1>1, <2>2, <3>1, TokensAdd
    <3>3. SameSection(text, start, pos)
      BY <1>1, <3>1 DEF SameSection
    <3>4. pos' - 1 = pos /\ start' = start
      BY <1>1, <2>2
    <3>5. SameSection(text', start', pos' - 1) /\ total' = Tokens(text', start', pos' - 1)
      BY <1>1, <3>2, <3>3, <3>4 DEF SameSection
    <3>6. OpenInv'
      BY <1>1, <2>2, <3>1, <3>2, <3>4, <3>5 DEF OpenInv
    <3> QED
      BY <1>1, <3>2, <3>4, <3>6 DEF TypeInv, CutInv
  <2> QED
    BY <2>1, <2>2
<1>4. ChunksInv'
  <2> SUFFICES ASSUME NEW n \in DOMAIN chunks PROVE SoundChunk(text, pos + 1, chunks[n])
    BY <1>1 DEF ChunksInv
  <2>1. SoundChunk(text, pos, chunks[n]) /\ chunks[n] \in ChunkSet
    BY <1>1 DEF CutInv, ChunksInv
  <2> QED
    BY <1>1, <2>1, SoundLater
<1>5. PairsInv'
  BY <1>1 DEF CutInv, PairsInv
<1>6. LinkInv'
  <2> SUFFICES ASSUME chunks # <<>> PROVE Follows(text, chunks[Len(chunks)], start', pos)
    BY <1>1 DEF LinkInv
  <2>1. chunks[Len(chunks)] \in ChunkSet
    BY <1>1
  <2>2. CASE start = 0
    <3>1. Cut(text, chunks[Len(chunks)].last, pos)
      BY <1>1, <2>2 DEF CutInv, LinkInv
    <3> QED
      BY <1>1, <2>2, <3>1 DEF Follows
  <2>3. CASE start # 0
    <3>1. Follows(text, chunks[Len(chunks)], start, pos - 1)
      BY <2>3 DEF CutInv, LinkInv
    <3> QED
      BY <1>1, <2>1, <2>3, <3>1 DEF Follows, ChunkSet
  <2> QED
    BY <2>2, <2>3
<1>7. CoverInv'
  <2> SUFFICES ASSUME NEW i \in 1..Len(text), i < pos + 1, ~IsHeading(text, i)
               PROVE  Covered(i) \/ start' <= i
    BY <1>1 DEF CoverInv, Covered
  <2>1. CASE i = pos
    <3>1. start = 0 \/ start < pos
      BY DEF CutInv, OpenInv
    <3> QED
      BY <1>1, <2>1, <3>1
  <2>2. CASE i < pos
    BY <1>1, <2>2 DEF CutInv, CoverInv
  <2> QED
    BY <1>1, <2>1, <2>2
<1> QED
  BY <1>2, <1>3, <1>4, <1>5, <1>6, <1>7 DEF CutInv

LEMMA CloseChunkKeeps == CutInv /\ CloseChunk => CutInv'
<1> SUFFICES ASSUME CutInv, CloseChunk PROVE CutInv'
  OBVIOUS
<1>1. /\ text' = text /\ heading' = heading /\ pos' = pos + 1 /\ start' = pos - 1
      /\ chunks' = Append(chunks, Chunk(heading, start, pos - 1))
      /\ total' = Tokens(text, pos - 1, pos)
      /\ start # 0 /\ total + Tokens(text, pos, pos) > MaxTokens
      /\ ~IsHeading(text, pos)
  BY DEF CloseChunk, Reading, ReadOn, WouldExceed, IsHeading
<1>2. /\ text \in Texts /\ Len(text) \in Nat /\ DOMAIN text = 1..Len(text)
      /\ pos \in 1..Len(text) /\ start \in 1..Len(text) /\ start < pos
      /\ heading \in Headings
      /\ SameSection(text, start, pos - 1) /\ total = Tokens(text, start, pos - 1)
  BY <1>1, ChunkingAssumption DEF CutInv, TypeInv, OpenInv, CloseChunk, Reading
<1>3. /\ chunks' \in Seq(ChunkSet) /\ chunks' # <<>>
      /\ chunks'[Len(chunks')] = Chunk(heading, start, pos - 1)
      /\ ChunksInv' /\ PairsInv'
      /\ \A i \in DOMAIN text : i < pos /\ ~IsHeading(text, i) => Covered(i)'
  BY <1>1, Closing
<1>4. HeadingInv'
  BY StaysUnder DEF CutInv, CloseChunk
<1>5. Tokens(text, start, pos) > MaxTokens /\ Tokens(text, pos - 1, pos) \in Int
  BY <1>1, <1>2, TokensAdd
<1>6. TypeInv'
  BY <1>1, <1>2, <1>3, <1>5 DEF TypeInv
<1>7. OpenInv'
  <2>1. start' # 0 /\ start' < pos' /\ pos' <= Len(text) + 1 /\ pos' <= start' + 2
        /\ pos' - 1 = pos
    BY <1>1, <1>2
  <2>2. SameSection(text, pos - 1, pos)
    BY <1>1, <1>2 DEF SameSection
  <2>3. SameSection(text', start', pos' - 1) /\ total' = Tokens(text', start', pos' - 1)
    BY <1>1, <2>1, <2>2 DEF SameSection
  <2> QED
    BY <1>1, <2>1, <2>3 DEF OpenInv
<1>8. LinkInv'
  <2>1. Follows(text, Chunk(heading, start, pos - 1), pos - 1, pos)
    BY <1>2, <1>5 DEF Follows, Chunk
  <2>2. pos' - 1 = pos /\ start' # 0
    BY <1>1, <1>2
  <2>3. Follows(text', chunks'[Len(chunks')], start', pos' - 1)
    BY <1>1, <1>3, <2>1, <2>2
  <2> QED
    BY <2>2, <2>3 DEF LinkInv
<1>9. CoverInv'
  <2> SUFFICES ASSUME NEW i \in DOMAIN text, i < pos + 1, ~IsHeading(text, i)
               PROVE  Covered(i)' \/ pos - 1 <= i
    BY <1>1, <1>2 DEF CoverInv
  <2>1. i \in Nat
    BY <1>2
  <2> QED
    BY <1>2, <1>3, <2>1
<1> QED
  BY <1>3, <1>4, <1>6, <1>7, <1>8, <1>9 DEF CutInv

(* Flushing, whether or not a chunk is open, covers all that was read.     *)
LEMMA Flushing ==
  ASSUME CutInv, pos <= Len(text) + 1, pos' = pos + 1, text' = text, chunks' = Flushed
  PROVE  /\ chunks' \in Seq(ChunkSet)
         /\ ChunksInv' /\ PairsInv'
         /\ chunks' # <<>> => \/ chunks'[Len(chunks')].last = pos - 1
                              \/ Cut(text, chunks'[Len(chunks')].last, pos)
         /\ \A i \in DOMAIN text : i < pos /\ ~IsHeading(text, i) => Covered(i)'
<1>1. CASE start # 0
  <2>1. chunks' = Append(chunks, Chunk(heading, start, pos - 1))
    BY <1>1 DEF Flushed
  <2>2. /\ chunks' \in Seq(ChunkSet) /\ ChunksInv' /\ PairsInv'
        /\ chunks'[Len(chunks')] = Chunk(heading, start, pos - 1)
        /\ \A i \in DOMAIN text : i < pos /\ ~IsHeading(text, i) => Covered(i)'
    BY <1>1, <2>1, Closing
  <2> QED
    BY <2>2 DEF Chunk
<1>2. CASE start = 0
  <2>1. chunks' = chunks
    BY <1>2 DEF Flushed
  <2>2. chunks \in Seq(ChunkSet) /\ pos \in Nat /\ Len(text) \in Nat
    BY ChunkingAssumption DEF CutInv, TypeInv
  <2>3. ChunksInv'
    <3> SUFFICES ASSUME NEW n \in DOMAIN chunks PROVE SoundChunk(text, pos + 1, chunks[n])
      BY <2>1 DEF ChunksInv
    <3>1. SoundChunk(text, pos, chunks[n]) /\ chunks[n] \in ChunkSet
      BY <2>2 DEF CutInv, ChunksInv
    <3> QED
      BY <2>2, <3>1, SoundLater
  <2>4. PairsInv'
    BY <2>1 DEF CutInv, PairsInv
  <2>5. chunks # <<>> => Cut(text, chunks[Len(chunks)].last, pos)
    BY <1>2 DEF CutInv, LinkInv
  <2>6. ASSUME NEW i \in DOMAIN text, i < pos, ~IsHeading(text, i) PROVE Covered(i)'
    <3>1. Covered(i)
      BY <1>2, <2>6 DEF CutInv, CoverInv
    <3> QED
      BY <2>1, <3>1 DEF Covered
  <2> QED
    BY <2>1, <2>2, <2>3, <2>4, <2>5, <2>6
<1> QED
  BY <1>1, <1>2

LEMMA ReadHeadingKeeps == CutInv /\ ReadHeading => CutInv'
<1> SUFFICES ASSUME CutInv, ReadHeading PROVE CutInv'
  OBVIOUS
<1>1. /\ text' = text /\ heading' = text[pos].name /\ pos' = pos + 1 /\ start' = 0
      /\ chunks' = Flushed /\ total' = 0 /\ IsHeading(text, pos) /\ pos <= Len(text)
  BY DEF ReadHeading, Reading, ReadOn, IsHeading
<1>2. /\ text \in Texts /\ Len(text) \in Nat /\ DOMAIN text = 1..Len(text)
      /\ pos \in 1..Len(text)
  BY <1>1, ChunkingAssumption DEF CutInv, TypeInv
<1>3. text[pos].name \in Headings
  BY <1>1, <1>2, ItemFacts
<1>4. /\ chunks' \in Seq(ChunkSet) /\ ChunksInv' /\ PairsInv'
      /\ chunks' # <<>> => \/ chunks'[Len(chunks')].last = pos - 1
                           \/ Cut(text, chunks'[Len(chunks')].last, pos)
      /\ \A i \in DOMAIN text : i < pos /\ ~IsHeading(text, i) => Covered(i)'
  BY <1>1, <1>2, Flushing
<1>5. TypeInv' /\ OpenInv'
  BY <1>1, <1>2, <1>3, <1>4 DEF TypeInv, OpenInv
<1>6. Under(text, pos + 1, text[pos].name)
  BY <1>1, <1>2 DEF Under
<1>7. HeadingInv'
  BY <1>1, <1>6 DEF HeadingInv
<1>8. LinkInv'
  <2> SUFFICES ASSUME chunks' # <<>> PROVE Cut(text, chunks'[Len(chunks')].last, pos + 1)
    BY <1>1 DEF LinkInv
  <2> DEFINE c == chunks'[Len(chunks')]
  <2>1. c \in ChunkSet
    BY <1>4
  <2>2. c.last \in Nat
    BY <2>1 DEF ChunkSet
  <2>3. CASE c.last = pos - 1
    BY <1>1, <1>2, <2>3 DEF Cut
  <2>4. CASE Cut(text, c.last, pos)
    BY <1>2, <2>2, <2>4 DEF Cut
  <2> QED
    BY <1>4, <2>3, <2>4
<1>9. CoverInv'
  <2> SUFFICES ASSUME NEW i \in 1..Len(text), i < pos + 1, ~IsHeading(text, i)
               PROVE  Covered(i)'
    BY <1>1, <1>2 DEF CoverInv
  <2>1. i < pos
    BY <1>1, <1>2
  <2> QED
    BY <1>2, <1>4, <2>1
<1> QED
  BY <1>4, <1>5, <1>7, <1>8, <1>9 DEF CutInv

LEMMA EndOfTextKeeps == CutInv /\ EndOfText => CutInv'
<1> SUFFICES ASSUME CutInv, EndOfText PROVE CutInv'
  OBVIOUS
<1>1. /\ text' = text /\ heading' = heading /\ pos = Len(text) + 1 /\ pos' = pos + 1
      /\ start' = 0 /\ chunks' = Flushed /\ total' = 0
  BY DEF EndOfText, ReadOn
<1>2. /\ text \in Texts /\ Len(text) \in Nat /\ DOMAIN text = 1..Len(text)
      /\ heading \in Headings
  BY ChunkingAssumption DEF CutInv, TypeInv
<1>3. /\ chunks' \in Seq(ChunkSet) /\ ChunksInv' /\ PairsInv'
      /\ \A i \in DOMAIN text : i < pos /\ ~IsHeading(text, i) => Covered(i)'
  BY <1>1, <1>2, Flushing
<1>4. TypeInv' /\ OpenInv' /\ HeadingInv' /\ LinkInv'
  BY <1>1, <1>2, <1>3 DEF TypeInv, OpenInv, HeadingInv, LinkInv
<1>5. CoverInv'
  <2> SUFFICES ASSUME NEW i \in 1..Len(text), ~IsHeading(text, i) PROVE Covered(i)'
    BY <1>1, <1>2 DEF CoverInv
  <2> QED
    BY <1>1, <1>2, <1>3
<1> QED
  BY <1>3, <1>4, <1>5 DEF CutInv

LEMMA CutStep == CutInv /\ [CutNext]_cutVars => CutInv'
<1> SUFFICES ASSUME CutInv, [CutNext]_cutVars PROVE CutInv'
  OBVIOUS
<1>1. CASE TakeSentence
  BY <1>1, TakeSentenceKeeps
<1>2. CASE CloseChunk
  BY <1>2, CloseChunkKeeps
<1>3. CASE ReadHeading
  BY <1>3, ReadHeadingKeeps
<1>4. CASE EndOfText
  BY <1>4, EndOfTextKeeps
<1>5. CASE UNCHANGED cutVars
  BY <1>5 DEF cutVars, CutInv, TypeInv, HeadingInv, OpenInv, ChunksInv, PairsInv, LinkInv,
              CoverInv, Covered
<1> QED
  BY <1>1, <1>2, <1>3, <1>4, <1>5 DEF CutNext

LEMMA CutAlways == CutSpec => []CutInv
<1>1. CutInit => CutInv
  BY CutStart
<1>2. CutInv /\ [CutNext]_cutVars => CutInv'
  BY CutStep
<1> QED
  BY <1>1, <1>2, PTL DEF CutSpec

-----------------------------------------------------------------------------
(* What Follows means for two finished chunks.                             *)
LEMMA FollowsMeans ==
  ASSUME CutInv, NEW n \in 1..(Len(chunks) - 1)
  PROVE  IF SameSection(text, chunks[n].first, chunks[n + 1].last)
         THEN /\ chunks[n + 1].first = chunks[n].last
              /\ chunks[n + 1].last > chunks[n].last
              /\ Tokens(text, chunks[n].first, chunks[n].last + 1) > MaxTokens
         ELSE chunks[n + 1].first > chunks[n].last
<1> DEFINE c == chunks[n]
           d == chunks[n + 1]
<1>1. /\ n \in DOMAIN chunks /\ n + 1 \in DOMAIN chunks /\ c \in ChunkSet /\ d \in ChunkSet
  BY DEF CutInv, TypeInv
<1>2. /\ c.first \in Nat /\ c.last \in Nat /\ d.first \in Nat /\ d.last \in Nat
  BY <1>1 DEF ChunkSet
<1>3. /\ c.first <= c.last /\ d.first <= d.last
      /\ SameSection(text, c.first, c.last) /\ SameSection(text, d.first, d.last)
  BY <1>1 DEF CutInv, ChunksInv, SoundChunk
<1>4. Follows(text, c, d.first, d.last)
  BY DEF CutInv, PairsInv
<1>5. CASE Cut(text, c.last, d.first)
  BY <1>2, <1>3, <1>5 DEF Cut, SameSection
<1>6. CASE /\ d.first = c.last /\ d.last > c.last
           /\ Tokens(text, c.first, c.last + 1) > MaxTokens
  BY <1>2, <1>3, <1>6 DEF SameSection
<1> QED
  BY <1>4, <1>5, <1>6 DEF Follows

(* Every sentence of every text ends up in a chunk of its own section with *)
(* the heading it stands under, in order, each chunk of a section starting *)
(* with the last sentence of the one before.                               *)
THEOREM ChunksCoverAlways == CutSpec => []ChunksCover
<1>1. CutInv => ChunksCover
  <2> SUFFICES ASSUME CutInv PROVE ChunksCover
    OBVIOUS
  <2>1. /\ Len(text) \in Nat /\ DOMAIN text = 1..Len(text) /\ pos \in Nat
        /\ DOMAIN chunks = 1..Len(chunks) /\ chunks \in Seq(ChunkSet)
    BY ChunkingAssumption DEF CutInv, TypeInv
  <2>2. ASSUME Done, NEW i \in DOMAIN text, ~IsHeading(text, i)
        PROVE  \E n \in DOMAIN chunks : i \in chunks[n].first..chunks[n].last
    <3>1. start = 0 /\ i < pos
      BY <2>1, <2>2 DEF Done, CutInv, OpenInv, TypeInv
    <3> QED
      BY <2>2, <3>1 DEF CutInv, CoverInv, Covered
  <2>3. ASSUME NEW n \in DOMAIN chunks
        PROVE  /\ SameSection(text, chunks[n].first, chunks[n].last)
               /\ chunks[n].heading = HeadingOf(text, chunks[n].first)
    <3>1. SoundChunk(text, pos, chunks[n]) /\ chunks[n] \in ChunkSet
      BY <2>1, <2>3 DEF CutInv, ChunksInv
    <3>2. chunks[n].first \in Nat
      BY <3>1 DEF ChunkSet
    <3> QED
      BY <3>1, <3>2, UnderIsHeadingOf DEF SoundChunk
  <2>4. ASSUME NEW n \in 1..(Len(chunks) - 1)
        PROVE  IF SameSection(text, chunks[n].first, chunks[n + 1].last)
               THEN /\ chunks[n + 1].first = chunks[n].last
                    /\ chunks[n + 1].last > chunks[n].last
               ELSE chunks[n + 1].first > chunks[n].last
    BY FollowsMeans
  <2> QED
    BY <2>2, <2>3, <2>4 DEF ChunksCover
<1> QED
  BY <1>1, CutAlways, PTL

(* The cap, for every text: a chunk above it is one sentence or an overlap *)
(* pair, and no chunk ends before it has to.                               *)
THEOREM ChunkSizesAlways == CutSpec => []ChunkSizes
<1>1. CutInv => ChunkSizes
  <2> SUFFICES ASSUME CutInv PROVE ChunkSizes
    OBVIOUS
  <2>1. \A n \in DOMAIN chunks :
          chunks[n].tokens > MaxTokens => chunks[n].last <= chunks[n].first + 1
    BY DEF CutInv, ChunksInv, SoundChunk
  <2>2. ASSUME NEW n \in 1..(Len(chunks) - 1),
               SameSection(text, chunks[n].first, chunks[n + 1].last)
        PROVE  Tokens(text, chunks[n].first, chunks[n].last + 1) > MaxTokens
    BY <2>2, FollowsMeans
  <2> QED
    BY <2>1, <2>2 DEF ChunkSizes
<1> QED
  BY <1>1, CutAlways, PTL

(***************************************************************************)
(* Part 2.  Searches and the sessions that make them, for any documents,   *)
(* releases, scores, questions, users and sessions.  What a search shows   *)
(* is proved for every content of the database (AllCurrent, AllBlind,      *)
(* AllAgreeing); the machine then only has to stay within those contents   *)
(* (AccessInv).                                                            *)
(***************************************************************************)

-----------------------------------------------------------------------------
(* Databases and the rows in them.                                         *)

LEMMA EditionFacts ==
  ASSUME NEW d, NEW e \in Editions(d)
  PROVE  /\ IsDocument(e) /\ DOMAIN e = DocumentFields /\ e # Absent
         /\ e.project \in Projects
         /\ \A rule \in Rules : rule.doc = d => rule.project = e.project
<1>1. PICK p \in Projects : \E r \in Releases[p] : d \in DOMAIN r /\ e = r[d]
  BY DEF Editions
<1>2. /\ IsDocument(e) /\ e.project = p
      /\ \A rule \in Rules : rule.doc = d => rule.project = p
  BY <1>1, AccessAssumption
<1>3. DOMAIN e = DocumentFields
  BY <1>2 DEF IsDocument
<1>4. e # Absent
  BY <1>3 DEF Absent, DocumentFields
<1> QED BY <1>2, <1>3, <1>4

LEMMA DatabaseFacts ==
  ASSUME NEW db
  PROVE  db \in Databases <=> /\ db = [d \in DocIds |-> db[d]]
                              /\ \A d \in DocIds : db[d] = Absent \/ db[d] \in Mixes[d]
<1> DEFINE Sorts == {Absent} \cup UNION {Mixes[d] : d \in DocIds}
           Fits(g) == \A d \in DocIds : g[d] = Absent \/ g[d] \in Mixes[d]
<1>1. db \in Databases <=> \E g \in [DocIds -> Sorts] : Fits(g) /\ db = [d \in DocIds |-> g[d]]
  BY DEF Databases
<1>2. ASSUME NEW g \in [DocIds -> Sorts], Fits(g), db = [d \in DocIds |-> g[d]]
      PROVE  db = [d \in DocIds |-> db[d]] /\ Fits(db)
  BY <1>2
<1>3. ASSUME db = [d \in DocIds |-> db[d]], Fits(db)
      PROVE  db \in [DocIds -> Sorts]
  BY <1>3
<1> QED BY <1>1, <1>2, <1>3

LEMMA MixFacts ==
  ASSUME NEW d \in DocIds, NEW row
  PROVE  row \in Mixes[d] <=>
           \E g \in [DocumentFields -> Editions(d)] :
             /\ \A column \in Columns : \A f, h \in column : g[f] = g[h]
             /\ row = [f \in DocumentFields |-> g[f][f]]
BY DEF Mixes

LEMMA StoredFacts ==
  ASSUME NEW db \in Databases, NEW d \in Stored(db)
  PROVE  /\ DOMAIN db = DocIds /\ d \in DocIds
         /\ db[d].date \in Nat
         /\ db[d].chunks \in Seq([heading : STRING, text : STRING])
         /\ db[d].project \in Projects
         /\ \A rule \in Rules : rule.doc = d => rule.project = db[d].project
<1>1. DOMAIN db = DocIds
  BY DatabaseFacts
<1>2. d \in DocIds /\ db[d] \in Mixes[d]
  BY <1>1, DatabaseFacts DEF Stored
<1> DEFINE row == db[d]
<1> HIDE DEF row
<1>3. PICK g \in [DocumentFields -> Editions(d)] :
        /\ \A column \in Columns : \A f, h \in column : g[f] = g[h]
        /\ row = [f \in DocumentFields |-> g[f][f]]
  <2>1. d \in DocIds /\ row \in Mixes[d]
    BY <1>2 DEF row
  <2> QED BY <2>1, MixFacts
<1>4. /\ db[d].date = g["date"].date /\ g["date"] \in Editions(d)
      /\ db[d].chunks = g["chunks"].chunks /\ g["chunks"] \in Editions(d)
      /\ db[d].project = g["project"].project /\ g["project"] \in Editions(d)
  BY <1>3 DEF DocumentFields, row
<1> QED BY <1>1, <1>2, <1>4, EditionFacts DEF IsDocument

LEMMA HitFacts ==
  ASSUME NEW db, NEW h
  PROVE  h \in Hits(db) <=> \E d \in Stored(db) : \E i \in DOMAIN db[d].chunks : h = Hit(db, d, i)
BY DEF Hits

LEMMA HitParts ==
  ASSUME NEW db, NEW h \in Hits(db)
  PROVE  /\ h.doc \in Stored(db) /\ h.row = db[h.doc]
         /\ h.n \in DOMAIN h.row.chunks /\ h.chunk = h.row.chunks[h.n]
         /\ h = Hit(db, h.doc, h.n)
<1>1. PICK d \in Stored(db) : \E i \in DOMAIN db[d].chunks : h = Hit(db, d, i)
  BY HitFacts
<1>2. PICK i \in DOMAIN db[d].chunks : h = Hit(db, d, i)
  BY <1>1
<1> QED BY <1>1, <1>2 DEF Hit

LEMMA ImageFinite ==
  ASSUME NEW S, NEW T, NEW f, IsFiniteSet(S), T = {f[x] : x \in S}
  PROVE  IsFiniteSet(T)
<1> DEFINE g == [x \in S |-> f[x]]
<1>1. g \in Surjection(S, T)
  BY DEF Surjection
<1> QED BY <1>1, FS_Surjection

LEMMA HitsFinite ==
  ASSUME NEW db \in Databases
  PROVE  IsFiniteSet(Hits(db))
<1> DEFINE Of(d) == {Hit(db, d, i) : i \in DOMAIN db[d].chunks}
<1>1. ASSUME NEW d \in Stored(db) PROVE IsFiniteSet(Of(d))
  <2>1. db[d].chunks \in Seq([heading : STRING, text : STRING])
    BY StoredFacts
  <2>2. DOMAIN db[d].chunks = 1..Len(db[d].chunks) /\ Len(db[d].chunks) \in Nat
    BY <2>1
  <2>3. IsFiniteSet(DOMAIN db[d].chunks)
    BY <2>2, FS_Interval
  <2> DEFINE f == [i \in DOMAIN db[d].chunks |-> Hit(db, d, i)]
  <2>4. Of(d) = {f[i] : i \in DOMAIN db[d].chunks}
    OBVIOUS
  <2> HIDE DEF f, Of
  <2> QED BY <2>3, <2>4, ImageFinite
<1>2. IsFiniteSet(Stored(db))
  <2>1. Stored(db) \in SUBSET DocIds
    BY DatabaseFacts DEF Stored
  <2> QED BY <2>1, AccessAssumption, FS_Subset
<1> DEFINE Parts == {Of(d) : d \in Stored(db)}
<1> HIDE DEF Of
<1>3. IsFiniteSet(Parts)
  <2> DEFINE f == [d \in Stored(db) |-> Of(d)]
  <2>1. Parts = {f[d] : d \in Stored(db)}
    OBVIOUS
  <2> HIDE DEF f, Parts
  <2> QED BY <1>2, <2>1, ImageFinite
<1>4. \A T \in Parts : IsFiniteSet(T)
  BY <1>1
<1> HIDE DEF Parts
<1>5. IsFiniteSet(UNION Parts)
  BY <1>3, <1>4, FS_UNION
<1> QED BY <1>5 DEF Parts, Of, Hits

LEMMA SeqOfFinite ==
  ASSUME NEW S, IsFiniteSet(S)
  PROVE  /\ SetToSeq(S) \in Seq(S)
         /\ Len(SetToSeq(S)) = Cardinality(S)
<1> DEFINE n == Cardinality(S)
<1>1. n \in Nat /\ ExistsBijection(1..n, S)
  BY FS_CardinalityType
<1>2. \E f \in [1..n -> S] : IsInjective(f)
  BY <1>1 DEF ExistsBijection, Bijection, Injection, IsInjective
<1>3. SetToSeq(S) \in [1..n -> S]
  BY <1>2 DEF SetToSeq
<1> HIDE DEF n
<1>4. SetToSeq(S) \in Seq(S) /\ Len(SetToSeq(S)) = n
  BY <1>1, <1>3
<1> QED BY <1>4 DEF n

LEMMA SeqOfParts ==
  ASSUME NEW S, IsFiniteSet(S), NEW i \in DOMAIN SetToSeq(S)
  PROVE  SetToSeq(S)[i] \in S
BY SeqOfFinite

LEMMA LeastPosition ==
  ASSUME NEW T \in SUBSET Nat, T # {}
  PROVE  \E i \in T : \A j \in T : i <= j
<1> DEFINE below == OpToRel(<, Nat)
<1>1. PICK i \in T : \A j \in T : <<j, i>> \notin below
  <2> HIDE DEF below
  <2>1. IsWellFoundedOn(below, Nat)
    BY NatLessThanWellFounded, Zenon DEF below
  <2> QED BY <2>1, WFMin, Zenon
<1>2. \A j \in T : ~(j < i)
  BY <1>1, Zenon DEF OpToRel
<1> QED BY <1>2

-----------------------------------------------------------------------------
(* A search.                                                               *)

LEMMA OrderedFacts ==
  ASSUME NEW q, NEW mode, NEW S, IsFiniteSet(S), NEW s \in Orders(q, mode, S)
  PROVE  /\ s \in Seq(S)
         /\ \A h \in S : \E k \in DOMAIN s : s[k] = h
         /\ \A i, j \in DOMAIN s : i < j => ~Precedes(q, mode, s[j], s[i])
<1> DEFINE n == Cardinality(S)
<1>1. n \in Nat
  BY FS_CardinalityType
<1>2. /\ s \in [1..n -> S]
      /\ \A i, j \in 1..n : i # j => s[i] # s[j]
      /\ \A i, j \in DOMAIN s : i < j => ~Precedes(q, mode, s[j], s[i])
  BY DEF Orders, SetToSeqs
<1>3. Cardinality(1..n) = n
  BY <1>1, FS_Interval
<1> HIDE DEF n
<1>4. s \in Injection(1..n, S)
  BY <1>2 DEF Injection, IsInjective
<1>5. s \in Surjection(1..n, S)
  BY <1>3, <1>4, FS_Injection DEF n
<1> QED BY <1>1, <1>2, <1>5 DEF Surjection

LEMMA UpToFacts ==
  ASSUME NEW S, NEW s \in Seq(S), NEW n \in Nat
  PROVE  /\ UpTo(s, n) \in Seq(S)
         /\ Len(UpTo(s, n)) <= n
         /\ \A i \in DOMAIN UpTo(s, n) : i \in DOMAIN s /\ UpTo(s, n)[i] = s[i]
         /\ \A k \in DOMAIN s : k \notin DOMAIN UpTo(s, n) =>
              /\ \A i \in DOMAIN UpTo(s, n) : i < k
              /\ Len(UpTo(s, n)) = n
<1> DEFINE m == IF Len(s) < n THEN Len(s) ELSE n
<1>1. m \in 0..Len(s) /\ m <= n /\ (m = n \/ m = Len(s))
  OBVIOUS
<1>2. UpTo(s, n) = SubSeq(s, 1, m)
  BY DEF UpTo
<1> HIDE DEF m
<1>3. /\ SubSeq(s, 1, m) \in Seq(S) /\ Len(SubSeq(s, 1, m)) = m
      /\ DOMAIN SubSeq(s, 1, m) = 1..m
      /\ \A i \in 1..m : SubSeq(s, 1, m)[i] = s[i]
  BY <1>1
<1>4. DOMAIN s = 1..Len(s)
  OBVIOUS
<1>5. Len(s) \in Nat /\ m \in Nat
  BY <1>1
<1>6. ASSUME NEW k \in 1..Len(s), k \notin 1..m PROVE m = n /\ \A i \in 1..m : i < k
  BY <1>1, <1>5, <1>6
<1>7. \A k \in DOMAIN s : k \notin DOMAIN UpTo(s, n) =>
        (\A i \in DOMAIN UpTo(s, n) : i < k) /\ Len(UpTo(s, n)) = n
  BY <1>2, <1>3, <1>4, <1>6
<1>8. UpTo(s, n) \in Seq(S) /\ Len(UpTo(s, n)) <= n
  BY <1>1, <1>2, <1>3
<1>9. \A i \in 1..m : i \in 1..Len(s)
  BY <1>1, <1>5
<1>10. \A i \in DOMAIN UpTo(s, n) : i \in DOMAIN s /\ UpTo(s, n)[i] = s[i]
  BY <1>2, <1>3, <1>4, <1>9
<1> QED BY <1>7, <1>8, <1>10

LEMMA MatchFacts ==
  ASSUME NEW db, NEW q, NEW mode, NEW h
  PROVE  h \in Matches(db, q, mode) <=>
           /\ h \in Hits(db) /\ MayRead(q.project, q.groups, h.row)
           /\ Wanted(q, h.row) /\ Rank(q, mode, h) > 0
BY DEF Matches

(* What a stage fetches are the best of the matching rows.                 *)
LEMMA FetchedFacts ==
  ASSUME NEW db \in Databases, NEW q, q.limit \in Nat, NEW mode, NEW rows \in Fetched(db, q, mode)
  PROVE  /\ rows \in Seq(Matches(db, q, mode))
         /\ \A h \in Matches(db, q, mode) :
              \/ \E k \in DOMAIN rows : rows[k] = h
              \/ /\ Len(rows) = 3 * q.limit
                 /\ \A j \in DOMAIN rows : ~Precedes(q, mode, h, rows[j])
<1> DEFINE M == Matches(db, q, mode)
<1>1. IsFiniteSet(M)
  <2>1. M \in SUBSET Hits(db)
    BY DEF Matches
  <2> QED BY <2>1, HitsFinite, FS_Subset
<1>2. PICK s \in Orders(q, mode, M) : rows = UpTo(s, 3 * q.limit)
  BY DEF Fetched
<1> HIDE DEF M
<1>3. /\ s \in Seq(M)
      /\ \A h \in M : \E k \in DOMAIN s : s[k] = h
      /\ \A i, j \in DOMAIN s : i < j => ~Precedes(q, mode, s[j], s[i])
  BY <1>1, OrderedFacts
<1>4. /\ rows \in Seq(M)
      /\ \A i \in DOMAIN rows : i \in DOMAIN s /\ rows[i] = s[i]
      /\ \A k \in DOMAIN s : k \notin DOMAIN rows =>
           Len(rows) = 3 * q.limit /\ \A i \in DOMAIN rows : i < k
  <2> DEFINE n == 3 * q.limit
  <2>1. n \in Nat /\ s \in Seq(M)
    BY <1>3
  <2> HIDE DEF n
  <2>2. rows = UpTo(s, n)
    BY <1>2 DEF n
  <2>3. /\ rows \in Seq(M)
        /\ \A i \in DOMAIN rows : i \in DOMAIN s /\ rows[i] = s[i]
        /\ \A k \in DOMAIN s : k \notin DOMAIN rows =>
             Len(rows) = n /\ \A i \in DOMAIN rows : i < k
    BY <2>1, <2>2, UpToFacts
  <2> QED BY <2>3 DEF n
<1>5. ASSUME NEW h \in M
      PROVE  \/ \E k \in DOMAIN rows : rows[k] = h
             \/ /\ Len(rows) = 3 * q.limit
                /\ \A j \in DOMAIN rows : ~Precedes(q, mode, h, rows[j])
  <2>1. PICK k \in DOMAIN s : s[k] = h
    BY <1>3
  <2>2. CASE k \in DOMAIN rows
    BY <1>4, <2>1, <2>2
  <2>3. CASE k \notin DOMAIN rows
    BY <1>3, <1>4, <2>1, <2>3
  <2> QED BY <2>2, <2>3
<1> QED BY <1>4, <1>5 DEF M

(* Of the positions that show a text, the newest exists.                   *)
LEMMA NewestFacts ==
  ASSUME NEW rows, NEW n \in Nat, DOMAIN rows = 1..n,
         \A k \in 1..n : rows[k].row.date \in Nat, NEW i \in 1..n
  PROVE  /\ NewestOfText(rows, i) \in SameText(rows, i)
         /\ \A k \in SameText(rows, i) :
              rows[k].row.date <= rows[NewestOfText(rows, i)].row.date
<1> DEFINE T == SameText(rows, i)
           date(k) == rows[k].row.date
           Best(j, m) == \A k \in T : k <= m =>
                           date(k) < date(j) \/ (date(k) = date(j) /\ j <= k)
           bad == {m \in 0..n : /\ \E k \in T : k <= m
                                /\ \A j \in T : j <= m => ~Best(j, m)}
<1>1. T \in SUBSET (1..n) /\ i \in T /\ \A k \in T : k \in Nat /\ date(k) \in Nat
  BY DEF SameText
<1>2. bad = {}
  <2> SUFFICES ASSUME bad # {} PROVE FALSE
    OBVIOUS
  <2> HIDE DEF T, date
  <2>1. bad \in SUBSET Nat
    OBVIOUS
  <2>2. PICK m \in bad : \A l \in bad : m <= l
    <3> HIDE DEF bad
    <3> QED BY <2>1, LeastPosition
  <2>3. /\ m \in 0..n /\ \A j \in T : j <= m => ~Best(j, m)
        /\ \E k \in T : k <= m
    BY <2>2
  <2>4. m \in Nat /\ m # 0 /\ m - 1 \in 0..n /\ m - 1 \notin bad
    <3>1. m # 0
      BY <1>1, <2>3
    <3>2. m - 1 \in 0..n
      BY <2>3, <3>1
    <3>3. m - 1 \notin bad
      <4> HIDE DEF bad
      <4> QED BY <2>1, <2>2, <2>3, <3>2
    <3> QED BY <2>3, <3>1, <3>2, <3>3
  <2> HIDE DEF bad
  <2>0. \A k \in T : k <= m => k = m \/ k <= m - 1
    BY <1>1, <2>4
  <2>5. CASE \E k \in T : k <= m - 1
    <3>1. PICK j \in T : j <= m - 1 /\ Best(j, m - 1)
      BY <2>4, <2>5 DEF bad
    <3>2. CASE m \notin T \/ date(m) <= date(j)
      <4>1. Best(j, m)
        <5> SUFFICES ASSUME NEW k \in T, k <= m
                     PROVE  date(k) < date(j) \/ (date(k) = date(j) /\ j <= k)
          OBVIOUS
        <5>1. CASE k <= m - 1
          BY <3>1, <5>1
        <5>2. CASE k = m
          BY <1>1, <2>4, <3>1, <3>2, <5>2
        <5> QED BY <2>0, <5>1, <5>2
      <4>2. j <= m
        BY <1>1, <2>4, <3>1
      <4> QED BY <2>3, <3>1, <4>1, <4>2
    <3>3. CASE m \in T /\ ~(date(m) <= date(j))
      <4>1. Best(m, m)
        <5> SUFFICES ASSUME NEW k \in T, k <= m
                     PROVE  date(k) < date(m) \/ (date(k) = date(m) /\ m <= k)
          OBVIOUS
        <5>1. CASE k <= m - 1
          <6>1. date(k) < date(j) \/ date(k) = date(j)
            BY <3>1, <5>1
          <6> QED BY <1>1, <3>3, <6>1
        <5>2. CASE k = m
          BY <2>4, <5>2
        <5> QED BY <2>0, <5>1, <5>2
      <4> QED BY <2>3, <2>4, <3>3, <4>1
    <3> QED BY <3>2, <3>3
  <2>6. CASE ~\E k \in T : k <= m - 1
    <3>1. m \in T /\ \A k \in T : k <= m => k = m
      BY <2>0, <2>3, <2>6
    <3>2. Best(m, m)
      BY <1>1, <2>4, <3>1
    <3> QED BY <2>3, <2>4, <3>1, <3>2
  <2> QED BY <2>5, <2>6
<1>3. PICK j \in T : Best(j, n)
  <2>1. n \notin bad /\ n \in 0..n
    BY <1>2
  <2>2. \E k \in T : k <= n
    BY <1>1
  <2>3. ~\A k \in T : k <= n => ~Best(k, n)
    <3> HIDE DEF T, Best
    <3> QED BY <2>1, <2>2
  <2> HIDE DEF T, Best
  <2> QED BY <2>3
<1>4. \E j0 \in SameText(rows, i) : \A k \in SameText(rows, i) :
        \/ rows[k].row.date < rows[j0].row.date
        \/ rows[k].row.date = rows[j0].row.date /\ j0 <= k
  <2>1. \A k \in T : k <= n
    BY <1>1
  <2> QED BY <1>3, <2>1
<1>5. /\ NewestOfText(rows, i) \in SameText(rows, i)
      /\ \A k \in SameText(rows, i) :
           \/ rows[k].row.date < rows[NewestOfText(rows, i)].row.date
           \/ rows[k].row.date = rows[NewestOfText(rows, i)].row.date
  BY <1>4 DEF NewestOfText
<1> QED BY <1>1, <1>5

LEMMA PositionsFinite ==
  ASSUME NEW n \in Nat, NEW T \in SUBSET (1..n)
  PROVE  IsFiniteSet(T) /\ Cardinality(T) \in Nat
<1>1. IsFiniteSet(1..n)
  BY FS_Interval
<1>2. IsFiniteSet(T)
  BY <1>1, FS_Subset
<1> QED BY <1>2, FS_CardinalityType

(* A finite set of positions has a p-th element for every p up to its size.*)
LEMMA NthPosition ==
  ASSUME NEW n \in Nat, NEW T \in SUBSET (1..n), NEW p \in 1..Cardinality(T)
  PROVE  \E i \in T : Cardinality({j \in T : j < i}) = p - 1
<1> DEFINE Low(m) == {j \in T : j <= m}
           good == {m \in 0..n : Cardinality(Low(m)) >= p}
<1>1. IsFiniteSet(T) /\ Cardinality(T) \in Nat
      /\ \A j \in T : j \in Nat /\ 1 <= j /\ j <= n
  BY PositionsFinite, \A j \in T : j \in 1..n
<1>2. \A m : IsFiniteSet(Low(m)) /\ Cardinality(Low(m)) \in Nat
  <2> TAKE m
  <2>1. Low(m) \in SUBSET T
    OBVIOUS
  <2> HIDE DEF Low
  <2> QED BY <1>1, <2>1, FS_Subset, FS_CardinalityType
<1>3. n \in good
  <2>1. Low(n) = T
    BY <1>1
  <2> QED BY <1>1, <2>1
<1>4. PICK m \in good : \A l \in good : m <= l
  <2>1. good \in SUBSET Nat
    OBVIOUS
  <2> HIDE DEF good
  <2> QED BY <1>3, <2>1, LeastPosition
<1>5. m # 0
  <2>1. \A j \in T : ~(j <= 0)
    BY <1>1
  <2>3. Low(0) = {}
    BY <2>1
  <2>2. Cardinality(Low(0)) = 0
    BY <2>3, FS_EmptySet
  <2> QED BY <1>1, <1>4, <2>2
<1>6. m \in 1..n /\ m - 1 \in 0..n /\ ~(Cardinality(Low(m - 1)) >= p)
  <2>1. m \in 1..n /\ m - 1 \in 0..n
    BY <1>4, <1>5
  <2>2. m - 1 \notin good
    <3> HIDE DEF good
    <3> QED BY <1>4, <2>1
  <2> HIDE DEF Low
  <2> QED BY <2>1, <2>2
<1>7. m \in T
  <2>1. m \notin T => \A j \in T : j <= m <=> j <= m - 1
    <3> HIDE DEF good
    <3> QED BY <1>1, <1>6
  <2>2. m \notin T => Low(m) = Low(m - 1)
    BY <2>1
  <2> QED BY <1>4, <1>6, <2>2
<1>8. Low(m) = Low(m - 1) \cup {m} /\ m \notin Low(m - 1) /\ {j \in T : j < m} = Low(m - 1)
  <2>1. \A j \in T : /\ (j <= m) <=> (j <= m - 1 \/ j = m)
                     /\ (j < m) <=> (j <= m - 1)
    <3> HIDE DEF good
    <3> QED BY <1>1, <1>6
  <2>2. m \in T /\ ~(m <= m - 1)
    BY <1>6, <1>7
  <2> QED BY <2>1, <2>2
<1>9. Cardinality(Low(m)) = Cardinality(Low(m - 1)) + 1
  <2> HIDE DEF Low
  <2> QED BY <1>2, <1>8, FS_AddElement
<1>10. Cardinality(Low(m - 1)) = p - 1
  <2>1. Cardinality(Low(m)) >= p
    BY <1>4
  <2> HIDE DEF Low, good
  <2> QED BY <1>1, <1>2, <1>6, <1>9, <2>1
<1> QED BY <1>7, <1>8, <1>10

(* Each row a deduplication keeps is one of the rows, and as new as any    *)
(* with its text.                                                          *)
LEMMA DedupedFacts ==
  ASSUME NEW H, NEW rows \in Seq(H), \A h \in H : h.row.date \in Nat
  PROVE  /\ Deduped(rows) \in Seq(H)
         /\ \A p \in DOMAIN Deduped(rows) : \E j \in DOMAIN rows :
              /\ Deduped(rows)[p] = rows[j]
              /\ \A k \in DOMAIN rows : rows[k].chunk.text = rows[j].chunk.text
                                           => rows[k].row.date <= rows[j].row.date
<1> DEFINE n == Len(rows)
           T == Firsts(rows)
           nth(p) == CHOOSE i \in T : Cardinality({j \in T : j < i}) = p - 1
<1>1. n \in Nat /\ DOMAIN rows = 1..n /\ \A k \in 1..n : rows[k] \in H /\ rows[k].row.date \in Nat
  OBVIOUS
<1>2. T \in SUBSET (1..n)
  BY <1>1 DEF Firsts
<1>3. Cardinality(T) \in Nat
  <2> HIDE DEF n, T
  <2> QED BY <1>1, <1>2, PositionsFinite
<1>4. /\ DOMAIN Deduped(rows) = 1..Cardinality(T)
      /\ \A p \in 1..Cardinality(T) : Deduped(rows)[p] = rows[NewestOfText(rows, nth(p))]
  BY DEF Deduped
<1>5. ASSUME NEW p \in 1..Cardinality(T)
      PROVE  nth(p) \in 1..n
  <2>1. \E i \in T : Cardinality({j \in T : j < i}) = p - 1
    <3> HIDE DEF T, n
    <3> QED BY <1>1, <1>2, NthPosition
  <2> HIDE DEF T
  <2> QED BY <1>2, <2>1
<1> HIDE DEF n, T, nth
<1>6. ASSUME NEW p \in 1..Cardinality(T)
      PROVE  \E j \in 1..n :
               /\ Deduped(rows)[p] = rows[j]
               /\ \A k \in 1..n : rows[k].chunk.text = rows[j].chunk.text
                                     => rows[k].row.date <= rows[j].row.date
  <2> DEFINE j == NewestOfText(rows, nth(p))
  <2>1. /\ j \in SameText(rows, nth(p))
        /\ \A k \in SameText(rows, nth(p)) : rows[k].row.date <= rows[j].row.date
    BY <1>1, <1>5, NewestFacts
  <2>2. Deduped(rows)[p] = rows[j]
    BY <1>4
  <2> HIDE DEF j
  <2> QED BY <1>1, <2>1, <2>2 DEF SameText
<1>7. Deduped(rows) \in Seq(H)
  <2>1. Deduped(rows) = [p \in 1..Cardinality(T) |-> Deduped(rows)[p]]
    BY <1>4 DEF Deduped
  <2>2. \A p \in 1..Cardinality(T) : Deduped(rows)[p] \in H
    BY <1>1, <1>6
  <2> QED BY <1>3, <2>1, <2>2
<1> QED BY <1>1, <1>4, <1>6, <1>7

LEMMA JudgedFacts ==
  ASSUME NEW H, NEW rows \in Seq(H), \A h \in H : h.row.date \in Nat,
         NEW q, q.limit \in Nat, NEW mode
  PROVE  \A i \in DOMAIN Judged(q, mode, rows).shown :
           \E j \in DOMAIN rows :
             /\ Judged(q, mode, rows).shown[i] = rows[j]
             /\ \A k \in DOMAIN rows : rows[k].chunk.text = rows[j].chunk.text
                                          => rows[k].row.date <= rows[j].row.date
<1> DEFINE capped == UpTo(Deduped(rows), q.limit)
<1>1. Judged(q, mode, rows).shown \in {<<>>, capped}
  BY DEF Judged, Nothing
<1>2. \A i \in DOMAIN capped : i \in DOMAIN Deduped(rows) /\ capped[i] = Deduped(rows)[i]
  BY DedupedFacts, UpToFacts
<1> HIDE DEF capped
<1>3. DOMAIN <<>> = {}
  OBVIOUS
<1> QED BY <1>1, <1>2, <1>3, DedupedFacts

LEMMA SearchFacts ==
  ASSUME NEW q \in Searches
  PROVE  q.limit \in Nat /\ q.project \in Projects
<1>1. PICK question \in Questions, sc \in Scopes : q = Scoped(question, sc.project, sc.groups)
  BY DEF Searches
<1> QED BY <1>1, AccessAssumption DEF Scoped, Scopes

LEMMA DatesAreNumbers ==
  ASSUME NEW db \in Databases, NEW q, NEW mode
  PROVE  \A h \in Matches(db, q, mode) : h.row.date \in Nat
<1> SUFFICES ASSUME NEW h \in Matches(db, q, mode) PROVE h.row.date \in Nat
  OBVIOUS
<1>1. h \in Hits(db)
  BY MatchFacts
<1>2. h.doc \in Stored(db) /\ h.row = db[h.doc]
  BY <1>1, HitParts
<1> QED BY <1>2, StoredFacts

(* What a search shows is a row it may show, and no older than any such    *)
(* row with its text: of those under its heading in any case, of the       *)
(* others if the limit cuts nothing off.                                   *)
LEMMA ShownFacts ==
  ASSUME NEW db \in Databases, NEW q, q.limit \in Nat, NEW mode, NEW rows \in Fetched(db, q, mode),
         NEW i \in DOMAIN Judged(q, mode, rows).shown
  PROVE  LET x == Judged(q, mode, rows).shown[i]
         IN  /\ x \in Matches(db, q, mode)
             /\ \A h \in Matches(db, q, mode) :
                  \/ h.chunk = x.chunk
                  \/ h.chunk.text = x.chunk.text /\ Len(rows) < 3 * q.limit
                  => h.row.date <= x.row.date
<1> DEFINE M == Matches(db, q, mode)
           x == Judged(q, mode, rows).shown[i]
<1>1. \A h \in M : h.row.date \in Nat
  BY DatesAreNumbers
<1>2. /\ rows \in Seq(M)
      /\ \A h \in M : \/ \E k \in DOMAIN rows : rows[k] = h
                      \/ /\ Len(rows) = 3 * q.limit
                         /\ \A j \in DOMAIN rows : ~Precedes(q, mode, h, rows[j])
  BY FetchedFacts
<1> HIDE DEF M
<1>3. PICK j \in DOMAIN rows :
        /\ x = rows[j]
        /\ \A k \in DOMAIN rows : rows[k].chunk.text = rows[j].chunk.text
                                     => rows[k].row.date <= rows[j].row.date
  BY <1>1, <1>2, JudgedFacts
<1>4. x \in M
  BY <1>2, <1>3
<1> HIDE DEF x
<1>5. ASSUME NEW h \in M,
             \/ h.chunk = x.chunk
             \/ h.chunk.text = x.chunk.text /\ Len(rows) < 3 * q.limit
      PROVE  h.row.date <= x.row.date
  <2>1. CASE \E k \in DOMAIN rows : rows[k] = h
    BY <1>3, <1>5, <2>1
  <2>2. CASE Len(rows) = 3 * q.limit /\ ~Precedes(q, mode, h, x)
    <3>1. h.chunk = x.chunk
      BY <1>5, <2>2
    <3>2. Rank(q, mode, h) = Rank(q, mode, x)
      BY <3>1 DEF Rank
    <3> QED BY <1>1, <1>4, <2>2, <3>2 DEF Precedes
  <2> QED BY <1>2, <1>3, <2>1, <2>2
<1> QED BY <1>4, <1>5 DEF x, M

LEMMA AnswerFacts ==
  ASSUME NEW db, NEW q, NEW a \in Answers(db, q)
  PROVE  \E mode \in {"and", "or"} : \E rows \in Fetched(db, q, mode) : a = Judged(q, mode, rows)
BY DEF Answers

LEMMA AllCurrent == ASSUME NEW db \in Databases PROVE Current(db)
BY SearchFacts, ShownFacts DEF Current

-----------------------------------------------------------------------------
(* What a caller may not read makes no difference.                         *)

LEMMA AllBlind == ASSUME NEW db \in Databases PROVE Blind(db)
<1> SUFFICES ASSUME NEW q \in Searches
             PROVE  LET visible == [d \in DocIds |-> IF d \in Listed(db, q.project, q.groups)
                                                     THEN db[d] ELSE Absent]
                    IN  /\ Answers(db, q) = Answers(visible, q)
                        /\ Facts(db, q.project, q.groups) = Facts(visible, q.project, q.groups)
  BY DEF Blind
<1> DEFINE mine == Listed(db, q.project, q.groups)
           visible == [d \in DocIds |-> IF d \in mine THEN db[d] ELSE Absent]
<1>1. /\ mine \in SUBSET DocIds
      /\ \A d : d \in mine <=> /\ d \in Stored(db)
                               /\ db[d].project = q.project /\ db[d].group \in q.groups
  BY DatabaseFacts DEF Listed, Stored
<1>2. Stored(visible) = mine /\ \A d \in mine : visible[d] = db[d]
  BY <1>1 DEF Stored
<1>3. Listed(visible, q.project, q.groups) = mine
  BY <1>1, <1>2 DEF Listed
<1> HIDE DEF mine, visible
<1>4. \A mode : Matches(db, q, mode) = Matches(visible, q, mode)
  <2> TAKE mode
  <2>1. ASSUME NEW h \in Matches(db, q, mode) PROVE h \in Matches(visible, q, mode)
    <3>1. h \in Hits(db) /\ MayRead(q.project, q.groups, h.row)
      BY MatchFacts
    <3>2. h.doc \in mine /\ h.n \in DOMAIN db[h.doc].chunks /\ h = Hit(db, h.doc, h.n)
      BY <1>1, <3>1, HitParts DEF MayRead
    <3>3. h = Hit(visible, h.doc, h.n) /\ h.n \in DOMAIN visible[h.doc].chunks
      BY <1>2, <3>2 DEF Hit
    <3>4. h \in Hits(visible)
      BY <1>2, <3>2, <3>3, HitFacts
    <3> QED BY <3>4, MatchFacts
  <2>2. ASSUME NEW h \in Matches(visible, q, mode) PROVE h \in Matches(db, q, mode)
    <3>1. h \in Hits(visible)
      BY MatchFacts
    <3>2. h.doc \in mine /\ h.n \in DOMAIN visible[h.doc].chunks /\ h = Hit(visible, h.doc, h.n)
      BY <1>2, <3>1, HitParts
    <3>3. h = Hit(db, h.doc, h.n) /\ h.n \in DOMAIN db[h.doc].chunks /\ h.doc \in Stored(db)
      BY <1>1, <1>2, <3>2 DEF Hit
    <3>4. h \in Hits(db)
      BY <3>3, HitFacts
    <3> QED BY <3>4, MatchFacts
  <2> QED BY <2>1, <2>2
<1>5. \A mode : Fetched(db, q, mode) = Fetched(visible, q, mode)
  BY <1>4 DEF Fetched
<1>6. Answers(db, q) = Answers(visible, q)
  BY <1>5 DEF Answers
<1>7. Facts(db, q.project, q.groups) = Facts(visible, q.project, q.groups)
  <2> DEFINE told(c) == {r \in Rules : /\ r.project = q.project /\ r.doc \in Stored(c)
                                       /\ c[r.doc].group \in q.groups}
  <2>1. told(db) = told(visible)
    <3>1. ASSUME NEW r \in Rules, r.project = q.project, r.doc \in Stored(db)
          PROVE  db[r.doc].project = q.project
      BY <3>1, StoredFacts
    <3>2. told(db) = {r \in Rules : r.project = q.project /\ r.doc \in mine}
      BY <1>1, <3>1
    <3>3. told(visible) = {r \in Rules : r.project = q.project /\ r.doc \in mine}
      BY <1>1, <1>2
    <3> QED BY <3>2, <3>3
  <2>2. Counts(mine, LAMBDA d : db[d].type) = Counts(mine, LAMBDA d : visible[d].type)
    BY <1>2 DEF Counts
  <2>3. Counts(mine, LAMBDA d : db[d].vendor) = Counts(mine, LAMBDA d : visible[d].vendor)
    BY <1>2 DEF Counts
  <2> QED BY <1>3, <2>1, <2>2, <2>3 DEF Facts, mine
<1> QED BY <1>6, <1>7 DEF visible, mine

-----------------------------------------------------------------------------
(* All ways of reading agree.                                              *)

LEMMA ChunkForFacts ==
  ASSUME NEW db, NEW project, NEW groups, NEW h \in Hits(db)
  PROVE  ChunkFor(db, project, groups, h.doc, h.n) # {} <=> MayRead(project, groups, h.row)
<1>1. ASSUME NEW g \in Hits(db), g.doc = h.doc, g.n = h.n PROVE g = h
  <2>1. h = Hit(db, h.doc, h.n) /\ g = Hit(db, g.doc, g.n)
    BY HitParts
  <2> QED BY <1>1, <2>1
<1> QED BY <1>1 DEF ChunkFor

LEMMA AllAgreeing == ASSUME NEW db \in Databases PROVE Agreeing(db)
<1> SUFFICES ASSUME NEW sc \in Scopes
             PROVE  LET p == sc.project
                        G == sc.groups
                        listed == Listed(db, p, G)
                        facts == Facts(db, p, G)
                        byTool == {h \in Hits(db) : ChunkFor(db, p, G, h.doc, h.n) # {}}
                        byRoute == {h \in Hits(db) : /\ h.row.project = p
                                                     /\ DocumentFor(db, Owner, G, Owner[p], h.doc)}
                    IN  /\ byTool = byRoute
                        /\ \A h \in byTool : h.doc \in listed
                        /\ \A q \in Questions : \A a \in Answers(db, Scoped(q, p, G)) :
                             \A i \in DOMAIN a.shown : a.shown[i] \in byTool
                        /\ \A r \in Rules : r \in RulesFor(db, p, G, r.area, "low") => r.doc \in listed
                        /\ \A area \in DOMAIN facts.areas :
                             Cardinality(RulesFor(db, p, G, area, "low")) = facts.areas[area]
  BY DEF Agreeing
<1> DEFINE p == sc.project
           G == sc.groups
           listed == Listed(db, p, G)
           facts == Facts(db, p, G)
           byTool == {h \in Hits(db) : ChunkFor(db, p, G, h.doc, h.n) # {}}
           byRoute == {h \in Hits(db) : h.row.project = p /\ DocumentFor(db, Owner, G, Owner[p], h.doc)}
<1>1. \A h \in Hits(db) : h \in byTool <=> MayRead(p, G, h.row)
  BY ChunkForFacts
<1>2. \A h \in Hits(db) : h.doc \in Stored(db) /\ h.row = db[h.doc]
  BY HitParts
<1>3. byTool = byRoute
  <2>1. ASSUME NEW h \in Hits(db) PROVE h \in byTool <=> h \in byRoute
    BY <1>1, <1>2 DEF MayRead, DocumentFor
  <2> QED BY <2>1
<1>4. \A h \in byTool : h.doc \in listed
  BY <1>1, <1>2 DEF MayRead, Listed
<1>5. ASSUME NEW q \in Questions, NEW a \in Answers(db, Scoped(q, p, G)), NEW i \in DOMAIN a.shown
      PROVE  a.shown[i] \in byTool
  <2> DEFINE s == Scoped(q, p, G)
  <2>1. s.limit \in Nat /\ s.project = p /\ s.groups = G
    BY AccessAssumption DEF Scoped
  <2>2. PICK mode \in {"and", "or"} : \E rows \in Fetched(db, s, mode) : a = Judged(s, mode, rows)
    BY AnswerFacts
  <2>3. PICK rows \in Fetched(db, s, mode) : a = Judged(s, mode, rows)
    BY <2>2
  <2> HIDE DEF s
  <2>4. a.shown[i] \in Matches(db, s, mode)
    BY <2>1, <2>3, ShownFacts
  <2>5. a.shown[i] \in Hits(db) /\ MayRead(p, G, a.shown[i].row)
    BY <2>1, <2>4, MatchFacts
  <2> QED BY <1>1, <2>5
<1>6. \A r \in Rules : r \in RulesFor(db, p, G, r.area, "low") => r.doc \in listed
  BY StoredFacts DEF RulesFor, Listed
<1>7. ASSUME NEW area \in DOMAIN facts.areas
      PROVE  Cardinality(RulesFor(db, p, G, area, "low")) = facts.areas[area]
  <2> DEFINE told == {r \in Rules : r.project = p /\ r.doc \in Stored(db) /\ db[r.doc].group \in G}
  <2>1. facts.areas = Counts(told, LAMBDA r : r.area)
    BY DEF Facts
  <2>2. facts.areas[area] = Cardinality({r \in told : r.area = area})
    BY <2>1, <1>7 DEF Counts
  <2>3. \A r \in Rules : SeverityOrder[r.severity] >= SeverityOrder["low"]
    BY AccessAssumption DEF SeverityOrder
  <2>4. RulesFor(db, p, G, area, "low") = {r \in told : r.area = area}
    BY <2>3 DEF RulesFor
  <2> QED BY <2>2, <2>4
<1> QED BY <1>3, <1>4, <1>5, <1>6, <1>7

-----------------------------------------------------------------------------
(* The ingestions.                                                         *)

(* A column belongs to one UPDATE, and every field to a column.            *)
LEMMA ColumnFacts ==
  /\ \A c \in Columns : \A f \in c : f \in DocumentFields
  /\ \A f \in DocumentFields : \E c \in Columns : f \in c
  /\ \A c, e \in Columns : \A f : f \in c /\ f \in e => c = e
BY DEF Columns, DocumentFields

LEMMA DiffersByColumn ==
  ASSUME NEW new, NEW loaded, NEW column \in Columns, NEW f \in column, NEW h \in column
  PROVE  Differs(new, loaded, f) <=> Differs(new, loaded, h)
BY ColumnFacts DEF Differs

(* What an ingestion leaves of a document is a mix of its editions.        *)
LEMMA EditionMixes ==
  ASSUME NEW d \in DocIds, NEW e \in Editions(d)
  PROVE  e \in Mixes[d]
<1> DEFINE g == [f \in DocumentFields |-> e]
<1>1. e = [f \in DocumentFields |-> e[f]]
  BY EditionFacts DEF IsDocument
<1>2. e = [f \in DocumentFields |-> g[f][f]]
  BY <1>1
<1>3. \A column \in Columns : \A f, h \in column : g[f] = g[h]
  BY ColumnFacts
<1> HIDE DEF g
<1>4. g \in [DocumentFields -> Editions(d)]
  BY DEF g
<1> QED BY <1>2, <1>3, <1>4, MixFacts

LEMMA WrittenFacts ==
  ASSUME NEW d \in DocIds, NEW new \in Editions(d), NEW loaded, NEW now,
         now = Absent \/ now \in Mixes[d], loaded # Absent => now # Absent
  PROVE  Written(loaded, new, now) \in Mixes[d]
<1>1. CASE loaded = Absent
  BY <1>1, EditionMixes DEF Written
<1>2. CASE loaded # Absent /\ loaded.chunks = new.chunks
  BY <1>2 DEF Written
<1>3. CASE loaded # Absent /\ loaded.chunks # new.chunks
  <2>1. PICK g \in [DocumentFields -> Editions(d)] :
          /\ \A column \in Columns : \A f, h \in column : g[f] = g[h]
          /\ now = [f \in DocumentFields |-> g[f][f]]
    BY <1>3, MixFacts
  <2> DEFINE of == [f \in DocumentFields |-> IF Differs(new, loaded, f) THEN new ELSE g[f]]
  <2>2. of \in [DocumentFields -> Editions(d)]
    OBVIOUS
  <2>3. \A column \in Columns : \A f, h \in column : of[f] = of[h]
    BY <2>1, ColumnFacts, DiffersByColumn
  <2>4. Written(loaded, new, now) = [f \in DocumentFields |-> IF Differs(new, loaded, f) THEN new[f] ELSE now[f]]
    BY <1>3 DEF Written
  <2>5. Written(loaded, new, now) = [f \in DocumentFields |-> of[f][f]]
    BY <2>1, <2>4
  <2> HIDE DEF of
  <2> QED BY <2>2, <2>3, <2>5, MixFacts
<1> QED BY <1>1, <1>2, <1>3

LEMMA MixedPresent == ASSUME NEW d \in DocIds, NEW row \in Mixes[d] PROVE row # Absent
<1>1. DOMAIN row = DocumentFields
  BY MixFacts
<1> QED BY <1>1 DEF Absent, DocumentFields

(* An ingestion that loaded what is there now writes a whole edition, or   *)
(* leaves the one there is.                                                *)
LEMMA WrittenWhole ==
  ASSUME NEW d, NEW new \in Editions(d), NEW now
  PROVE  Written(now, new, now) \in {new, now}
<1> DEFINE row == [f \in DocumentFields |-> IF Differs(new, now, f) THEN new[f] ELSE now[f]]
<1>1. new = [f \in DocumentFields |-> new[f]]
  BY EditionFacts DEF IsDocument
<1>2. ASSUME NEW f \in DocumentFields PROVE row[f] = new[f]
  <2>1. PICK c \in Columns : f \in c
    BY ColumnFacts
  <2>2. new[f] # now[f] => Differs(new, now, f)
    BY <2>1 DEF Differs
  <2> QED BY <2>2
<1>3. row = new
  BY <1>1, <1>2
<1> QED BY <1>3 DEF Written

-----------------------------------------------------------------------------
(* The sessions.                                                           *)

Places == {"own", "list", "row", "chunks", "chunk", "and", "or", "rules", "ready", "done"}
Mails == {NoEmail} \cup UNION {Emails[u] : u \in Users}
UserRows == [known : BOOLEAN, email : Mails, groups : GroupSets]

(* A session that works.                                                   *)
Proper(w) ==
  /\ DOMAIN w = {"at", "user", "op", "project", "groups", "email", "status"}
  /\ w.at \in Places
  /\ w.at = "own" => w.op.kind \in {"list", "search", "plan"}
  /\ w.user \in Users /\ w.email \in Mails

SessionsProper ==
  /\ DOMAIN ses = Sessions
  /\ \A s \in Sessions : ses[s] # Idle => Proper(ses[s])

GrantsProper ==
  /\ DOMAIN grants = Seeds
  /\ \A o \in Seeds : grants[o] # Idle =>
       /\ grants[o].user \in Users /\ grants[o].group \in Groups
       /\ grants[o].groups \in GroupSets

(* What an ingestion has loaded, and what of it is still there.            *)
Loading(job) ==
  /\ \E p \in Projects : job.release \in Releases[p]
  /\ DOMAIN job.existing = DOMAIN job.release
  /\ \A d \in DOMAIN job.release : job.existing[d] # Absent => docs[d] # Absent

IngestsProper ==
  /\ DOMAIN ingests = Ingesters
  /\ \A i \in Ingesters : ingests[i] # Idle => Loading(ingests[i])

AccessInv ==
  /\ docs \in Databases
  /\ users \in [Users -> UserRows]
  /\ SessionsProper
  /\ GrantsProper
  /\ IngestsProper

LEMMA OneSession ==
  ASSUME SessionsProper, NEW s \in Sessions, NEW w, Set(s, w), w = Idle \/ Proper(w)
  PROVE  SessionsProper'
<1>1. ses' = [ses EXCEPT ![s] = w] /\ DOMAIN ses = Sessions
  BY DEF Set, SessionsProper
<1>2. DOMAIN ses' = Sessions /\ \A t \in Sessions : ses'[t] = IF t = s THEN w ELSE ses[t]
  BY <1>1
<1> QED BY <1>2 DEF SessionsProper

LEMMA ReplyKeeps ==
  ASSUME SessionsProper, NEW s \in Sessions, ses[s] # Idle, NEW a, Reply(s, a)
  PROVE  SessionsProper'
<1> DEFINE w == [ses[s] EXCEPT !.at = "done", !.status = a]
<1>1. Set(s, w) /\ Proper(ses[s])
  BY DEF Reply, SessionsProper
<1>2. Proper(w)
  BY <1>1 DEF Proper, Places
<1> HIDE DEF w
<1> QED BY <1>1, <1>2, OneSession

LEMMA MoveKeeps ==
  ASSUME SessionsProper, NEW s \in Sessions, ses[s] # Idle, NEW place \in Places \ {"own"}, Step(s, place)
  PROVE  SessionsProper'
<1> DEFINE w == [ses[s] EXCEPT !.at = place]
<1>1. Set(s, w) /\ Proper(ses[s])
  BY DEF Step, SessionsProper
<1>2. Proper(w)
  BY <1>1 DEF Proper
<1> HIDE DEF w
<1> QED BY <1>1, <1>2, OneSession

LEMMA BeginKeeps ==
  ASSUME SessionsProper, NEW s \in Requests, NEW token \in TokenClaims, NEW email,
         NEW op \in Operations, Begin(s, token, email, op)
  PROVE  SessionsProper'
<1> DEFINE u == Principal(token)
           w == [Work(FirstStatement(op), u, op, op.project) EXCEPT !.email = email]
<1>1. u \in Users /\ Set(s, w) /\ s \in Sessions
  BY DEF Begin, Principal, TokenClaims, Sessions
<1>2. email \in Mails
  BY <1>1 DEF Begin, Mails
<1>3. /\ FirstStatement(op) \in Places
      /\ FirstStatement(op) = "own" => op.kind \in {"list", "search"}
  BY AccessAssumption DEF FirstStatement, Places
<1>4. Proper(w)
  <2> HIDE DEF u
  <2> QED BY <1>1, <1>2, <1>3 DEF Proper, Work
<1> HIDE DEF w
<1> QED BY <1>1, <1>4, OneSession

LEMMA StartJobKeeps ==
  ASSUME SessionsProper, NEW s \in Jobs, NEW u \in Users, NEW p \in Projects, StartJob(s, u, p)
  PROVE  SessionsProper'
<1> DEFINE w == Work("own", u, [kind |-> "plan"], p)
<1>1. Set(s, w) /\ s \in Sessions
  BY DEF StartJob, Sessions
<1>2. Proper(w)
  BY DEF Proper, Work, Places, Mails
<1> HIDE DEF w
<1> QED BY <1>1, <1>2, OneSession

LEMMA InvokeKeeps ==
  ASSUME SessionsProper, NEW s \in Jobs, NEW call \in ToolCalls, NEW valid \in BOOLEAN,
         Invoke(s, call, valid)
  PROVE  SessionsProper'
<1> DEFINE place == CASE ~valid -> "done"
                      [] call.kind = "search" -> "and"
                      [] call.kind = "chunk" -> "chunk"
                      [] call.kind = "rules" -> "rules"
           w == [ses[s] EXCEPT !.op = call, !.at = place, !.status = IF valid THEN "open" ELSE "error"]
<1>1. Set(s, w) /\ s \in Sessions /\ Proper(ses[s])
  BY DEF Invoke, At, SessionsProper, Sessions
<1>2. place \in Places \ {"own"}
  <2>1. CASE ~valid
    BY <2>1 DEF Places
  <2>2. CASE valid
    BY <2>2, AccessAssumption DEF Places
  <2> QED BY <2>1, <2>2
<1>3. Proper(w)
  <2> HIDE DEF place
  <2> QED BY <1>1, <1>2 DEF Proper
<1> HIDE DEF w
<1> QED BY <1>1, <1>3, OneSession

LEMMA ReadRowKeeps ==
  ASSUME SessionsProper, NEW s \in Sessions, ReadRow(s)
  PROVE  SessionsProper'
<1>1. ses[s] # Idle /\ Proper(ses[s])
  BY DEF ReadRow, At, SessionsProper
<1>2. CASE \E a : Reply(s, a)
  BY <1>1, <1>2, ReplyKeeps
<1>3. CASE ~\E a : Reply(s, a)
  <2> DEFINE w == [ses[s] EXCEPT !.at = "chunks"]
  <2>1. Set(s, w)
    BY <1>3 DEF ReadRow, Step
  <2>2. Proper(w)
    BY <1>1 DEF Proper, Places
  <2> HIDE DEF w
  <2> QED BY <2>1, <2>2, OneSession
<1> QED BY <1>2, <1>3

LEMMA ToolReturnsKeeps ==
  ASSUME SessionsProper, NEW s \in Sessions, ToolReturns(s)
  PROVE  SessionsProper'
<1>1. ses[s] # Idle /\ Proper(ses[s])
  BY DEF ToolReturns, At, SessionsProper
<1>2. CASE Set(s, Idle)
  BY <1>2, OneSession
<1>3. CASE ~Set(s, Idle)
  <2> DEFINE w == [ses[s] EXCEPT !.at = "ready", !.op = [kind |-> "plan"],
                                 !.status = "open"]
  <2>1. Set(s, w)
    BY <1>3 DEF ToolReturns
  <2>2. Proper(w)
    BY <1>1 DEF Proper, Places
  <2> HIDE DEF w
  <2> QED BY <2>1, <2>2, OneSession
<1> QED BY <1>2, <1>3

LEMMA UpsertedFacts ==
  ASSUME users \in [Users -> UserRows], NEW u \in Users, NEW email \in Mails
  PROVE  /\ Upserted(u, email) \in UserRows
         /\ Upserted(u, email).groups = users[u].groups
         /\ Upserted(u, email).known
         /\ users[u].email # NoEmail => Upserted(u, email).email # NoEmail
<1>1. users[u] \in UserRows
  OBVIOUS
<1> QED BY <1>1 DEF Upserted, UserRows

(* The users rows after a request has ended: a clean one has upserted.     *)
LEMMA FinishFacts ==
  ASSUME AccessInv, NEW s \in Sessions, Finish(s)
  PROVE  /\ Set(s, Idle) /\ users' \in [Users -> UserRows]
         /\ \A u \in Users : /\ users'[u].groups = users[u].groups
                             /\ users[u].known => users'[u].known
                             /\ users[u].email # NoEmail => users'[u].email # NoEmail
<1>1. ses[s] # Idle /\ Set(s, Idle)
  BY DEF Finish, At
<1>2. ses[s].user \in Users /\ ses[s].email \in Mails
  BY <1>1 DEF AccessInv, SessionsProper, Proper
<1>3. CASE users' = users
  BY <1>1, <1>3 DEF AccessInv
<1>4. CASE users' = [users EXCEPT ![ses[s].user] = Upserted(ses[s].user, ses[s].email)]
  <2>1. users \in [Users -> UserRows]
    BY DEF AccessInv
  <2> DEFINE x == Upserted(ses[s].user, ses[s].email)
  <2>2. /\ x \in UserRows /\ x.groups = users[ses[s].user].groups /\ x.known
        /\ users[ses[s].user].email # NoEmail => x.email # NoEmail
    BY <1>2, <2>1, UpsertedFacts
  <2> HIDE DEF x
  <2>3. users' = [users EXCEPT ![ses[s].user] = x]
    BY <1>4 DEF x
  <2> QED BY <1>1, <1>2, <2>1, <2>2, <2>3
<1> QED BY <1>3, <1>4 DEF Finish

(* Ingestions: their steps keep what others have loaded.                   *)
LEMMA StartIngestFacts ==
  ASSUME AccessInv, NEW i \in Ingesters, NEW p \in Projects, StartIngest(i, p)
  PROVE  /\ IngestsProper'
         /\ \A j \in Ingesters : ingests'[j] = ingests[j] \/ \A d \in DOMAIN ingests'[j].release :
                                                               ingests'[j].existing[d] = docs[d]
<1>1. PICK r \in Releases[p] :
        ingests' = [ingests EXCEPT ![i] = [at |-> "loaded", release |-> r,
                                           existing |-> [d \in DOMAIN r |-> docs[d]]]]
  BY DEF StartIngest
<1> DEFINE x == [at |-> "loaded", release |-> r, existing |-> [d \in DOMAIN r |-> docs[d]]]
<1>2. docs' = docs /\ DOMAIN ingests = Ingesters
  BY DEF StartIngest, AccessInv, IngestsProper
<1>3. \A d \in DOMAIN x.release : x.existing[d] = docs[d]
  OBVIOUS
<1>4. /\ x.release \in Releases[p] /\ DOMAIN x.existing = DOMAIN x.release
      /\ \A d \in DOMAIN x.release : x.existing[d] # Absent => docs[d] # Absent
  OBVIOUS
<1> HIDE DEF x
<1>5. DOMAIN ingests' = Ingesters /\ \A j \in Ingesters : ingests'[j] = IF j = i THEN x ELSE ingests[j]
  BY <1>1, <1>2 DEF x
<1>6. IngestsProper'
  BY <1>2, <1>4, <1>5 DEF AccessInv, IngestsProper, Loading
<1> QED BY <1>3, <1>5, <1>6

LEMMA CommitIngestFacts ==
  ASSUME AccessInv, NEW i \in Ingesters, CommitIngest(i)
  PROVE  docs' \in Databases /\ IngestsProper'
<1> DEFINE job == ingests[i]
           r == job.release
<1>1. job # Idle /\ Loading(job) /\ docs \in Databases /\ DOMAIN ingests = Ingesters
  BY DEF CommitIngest, AccessInv, IngestsProper
<1>2. \A d \in DOMAIN r : r[d] \in Editions(d)
  BY <1>1 DEF Loading, Editions
<1>3. docs' = [d \in DocIds |-> IF d \in DOMAIN r THEN Written(job.existing[d], r[d], docs[d]) ELSE docs[d]]
  BY DEF CommitIngest
<1>4. ASSUME NEW d \in DocIds
      PROVE  /\ docs'[d] = Absent \/ docs'[d] \in Mixes[d]
             /\ docs[d] # Absent => docs'[d] # Absent
  <2>1. docs[d] = Absent \/ docs[d] \in Mixes[d]
    BY <1>1, DatabaseFacts
  <2>2. CASE d \in DOMAIN r
    <3>1. job.existing[d] # Absent => docs[d] # Absent
      BY <1>1, <2>2 DEF Loading
    <3>2. docs'[d] = Written(job.existing[d], r[d], docs[d])
      BY <1>3, <2>2
    <3> HIDE DEF job
    <3> QED BY <1>2, <2>1, <2>2, <3>1, <3>2, WrittenFacts, MixedPresent
  <2>3. CASE d \notin DOMAIN r
    BY <1>3, <2>1, <2>3
  <2> QED BY <2>2, <2>3
<1>5. docs' = [d \in DocIds |-> docs'[d]]
  BY <1>3
<1>6. docs' \in Databases
  BY <1>4, <1>5, DatabaseFacts
<1>8. ingests' = [ingests EXCEPT ![i] = Idle]
  BY DEF CommitIngest
<1>9. DOMAIN ingests' = Ingesters /\ \A j \in Ingesters : ingests'[j] = IF j = i THEN Idle ELSE ingests[j]
  BY <1>1, <1>8
<1>10. ASSUME NEW j \in Ingesters, ingests'[j] # Idle
       PROVE  Loading(ingests[j])'
  <2>1. ingests'[j] = ingests[j] /\ Loading(ingests[j])
    BY <1>9, <1>10 DEF AccessInv, IngestsProper
  <2>2. \A d \in DOMAIN ingests[j].release : d \in DocIds
    BY <2>1 DEF Loading, DocIds
  <2> QED BY <1>4, <2>1, <2>2 DEF Loading
<1> QED BY <1>6, <1>9, <1>10 DEF IngestsProper

LEMMA AbandonIngestFacts ==
  ASSUME AccessInv, NEW i \in Ingesters, AbandonIngest(i)
  PROVE  IngestsProper'
<1>1. /\ ingests' = [ingests EXCEPT ![i] = Idle] /\ docs' = docs /\ DOMAIN ingests = Ingesters
  BY DEF AbandonIngest, AccessInv, IngestsProper
<1>2. DOMAIN ingests' = Ingesters /\ \A j \in Ingesters : ingests'[j] = IF j = i THEN Idle ELSE ingests[j]
  BY <1>1
<1> QED BY <1>1, <1>2 DEF AccessInv, IngestsProper, Loading

LEMMA GrantReadFacts ==
  ASSUME AccessInv, NEW o \in Seeds, NEW u \in Users, NEW g \in Groups, GrantRead(o, u, g)
  PROVE  /\ GrantsProper'
         /\ grants' = [grants EXCEPT ![o] = [at |-> "read", user |-> u, group |-> g,
                                             groups |-> users[u].groups]]
<1> DEFINE x == [at |-> "read", user |-> u, group |-> g, groups |-> users[u].groups]
<1>1. x.user \in Users /\ x.group \in Groups /\ x.groups \in GroupSets
  BY DEF AccessInv, UserRows
<1>2. grants' = [grants EXCEPT ![o] = x] /\ DOMAIN grants = Seeds
  BY DEF GrantRead, AccessInv, GrantsProper
<1> HIDE DEF x
<1>3. DOMAIN grants' = Seeds /\ \A n \in Seeds : grants'[n] = IF n = o THEN x ELSE grants[n]
  BY <1>2
<1>4. GrantsProper'
  BY <1>1, <1>3 DEF GrantsProper, AccessInv
<1> QED BY <1>2, <1>4 DEF x

LEMMA GrantWriteFacts ==
  ASSUME AccessInv, NEW o \in Seeds, GrantWrite(o)
  PROVE  /\ grants[o] # Idle /\ GrantsProper' /\ users' \in [Users -> UserRows]
         /\ \A n \in Seeds : grants'[n] = IF n = o THEN Idle ELSE grants[n]
         /\ \A u \in Users :
              /\ users'[u].known = users[u].known /\ users'[u].email = users[u].email
              /\ \/ users'[u].groups = users[u].groups
                 \/ /\ u = grants[o].user
                    /\ users'[u].groups = grants[o].groups \cup {grants[o].group}
<1> DEFINE x == grants[o]
<1>1. /\ x # Idle /\ x.user \in Users /\ x.group \in Groups /\ x.groups \in GroupSets
      /\ DOMAIN grants = Seeds /\ grants' = [grants EXCEPT ![o] = Idle]
  BY DEF GrantWrite, AccessInv, GrantsProper
<1>2. \A n \in Seeds : grants'[n] = IF n = o THEN Idle ELSE grants[n]
  BY <1>1
<1>3. GrantsProper'
  BY <1>1, <1>2 DEF GrantsProper, AccessInv
<1>4. users \in [Users -> UserRows]
  BY DEF AccessInv
<1>5. \/ users' = users
      \/ users' = [users EXCEPT ![x.user].groups = x.groups \cup {x.group}]
  BY DEF GrantWrite
<1>6. x.groups \cup {x.group} \in GroupSets
  <2>1. PICK G \in SUBSET Groups : x.groups = {"procurement"} \cup G
    BY <1>1 DEF GroupSets
  <2>2. x.groups \cup {x.group} = {"procurement"} \cup (G \cup {x.group})
    BY <2>1
  <2> QED BY <1>1, <2>2 DEF GroupSets
<1> HIDE DEF x
<1>7. users' \in [Users -> UserRows] /\
      \A u \in Users :
        /\ users'[u].known = users[u].known /\ users'[u].email = users[u].email
        /\ \/ users'[u].groups = users[u].groups
           \/ u = x.user /\ users'[u].groups = x.groups \cup {x.group}
  <2>1. CASE users' = users
    BY <1>4, <2>1
  <2>2. CASE users' = [users EXCEPT ![x.user].groups = x.groups \cup {x.group}]
    BY <1>1, <1>4, <1>6, <2>2 DEF UserRows
  <2> QED BY <1>5, <2>1, <2>2
<1> QED BY <1>1, <1>2, <1>3, <1>7 DEF x

LEMMA InitAccess == Init => AccessInv
<1> SUFFICES ASSUME Init PROVE AccessInv
  OBVIOUS
<1> USE DEF Init
<1>1. docs \in Databases
  BY DatabaseFacts
<1>2. users \in [Users -> UserRows]
  <2>1. {"procurement"} = {"procurement"} \cup {}
    OBVIOUS
  <2>2. {"procurement"} \in GroupSets
    BY <2>1 DEF GroupSets
  <2> QED BY <2>2 DEF NewUser, UserRows, Mails
<1>3. SessionsProper /\ GrantsProper /\ IngestsProper
  BY DEF SessionsProper, GrantsProper, IngestsProper
<1> QED BY <1>1, <1>2, <1>3 DEF AccessInv

(* The steps that change nothing but a session.                            *)
LEMMA OnlySessions ==
  ASSUME AccessInv, SessionsProper', UNCHANGED <<docs, users, grants, ingests>>
  PROVE  AccessInv'
BY DEF AccessInv, GrantsProper, IngestsProper, Loading

LEMMA ReadingKeeps ==
  ASSUME AccessInv, NEW s \in Sessions,
         \/ CheckOwner(s) \/ List(s) \/ ReadRow(s) \/ ReadChunks(s) \/ ReadChunk(s)
         \/ AndStage(s) \/ OrStage(s) \/ LookUpRules(s) \/ ToolReturns(s)
         \/ ToolFails(s) \/ EndJob(s) \/ CutOff(s)
  PROVE  AccessInv'
<1>1. SessionsProper'
  <2>0. SessionsProper
    BY DEF AccessInv
  <2>1. CASE EndJob(s) \/ CutOff(s)
    <3>1. Set(s, Idle)
      BY <2>1 DEF EndJob, CutOff
    <3> QED BY <2>0, <3>1, OneSession
  <2>2. CASE ToolFails(s) \/ List(s) \/ ReadChunks(s) \/ ReadChunk(s) \/ OrStage(s) \/ LookUpRules(s)
    <3>1. ses[s] # Idle /\ \E a : Reply(s, a)
      BY <2>2 DEF ToolFails, List, ReadChunks, ReadChunk, OrStage, LookUpRules, At
    <3> QED BY <2>0, <3>1, ReplyKeeps
  <2>3. CASE CheckOwner(s)
    <3>1. ses[s] # Idle /\ ses[s].op.kind \in {"list", "search", "plan"}
      BY <2>0, <2>3 DEF CheckOwner, At, SessionsProper, Proper
    <3>2. CASE \E a : Reply(s, a)
      BY <2>0, <3>1, <3>2, ReplyKeeps
    <3>3. CASE ~\E a : Reply(s, a)
      <4> DEFINE place == CASE ses[s].op.kind = "list" -> "list"
                            [] ses[s].op.kind = "search" -> "and"
                            [] ses[s].op.kind = "plan" -> "ready"
      <4>1. Step(s, place)
        BY <2>3, <3>3 DEF CheckOwner
      <4>2. place \in Places \ {"own"}
        BY <3>1 DEF Places
      <4> HIDE DEF place
      <4> QED BY <2>0, <3>1, <4>1, <4>2, MoveKeeps
    <3> QED BY <3>2, <3>3
  <2>4. CASE AndStage(s)
    <3>1. ses[s] # Idle /\ ((\E a : Reply(s, a)) \/ Step(s, "or"))
      BY <2>4 DEF AndStage, At
    <3>2. "or" \in Places \ {"own"}
      BY DEF Places
    <3> QED BY <2>0, <3>1, <3>2, ReplyKeeps, MoveKeeps
  <2> QED BY <2>0, <2>1, <2>2, <2>3, <2>4, ReadRowKeeps, ToolReturnsKeeps
<1>2. UNCHANGED <<docs, users, grants, ingests>>
  BY DEF CheckOwner, List, ReadRow, ReadChunks, ReadChunk, AndStage, OrStage, LookUpRules,
         ToolReturns, ToolFails, EndJob, CutOff
<1> QED BY <1>1, <1>2, OnlySessions

LEMMA StepKeepsAccess == AccessInv /\ [Next]_vars => AccessInv'
<1> SUFFICES ASSUME AccessInv, [Next]_vars PROVE AccessInv'
  OBVIOUS
<1>0. SessionsProper
  BY DEF AccessInv
<1>1. ASSUME NEW s \in Requests, NEW token \in TokenClaims, NEW email, NEW op \in Operations,
             Begin(s, token, email, op)
      PROVE  AccessInv'
  BY <1>0, <1>1, BeginKeeps, OnlySessions DEF Begin
<1>2. ASSUME NEW s \in Jobs, NEW u \in Users, NEW p \in Projects, StartJob(s, u, p)
      PROVE  AccessInv'
  BY <1>0, <1>2, StartJobKeeps, OnlySessions DEF StartJob
<1>3. ASSUME NEW s \in Jobs, NEW call \in ToolCalls, NEW valid \in BOOLEAN, Invoke(s, call, valid)
      PROVE  AccessInv'
  BY <1>0, <1>3, InvokeKeeps, OnlySessions DEF Invoke
<1>4. ASSUME NEW s \in Sessions, Advance(s) \/ ToolFails(s) \/ EndJob(s) \/ CutOff(s)
      PROVE  AccessInv'
  <2>1. CASE Finish(s)
    <3>1. Set(s, Idle) /\ users' \in [Users -> UserRows]
      BY <2>1, FinishFacts
    <3>2. SessionsProper'
      BY <1>0, <3>1, OneSession
    <3>3. UNCHANGED <<docs, grants, ingests>>
      BY <2>1 DEF Finish
    <3> QED BY <3>1, <3>2, <3>3 DEF AccessInv, GrantsProper, IngestsProper, Loading
  <2> QED BY <1>4, <2>1, ReadingKeeps DEF Advance
<1>5. ASSUME NEW i \in Ingesters,
             CommitIngest(i) \/ AbandonIngest(i) \/ \E p \in Projects : StartIngest(i, p)
      PROVE  AccessInv'
  <2>1. IngestsProper'
    BY <1>5, StartIngestFacts, CommitIngestFacts, AbandonIngestFacts
  <2>2. docs' \in Databases
    <3>1. CASE CommitIngest(i)
      BY <3>1, CommitIngestFacts
    <3>2. CASE docs' = docs
      BY <3>2 DEF AccessInv
    <3> QED BY <1>5, <3>1, <3>2 DEF AbandonIngest, StartIngest
  <2>3. UNCHANGED <<users, ses, grants>>
    BY <1>5 DEF CommitIngest, AbandonIngest, StartIngest
  <2> QED BY <2>1, <2>2, <2>3 DEF AccessInv, SessionsProper, GrantsProper
<1>6. CASE \E o \in Seeds, u \in Users, g \in Groups : GrantRead(o, u, g)
  <2>1. GrantsProper'
    BY <1>6, GrantReadFacts
  <2>2. UNCHANGED <<docs, users, ses, ingests>>
    BY <1>6 DEF GrantRead
  <2> QED BY <2>1, <2>2 DEF AccessInv, SessionsProper, IngestsProper, Loading
<1>7. CASE \E o \in Seeds : GrantWrite(o)
  <2>1. GrantsProper' /\ users' \in [Users -> UserRows]
    BY <1>7, GrantWriteFacts
  <2>2. UNCHANGED <<docs, ses, ingests>>
    BY <1>7 DEF GrantWrite
  <2> QED BY <2>1, <2>2 DEF AccessInv, SessionsProper, IngestsProper, Loading
<1>8. CASE UNCHANGED vars
  BY <1>8 DEF vars, AccessInv, SessionsProper, GrantsProper, IngestsProper, Loading
<1> QED BY <1>1, <1>2, <1>3, <1>4, <1>5, <1>6, <1>7, <1>8 DEF Next

LEMMA AccessAlways == Spec => []AccessInv
BY InitAccess, StepKeepsAccess, PTL DEF Spec

-----------------------------------------------------------------------------
(* However ingestions of a project overlap (_load_existing_documents and   *)
(* the UPDATEs of _ingest_document are apart), every column of a document  *)
(* is that of one of its editions, its chunks are those of one edition,    *)
(* and no document that a job has found goes away before it writes.        *)
THEOREM TypeCorrect == Spec => []TypeOK
<1>1. AccessInv => TypeOK
  BY DEF AccessInv, SessionsProper, Proper, Places, GrantsProper, IngestsProper, Loading,
         UserRows, Mails, TypeOK
<1> QED BY AccessAlways, <1>1, PTL

(* The filters of _execute_search, rules_for and collect_grounding stand   *)
(* inside their statements: a row the caller may not read changes nothing  *)
(* of the answer, for any documents, scores, questions and groups.         *)
THEOREM SearchesBlind == Spec => []SearchBlind
<1>1. AccessInv => SearchBlind
  BY AllBlind DEF AccessInv, SearchBlind, BlindDatabases
<1> QED BY AccessAlways, <1>1, PTL

(* Copies of a clause with one heading have one rank, so the newest comes  *)
(* first of them in the ORDER BY and is not cut off before another one;    *)
(* copies under other headings may rank anyhow, but _dedupe_by_content_hash*)
(* keeps the newest of those that were fetched.                            *)
THEOREM NewestCopiesShown == Spec => []NewestCopyShown
<1>1. AccessInv => NewestCopyShown
  BY AllCurrent DEF AccessInv, NewestCopyShown, CurrentDatabases
<1> QED BY AccessAlways, <1>1, PTL

(* Search, chunk tool, chunk route, listing and rule look-up each spell    *)
(* out the access filter; they come to the same set of readable documents. *)
THEOREM SurfacesAlwaysAgree == Spec => []SurfacesAgree
<1>1. AccessInv => SurfacesAgree
  BY AllAgreeing DEF AccessInv, SurfacesAgree, AgreeingDatabases
<1> QED BY AccessAlways, <1>1, PTL

-----------------------------------------------------------------------------
(* One ingestion at a time.                                                *)
OneIngester == \A i, j \in Ingesters : i = j

(* What it has loaded is what is there.                                    *)
LoadedFresh ==
  \A i \in Ingesters : ingests[i] # Idle =>
    \A d \in DOMAIN ingests[i].release : ingests[i].existing[d] = docs[d]

LEMMA StepKeepsEditions ==
  ASSUME OneIngester, AccessInv, LoadedFresh, EditionsWhole, [Next]_vars
  PROVE  LoadedFresh' /\ EditionsWhole'
<1>1. CASE \E i \in Ingesters, p \in Projects : StartIngest(i, p)
  <2>1. docs' = docs
    BY <1>1 DEF StartIngest
  <2>2. LoadedFresh'
    BY <1>1, <2>1, StartIngestFacts DEF LoadedFresh
  <2> QED BY <2>1, <2>2 DEF EditionsWhole, Editions
<1>2. CASE \E i \in Ingesters : AbandonIngest(i)
  <2>1. PICK i \in Ingesters : AbandonIngest(i)
    BY <1>2
  <2>2. docs' = docs /\ \A j \in Ingesters : ingests'[j] = Idle
    BY <2>1 DEF AbandonIngest, OneIngester, AccessInv, IngestsProper
  <2> QED BY <2>2 DEF EditionsWhole, LoadedFresh, Editions
<1>3. CASE \E i \in Ingesters : CommitIngest(i)
  <2>1. PICK i \in Ingesters : CommitIngest(i)
    BY <1>3
  <2> DEFINE job == ingests[i]
             r == job.release
  <2>2. \A j \in Ingesters : ingests'[j] = Idle
    BY <2>1 DEF CommitIngest, OneIngester, AccessInv, IngestsProper
  <2>3. Loading(job) /\ \A d \in DOMAIN r : job.existing[d] = docs[d]
    BY <2>1 DEF CommitIngest, AccessInv, IngestsProper, LoadedFresh
  <2>4. docs' = [d \in DocIds |-> IF d \in DOMAIN r THEN Written(job.existing[d], r[d], docs[d]) ELSE docs[d]]
    BY <2>1 DEF CommitIngest
  <2>5. \A d \in DOMAIN r : r[d] \in Editions(d)
    BY <2>3 DEF Loading, Editions
  <2> HIDE DEF job
  <2>6. ASSUME NEW d \in DocIds
        PROVE  docs'[d] \in {Absent} \cup Editions(d)
    <3>1. docs[d] \in {Absent} \cup Editions(d)
      BY DEF EditionsWhole
    <3>2. CASE d \in DOMAIN r
      <4>1. docs'[d] = Written(docs[d], r[d], docs[d])
        BY <2>3, <2>4, <3>2
      <4> QED BY <2>5, <3>1, <3>2, <4>1, WrittenWhole
    <3>3. CASE d \notin DOMAIN r
      BY <2>4, <3>1, <3>3
    <3> QED BY <3>2, <3>3
  <2> QED BY <2>2, <2>6 DEF EditionsWhole, LoadedFresh, Editions
<1>4. CASE UNCHANGED <<docs, ingests>>
  BY <1>4 DEF EditionsWhole, LoadedFresh, Editions
<1>5. ASSUME NEW s \in Sessions, Advance(s) \/ ToolFails(s) \/ EndJob(s) \/ CutOff(s)
      PROVE  UNCHANGED <<docs, ingests>>
  BY <1>5 DEF Advance, CheckOwner, List, ReadRow, ReadChunks, ReadChunk, AndStage, OrStage,
              LookUpRules, ToolReturns, ToolFails, EndJob, CutOff, Finish
<1> QED BY <1>1, <1>2, <1>3, <1>4, <1>5 DEF Next, vars, Begin, StartJob, Invoke, GrantRead, GrantWrite

(* With one ingestion at a time, the rows it updates are those it compared *)
(* with, so that the columns it leaves alone are those of the new edition  *)
(* as well, and a document it skips stays the edition it was.              *)
THEOREM EditionsStayWhole == ASSUME OneIngester PROVE Spec => []EditionsWhole
<1>1. Init => LoadedFresh /\ EditionsWhole
  BY DEF Init, LoadedFresh, EditionsWhole
<1>2. AccessInv /\ LoadedFresh /\ EditionsWhole /\ [Next]_vars => (LoadedFresh /\ EditionsWhole)'
  BY OneIngester, StepKeepsEditions
<1> QED BY AccessAlways, <1>1, <1>2, PTL DEF Spec

-----------------------------------------------------------------------------
(* One seed command at a time: two at once read the same list and each     *)
(* writes it back, so that the later one takes away the group of the other.*)
OneSeed == \A o, p \in Seeds : o = p

(* A grant writes back what is stored.                                     *)
GrantsFresh ==
  \A o \in Seeds : grants[o] # Idle => grants[o].groups = users[grants[o].user].groups

(* With one seed command no step takes a group from a user.                *)
LEMMA UsersGrow ==
  ASSUME OneSeed, AccessInv, GrantsFresh, [Next]_vars
  PROVE  /\ \A u \in Users : /\ users[u].groups \subseteq users'[u].groups
                             /\ users[u].known => users'[u].known
                             /\ users[u].email # NoEmail => users'[u].email # NoEmail
         /\ GrantsFresh'
<1>1. CASE \E s \in Sessions : Finish(s)
  <2>1. PICK s \in Sessions : Finish(s)
    BY <1>1
  <2>2. /\ \A u \in Users : /\ users'[u].groups = users[u].groups
                            /\ users[u].known => users'[u].known
                            /\ users[u].email # NoEmail => users'[u].email # NoEmail
        /\ grants' = grants
    BY <2>1, FinishFacts DEF Finish
  <2>3. \A o \in Seeds : grants[o] # Idle => grants[o].user \in Users
    BY DEF AccessInv, GrantsProper
  <2>4. GrantsFresh'
    BY <2>2, <2>3 DEF GrantsFresh
  <2> QED BY <2>2, <2>4
<1>2. CASE \E o \in Seeds : GrantWrite(o)
  <2>1. PICK o \in Seeds : GrantWrite(o)
    BY <1>2
  <2>2. grants[o] # Idle /\ grants[o].groups = users[grants[o].user].groups
    BY <2>1 DEF GrantWrite, GrantsFresh
  <2>3. GrantsFresh'
    BY <2>1, GrantWriteFacts DEF OneSeed, GrantsFresh
  <2> QED BY <2>1, <2>2, <2>3, GrantWriteFacts
<1>3. CASE \E o \in Seeds, u \in Users, g \in Groups : GrantRead(o, u, g)
  <2>1. PICK o \in Seeds, u \in Users, g \in Groups : GrantRead(o, u, g)
    BY <1>3
  <2> DEFINE x == [at |-> "read", user |-> u, group |-> g, groups |-> users[u].groups]
  <2>2. users' = users /\ grants' = [grants EXCEPT ![o] = x] /\ DOMAIN grants = Seeds
    BY <2>1 DEF GrantRead, AccessInv, GrantsProper
  <2>3. x.groups = users[x.user].groups
    OBVIOUS
  <2> HIDE DEF x
  <2>4. \A n \in Seeds : grants'[n] = IF n = o THEN x ELSE grants[n]
    BY <2>2
  <2> QED BY <2>2, <2>3, <2>4 DEF GrantsFresh
<1>4. CASE UNCHANGED <<users, grants>>
  BY <1>4 DEF GrantsFresh
<1>5. ASSUME NEW s \in Sessions, Advance(s) \/ ToolFails(s) \/ EndJob(s) \/ CutOff(s), ~Finish(s)
      PROVE  UNCHANGED <<users, grants>>
  BY <1>5 DEF Advance, CheckOwner, List, ReadRow, ReadChunks, ReadChunk, AndStage, OrStage,
              LookUpRules, ToolReturns, ToolFails, EndJob, CutOff
<1> QED BY <1>1, <1>2, <1>3, <1>4, <1>5 DEF Next, vars, Begin, StartJob, Invoke, StartIngest,
                                             CommitIngest, AbandonIngest

(* With one seed command at a time, neither upsert_from_principal nor the  *)
(* whole list that --grant-user writes back takes away what a user has.    *)
THEOREM GrantsAreKept == ASSUME OneSeed PROVE Spec => GrantsKept
<1>1. Init => GrantsFresh
  BY DEF Init, GrantsFresh
<1>2. AccessInv /\ GrantsFresh /\ [Next]_vars => GrantsFresh'
  BY OneSeed, UsersGrow
<1>3. AccessInv /\ GrantsFresh /\ [Next]_vars =>
        [\A u \in Users : /\ users[u].groups \subseteq users'[u].groups
                          /\ users[u].known => users'[u].known
                          /\ users[u].email # NoEmail => users'[u].email # NoEmail]_vars
  BY OneSeed, UsersGrow
<1> QED BY AccessAlways, <1>1, <1>2, <1>3, PTL DEF Spec, GrantsKept
=============================================================================
