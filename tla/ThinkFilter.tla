----------------------------- MODULE ThinkFilter ------------------------------
(***************************************************************************)
(* thinkFilter of src/providers/openai.go: what a model says between       *)
(* <think> and </think> goes to a thinking block, the rest to a text       *)
(* block, although a tag may be split over chunks.  Text is a sequence of  *)
(* letters; the tags are any two words.                                    *)
(***************************************************************************)
EXTENDS Naturals, Sequences, FiniteSetsExt, SequencesExt

CONSTANTS
  Letters,
  OpenTag, CloseTag

ASSUME TagAssumption ==
  /\ OpenTag \in Seq(Letters) /\ OpenTag # <<>>
  /\ CloseTag \in Seq(Letters) /\ CloseTag # <<>>

Tag(inThink) == IF inThink THEN CloseTag ELSE OpenTag

DropFirst(s, n) == SubSeq(s, n + 1, Len(s))

\* Where a word stands in a text.
Occurrences(s, word) ==
  {i \in 1..Len(s) : IsPrefix(word, DropFirst(s, i - 1))}

\* Mutant of PartialTagOverlap: the longest suffix that is looked at is one short.
PartialTagOverlapShort(s, tag) ==
  Max({l \in 0..Min({Len(tag) - 2, Len(s)}) : IsSuffix(SubSeq(tag, 1, l), s)})

\* The length of the longest suffix of s that a tag may begin with.
PartialTagOverlap(s, tag) ==
  Max({l \in 0..Min({Len(tag) - 1, Len(s)}) : IsSuffix(SubSeq(tag, 1, l), s)})

\* s comes first in the text, or in the thinking, of a result.
Prepend(inThink, s, result) ==
  IF inThink THEN [result EXCEPT !.think = s \o @] ELSE [result EXCEPT !.text = s \o @]

\* What process makes of the partial tag it kept and a chunk together, outside
\* of a thinking block and inside of one.
Process[buf \in Seq(Letters)] ==
  [inThink \in BOOLEAN |->
    LET tag   == Tag(inThink)
        at    == Occurrences(buf, tag)
        whole == Len(buf) - PartialTagOverlap(buf, tag)
    IN  IF at # {}
        THEN Prepend(inThink, SubSeq(buf, 1, Min(at) - 1),
                     Process[DropFirst(buf, Min(at) - 1 + Len(tag))][~inThink])
        ELSE Prepend(inThink, SubSeq(buf, 1, whole),
                     [text |-> <<>>, think |-> <<>>, inThink |-> inThink,
                      partial |-> DropFirst(buf, whole)])]

-------------------------------------------------------------------------------
\* What a whole text means, letter by letter and without chunks.
Meaning[s \in Seq(Letters)] ==
  [inThink \in BOOLEAN |->
    IF s = <<>> THEN [text |-> <<>>, think |-> <<>>]
    ELSE IF IsPrefix(Tag(inThink), s)
         THEN Meaning[DropFirst(s, Len(Tag(inThink)))][~inThink]
         ELSE Prepend(inThink, <<Head(s)>>, Meaning[Tail(s)][inThink])]
===============================================================================
