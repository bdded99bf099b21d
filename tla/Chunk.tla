-------------------------------- MODULE Chunk -------------------------------
(* internal/content/content.go: the window that Chunk cuts out of a text.    *)
(* A text is the sequence of its runes, of which only "is a newline" counts; *)
(* positions are counted from 0.                                             *)
EXTENDS MachineInt, Sequences

IsNewline(runes, i) == runes[i + 1]

\* runes[low:high]: a slice in order, or the panic of one that is not.
Slice(low, high) ==
    IF low <= high THEN [tag |-> "slice", from |-> low, to |-> high] ELSE [tag |-> "panic"]

Blank(runes, i) == IsNewline(runes, i) /\ IsNewline(runes, i + 1)

\* Where a cut may end: after the last blank line from low on or, if no line is
\* blank, after the last line.
Boundary(runes, low, end) ==
    {i + 2 : i \in {i \in low .. end - 2 :
        Blank(runes, i) /\ \A j \in i + 1 .. end - 2 : ~Blank(runes, j)}}
    \cup
    {i + 1 : i \in {i \in low .. end - 1 :
        /\ IsNewline(runes, i) /\ \A j \in i + 1 .. end - 1 : ~IsNewline(runes, j)
        /\ \A j \in low .. end - 2 : ~Blank(runes, j)}}

\* The end of the window if it is cut, where that is worth it, at one of cuts.
SnappedTo(cuts, end) == IF cuts = {} THEN end ELSE CHOOSE b \in cuts : TRUE

\* Seeded fault: the scan goes on to the newline that ended the previous chunk.
snapBoundaryTooFar(runes, start, end, maxLength) ==
    IF end >= Len(runes) \/ maxLength <= 0
      THEN end
      ELSE SnappedTo({b \in Boundary(runes, IF start > 0 THEN start - 1 ELSE 0, end) :
                         b - start >= maxLength \div 2}, end)

\* Seeded fault: the cut is made however little it leaves.
snapBoundaryAlways(runes, start, end, maxLength) ==
    IF end >= Len(runes) \/ maxLength <= 0
      THEN end
      ELSE SnappedTo(Boundary(runes, start, end), end)

snapBoundary(runes, start, end, maxLength) ==
    IF end >= Len(runes) \/ maxLength <= 0
      THEN end
      ELSE SnappedTo({b \in Boundary(runes, start, end) : b - start >= maxLength \div 2}, end)

Start(runes, startIndex) ==
    IF startIndex > Len(runes) THEN Len(runes) ELSE IF startIndex < 0 THEN 0 ELSE startIndex

End(runes, start, maxLength) ==
    IF Wrap(start + maxLength) > Len(runes) THEN Len(runes) ELSE Wrap(start + maxLength)

\* Seeded fault: a newline at the start of the window is dropped.
ChunkTrimmed(runes, startIndex, maxLength) ==
    LET start == Start(runes, startIndex)
        end == End(runes, start, maxLength)
    IN  Slice(IF start < end /\ IsNewline(runes, start) THEN start + 1 ELSE start,
              snapBoundary(runes, start, end, maxLength))

\* Nothing but the final slice can go wrong (if the sum wraps to the least
\* integers it is an index of snapBoundary that does: the same panic).
ChunkOf(runes, startIndex, maxLength) ==
    LET start == Start(runes, startIndex)
    IN  Slice(start, snapBoundary(runes, start, End(runes, start, maxLength), maxLength))
=============================================================================
