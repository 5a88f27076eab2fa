------------------------------- MODULE Segments -------------------------------
(***************************************************************************)
(* Where the bytes of shared memory are.  ShmManager's constructor maps    *)
(* the physical segments and cuts each into internal ones; a segment that  *)
(* is handed out is a FragmentedShmSegment, a list of internal segments    *)
(* that is read and written as if it were one.                             *)
(*                                                                         *)
(* A geometry is what ShmManager::init is given: how many physical         *)
(* segments, their size, and that of an internal one.  The first two come  *)
(* from ints of a command line, so they may be zero or (as a size_t)       *)
(* absurdly large, here: negative.                                         *)
(***************************************************************************)
EXTENDS Integers, Sequences, SequencesExt

Geometry(num, size, rep) == [num |-> num, size |-> size, rep |-> rep]

\* The bitmap has one entry for each internal segment that fits in the bytes of
\* all physical segments together.
NumInternalSegments(g) == (g.num * g.size) \div g.rep

\* The segments that are made: each physical one is cut from its start, the
\* last piece whole even if it goes past the end.
PerPhysical(g) == (g.size + g.rep - 1) \div g.rep
ShmSegments(g) ==
  [k \in 1..(g.num * PerPhysical(g)) |->
     [id |-> k - 1, physical |-> (k - 1) \div PerPhysical(g),
      addr |-> g.rep * ((k - 1) % PerPhysical(g)), size |-> g.rep]]

\* (Seeded fault: the vector has room for the pieces that are really made.)
ReservedAsMade(g) == Len(ShmSegments(g))

\* What the vector of segments is reserved for.
Reserved(g) == NumInternalSegments(g)

\* A vector that grows beyond its reservation destroys the elements it has
\* copied, and ~ContiguousShmSegment asks for the ShmManager that is still being
\* constructed: it throws out of a destructor.
Regrows(g) == Len(ShmSegments(g)) > Reserved(g) /\ Len(ShmSegments(g)) > 1

\* The constructor does not throw.  Without segments nothing is mapped;
\* ftruncate and mmap fail for sizes that are not positive, and no vector has
\* a negative number of elements.
Constructs(g) == \/ g.num = 0
                 \/ g.num > 0 /\ g.size > 0 /\ ~Regrows(g)
-----------------------------------------------------------------------------
(* Memory: physical segment and offset -> byte *)

\* ContiguousShmSegment::write and read, for what fits.
WriteContiguous(mem, segment, data, offset) ==
  [a \in DOMAIN mem |->
     LET k == a[2] - segment.addr - offset
     IN IF a[1] = segment.physical /\ k \in 0..(Len(data) - 1) THEN data[k + 1] ELSE mem[a]]
ReadContiguous(mem, segment, dataSize, offset) ==
  [k \in 1..dataSize |-> mem[<<segment.physical, segment.addr + offset + k - 1>>]]

\* FragmentedShmSegment's constructor: the size is the sum of its parts'.
FragmentedSize(segments) == FoldLeft(LAMBDA n, s : n + s.size, 0, segments)

Fits(segments, dataSize, offset) == offset + dataSize <= FragmentedSize(segments)

Smaller(m, n) == IF m <= n THEN m ELSE n

\* (Seeded fault: the offset is applied to every segment.)
WriteStepSameOffset(todo, segment) ==
  IF todo.data = << >> THEN todo
  ELSE IF todo.offset >= segment.size THEN [todo EXCEPT !.offset = @ - segment.size]
  ELSE LET n == Smaller(segment.size - todo.offset, Len(todo.data))
       IN [todo EXCEPT !.mem = WriteContiguous(@, segment, SubSeq(todo.data, 1, n), todo.offset),
                       !.data = SubSeq(@, n + 1, Len(@))]

\* The loops over the segments: the offset is used up first, then the data.
WriteStep(todo, segment) ==
  IF todo.data = << >> THEN todo
  ELSE IF todo.offset >= segment.size THEN [todo EXCEPT !.offset = @ - segment.size]
  ELSE LET n == Smaller(segment.size - todo.offset, Len(todo.data))
       IN [mem |-> WriteContiguous(todo.mem, segment, SubSeq(todo.data, 1, n), todo.offset),
           data |-> SubSeq(todo.data, n + 1, Len(todo.data)), offset |-> 0]
WriteFragmented(mem, segments, data, offset) ==
  FoldLeft(WriteStep, [mem |-> mem, data |-> data, offset |-> offset], segments).mem

ReadStep(mem, todo, segment) ==
  IF todo.dataSize = 0 THEN todo
  ELSE IF todo.offset >= segment.size THEN [todo EXCEPT !.offset = @ - segment.size]
  ELSE LET n == Smaller(segment.size - todo.offset, todo.dataSize)
       IN [data |-> todo.data \o ReadContiguous(mem, segment, n, todo.offset),
           dataSize |-> todo.dataSize - n, offset |-> 0]
ReadFragmented(mem, segments, dataSize, offset) ==
  FoldLeft(LAMBDA todo, segment : ReadStep(mem, todo, segment),
           [data |-> << >>, dataSize |-> dataSize, offset |-> offset], segments).data

\* getSegmentIds of a fragmented segment, and getShmSegment(ids) of the other
\* process, which finds the same segments by their ids.
SegmentIdsOf(segments) == [k \in DOMAIN segments |-> segments[k].id]
SegmentsOf(g, ids) == [k \in DOMAIN ids |-> ShmSegments(g)[ids[k] + 1]]
===============================================================================
