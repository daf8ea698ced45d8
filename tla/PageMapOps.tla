----------------------------- MODULE PageMapOps -----------------------------
(***************************************************************************)
(* The page map: the size of a cached file and the set of byte offsets     *)
(* whose content is already in the local cache file.  It is what class     *)
(* PageList (src/src/protocols/s3/fdcache.h) promises, without the linked  *)
(* list.  PageMap.tla is its specification, PageList.tla shows that the    *)
(* list implements it, FdEntity.tla keeps the map itself as its state.     *)
(***************************************************************************)
EXTENDS Integers

CONSTANT MaxSize            \* bound on the size of a file, in bytes

ASSUME MaxSizeAssumption == MaxSize \in Nat \ {0}

Offset == 0 .. MaxSize - 1
Size == 0 .. MaxSize

\* The offsets start, start + 1, ..., start + len - 1.
Span(start, len) == {i \in Offset : start <= i /\ i < start + len}

PageMaps == {m \in [size : Size, loaded : SUBSET Offset] :
                 m.loaded \subseteq Span(0, m.size)}

\* PageList::Init
MapInit(size, is_loaded) ==
    [size |-> size, loaded |-> IF is_loaded THEN Span(0, size) ELSE {}]

\* Faulty: the cut area stays loaded.
MapResizeUncut(m, size, is_loaded) == [size |-> size, loaded |-> m.loaded]

\* PageList::Resize: a new area gets the flag, a cut area is forgotten.
MapResize(m, size, is_loaded) ==
    [size |-> size,
     loaded |-> {i \in Span(0, size) : IF i < m.size THEN i \in m.loaded ELSE is_loaded}]

\* PageList::SetPageLoadedStatus: the area gets the flag, a gap before it is
\* not loaded, the file grows to its end.
MapSet(m, start, len, is_loaded) ==
    [size |-> IF m.size < start + len THEN start + len ELSE m.size,
     loaded |-> IF is_loaded THEN m.loaded \cup Span(start, len)
                             ELSE m.loaded \ Span(start, len)]

\* PageList::GetUnloadedPages: the bytes of the area that exist in the file
\* and are not loaded.
Unloaded(m, start, len) == (Span(0, m.size) \cap Span(start, len)) \ m.loaded
=============================================================================
