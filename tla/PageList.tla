------------------------------ MODULE PageList ------------------------------
(***************************************************************************)
(* class PageList of src/src/protocols/s3/fdcache.{h,cpp}: the list of     *)
(* pages [offset, bytes, loaded] that says which parts of an object are    *)
(* already in the local cache file.  The methods are pure operators on a   *)
(* sequence of pages; the state machine below applies the mutating ones in *)
(* any order.  PageMap is the abstract specification.                      *)
(***************************************************************************)
EXTENDS Naturals, SequencesExt

CONSTANT MaxSize            \* bound on the size of a file, in bytes

ASSUME PageListSize == MaxSize \in Nat \ {0}

VARIABLES
    pages,                  \* fdpage_list_t pages
    call                    \* the method called last, with its arguments

\* struct fdpage
Page == [offset : 0 .. MaxSize, bytes : 0 .. MaxSize, loaded : BOOLEAN]
fdpage(offset, bytes, loaded) ==
    [offset |-> offset, bytes |-> bytes, loaded |-> loaded]
next(p) == p.offset + p.bytes
end(p) == IF 0 < p.bytes THEN p.offset + p.bytes - 1 ELSE 0
-----------------------------------------------------------------------------
\* PageList::Init and PageList::Size
InitList(size, is_loaded) == << fdpage(0, size, is_loaded) >>
ListSize(ps) == IF ps = <<>> THEN 0 ELSE next(Last(ps))

\* Faulty: nothing is merged.
CompressNothing(ps) == ps

\* PageList::Compress merges each page into the one before it when both have
\* the same loaded flag.
Merge(done, p) ==
    IF done # <<>> /\ Last(done).loaded = p.loaded
    THEN [done EXCEPT ![Len(done)].bytes = @ + p.bytes]
    ELSE Append(done, p)

Compress(ps) ==
    LET merged[n \in 0 .. Len(ps)] == IF n = 0 THEN <<>> ELSE Merge(merged[n - 1], ps[n])
    IN  merged[Len(ps)]

\* Faulty: the page is not split.
ParseNothing(ps, new_pos) == ps

\* PageList::Parse splits the page that contains new_pos, if it is not already
\* the first byte of a page.
Parse(ps, new_pos) ==
    LET i == SelectInSeq(ps, LAMBDA p : \/ new_pos = p.offset
                                        \/ p.offset < new_pos /\ new_pos < next(p))
    IN  IF i = 0 \/ ps[i].offset = new_pos
        THEN ps
        ELSE LET left  == fdpage(ps[i].offset, new_pos - ps[i].offset, ps[i].loaded)
                 right == fdpage(new_pos, next(ps[i]) - new_pos, ps[i].loaded)
             IN  InsertAt(ReplaceAt(ps, i, right), i, left)

\* The loop of PageList::Resize that cuts the area at and after size.
Cut(done, p, size) ==
    IF next(p) <= size THEN Append(done, p)
    ELSE IF size <= p.offset THEN done
    ELSE Append(done, fdpage(p.offset, size - p.offset, p.loaded))

CutArea(ps, size) ==
    LET cut[n \in 0 .. Len(ps)] == IF n = 0 THEN <<>> ELSE Cut(cut[n - 1], ps[n], size)
    IN  cut[Len(ps)]

\* Faulty: the appended page is as long as the file.
ResizeTooFar(ps, size, is_loaded) ==
    LET total == ListSize(ps)
    IN  IF total < size THEN Append(ps, fdpage(total, size, is_loaded)) ELSE CutArea(ps, size)

\* PageList::Resize
Resize(ps, size, is_loaded) ==
    LET total == ListSize(ps)
    IN  Compress(CASE total = 0    -> InitList(size, is_loaded)
                   [] total # 0 /\ total < size ->
                        Append(ps, fdpage(total, size - total, is_loaded))
                   [] size < total -> CutArea(ps, size)
                   [] OTHER        -> ps)

\* The loop of PageList::SetPageLoadedStatus, after both ends were split.
Mark(ps, start, size, is_loaded) ==
    [i \in DOMAIN ps |-> IF end(ps[i]) < start \/ start + size <= ps[i].offset THEN ps[i]
                         ELSE fdpage(ps[i].offset, ps[i].bytes, is_loaded)]

\* PageList::SetPageLoadedStatus, with the default is_compress = true that all
\* its callers use.
SetPageLoadedStatus(ps, start, size, is_loaded) ==
    LET now_size == ListSize(ps)
    IN  Compress(
          IF now_size <= start
          THEN Resize(IF now_size < start THEN Resize(ps, start, FALSE) ELSE ps,
                      start + size, is_loaded)
          ELSE IF now_size <= start + size
          THEN Resize(Resize(ps, start, FALSE), start + size, is_loaded)
          ELSE Mark(Parse(Parse(ps, start), start + size), start, size, is_loaded))
-----------------------------------------------------------------------------
\* PageList::IsPageLoaded: the loop stops at the page that reaches the end of
\* the range, if there is a range.
IsPageLoaded(ps, start, size) ==
    LET stop == SelectInSeq(ps, LAMBDA p : /\ ~ (end(p) < start)
                                           /\ size # 0 /\ start + size <= next(p))
    IN  \A i \in DOMAIN ps :
            (~ (end(ps[i]) < start) /\ (stop = 0 \/ i <= stop)) => ps[i].loaded

\* Faulty: a page that starts before start is passed over.
FindLaterPage(ps, start) == SelectInSeq(ps, LAMBDA p : start <= p.offset /\ ~ p.loaded)

\* PageList::FindUnloadedPage: 0 when there is none, else the page's index.
FindUnloadedPage(ps, start) ==
    SelectInSeq(ps, LAMBDA p : start <= end(p) /\ ~ p.loaded)

\* Both loops below go on to the first page at or after stop, and pass over
\* loaded pages and those before start.
Seen(ps, start, stop) ==
    LET out == SelectInSeq(ps, LAMBDA p : start < next(p) /\ stop <= p.offset)
    IN  IF out = 0 THEN Len(ps) ELSE out - 1

Passed(p, start) == next(p) <= start \/ p.loaded

\* Faulty: the page is not cut at the end of the range.
ClipStart(p, start, stop) ==
    LET from == IF p.offset < start THEN start ELSE p.offset
    IN  fdpage(from, next(p) - from, FALSE)

Clip(p, start, stop) ==
    LET from == IF p.offset < start THEN start ELSE p.offset
        to   == IF next(p) < stop THEN next(p) ELSE stop
    IN  fdpage(from, to - from, FALSE)

\* PageList::GetTotalUnloadedPageSize.  Unlike GetUnloadedPages it has no case
\* for size = 0.
Count(restsize, p, start, stop) ==
    IF Passed(p, start) THEN restsize ELSE restsize + Clip(p, start, stop).bytes

GetTotalUnloadedPageSize(ps, start, size) ==
    LET seen == Seen(ps, start, start + size)
        restsize[n \in 0 .. seen] ==
            IF n = 0 THEN 0 ELSE Count(restsize[n - 1], ps[n], start, start + size)
    IN  restsize[seen]

\* PageList::GetUnloadedPages, with its merging of neighbours.
Add(done, p, start, stop) ==
    LET c == Clip(p, start, stop)
    IN  IF Passed(p, start) THEN done
        ELSE IF done # <<>> /\ next(Last(done)) = c.offset
        THEN [done EXCEPT ![Len(done)].bytes = @ + c.bytes]
        ELSE Append(done, c)

GetUnloadedPages(ps, start, size) ==
    LET stop == IF size = 0 /\ start < ListSize(ps) THEN ListSize(ps) ELSE start + size
        seen == Seen(ps, start, stop)
        unloaded_list[n \in 0 .. seen] ==
            IF n = 0 THEN <<>> ELSE Add(unloaded_list[n - 1], ps[n], start, stop)
    IN  unloaded_list[seen]
-----------------------------------------------------------------------------
Called(method, start, size, is_loaded) == call' = << method, start, size, is_loaded >>

\* PageList::PageList()
Init == pages = InitList(0, FALSE) /\ call = << "PageList", 0, 0, FALSE >>

Reinit ==
    \E size \in 0 .. MaxSize, is_loaded \in BOOLEAN :
        /\ Called("Init", 0, size, is_loaded)
        /\ pages' = InitList(size, is_loaded)

ResizeTo ==
    \E size \in 0 .. MaxSize, is_loaded \in BOOLEAN :
        /\ Called("Resize", 0, size, is_loaded)
        /\ pages' = Resize(pages, size, is_loaded)

SetStatus ==
    \E start, size \in 0 .. MaxSize, is_loaded \in BOOLEAN :
        /\ start + size <= MaxSize
        /\ Called("SetPageLoadedStatus", start, size, is_loaded)
        /\ pages' = SetPageLoadedStatus(pages, start, size, is_loaded)

Next == Reinit \/ ResizeTo \/ SetStatus

Spec == Init /\ [][Next]_<< pages, call >>
-----------------------------------------------------------------------------
\* The offsets the list says are loaded, or are not.
Covered(ps, flag) ==
    UNION {p.offset .. (next(p) - 1) : p \in {q \in ToSet(ps) : q.bytes > 0 /\ q.loaded = flag}}

\* The type invariant.
TypeOK ==
    /\ pages \in Seq(Page)
    /\ ListSize(pages) <= MaxSize

(***************************************************************************)
(* The pages tile the file: the first starts at 0, each starts where the   *)
(* one before it ends, only an empty file has an empty page, and neighbours *)
(* differ in their flag (Compress leaves nothing to merge).  Every method  *)
(* of PageList relies on this without checking it.                         *)
(***************************************************************************)
Tiled ==
    /\ pages # <<>> => pages[1].offset = 0
    /\ \A i \in DOMAIN pages \ {1} :
          /\ pages[i].offset = next(pages[i - 1])
          /\ pages[i].loaded # pages[i - 1].loaded
    /\ \A i \in DOMAIN pages : pages[i].bytes = 0 => ListSize(pages) = 0

(***************************************************************************)
(* The query FdEntity::Load downloads from: GetUnloadedPages returns, in   *)
(* order, the maximal runs of unloaded bytes of the range (to the end of   *)
(* the file when size is 0), and nothing else.                             *)
(***************************************************************************)
UnloadedPagesExact ==
    \A start, size \in 0 .. MaxSize :
      LET stop == IF size = 0 THEN ListSize(pages) ELSE start + size
          res  == GetUnloadedPages(pages, start, size)
      IN  /\ Covered(res, FALSE) = {i \in Covered(pages, FALSE) : start <= i /\ i < stop}
          /\ \A i \in DOMAIN res : res[i].bytes > 0
          /\ \A i \in DOMAIN res \ {1} : next(res[i - 1]) < res[i].offset

(***************************************************************************)
(* For a non-empty range, GetTotalUnloadedPageSize counts exactly the bytes *)
(* FdEntity::Read and Write have to reserve disk space for, IsPageLoaded   *)
(* says whether there are any and FindUnloadedPage finds the first page    *)
(* that has one.                                                           *)
(***************************************************************************)
CountsAgree ==
    \A start \in 0 .. MaxSize, size \in 1 .. MaxSize :
      LET missing == {i \in Covered(pages, FALSE) : start <= i /\ i < start + size}
          later   == {i \in Covered(pages, FALSE) : start <= i}
          found   == FindUnloadedPage(pages, start)
      IN  /\ GetTotalUnloadedPageSize(pages, start, size) = Cardinality(missing)
          /\ ListSize(pages) > 0 =>
                /\ IsPageLoaded(pages, start, size) = (missing = {})
                /\ (found = 0) = (later = {})
                /\ found # 0 => Min(later) \in pages[found].offset .. end(pages[found])

\* The list is seen through PageMap as its size and its loaded offsets.
Abstract == INSTANCE PageMap
              WITH map <- [size |-> ListSize(pages), loaded |-> Covered(pages, TRUE)]

(***************************************************************************)
(* The list implements the map: Init, Resize and SetPageLoadedStatus do to *)
(* the bytes exactly what their abstract counterparts do with the same     *)
(* arguments.                                                              *)
(***************************************************************************)
ImplementsPageMap == Abstract!Spec
=============================================================================
