------------------------------- MODULE PageMap -------------------------------
(***************************************************************************)
(* The abstract specification of PageList: the three methods that change   *)
(* the list, as operations on the page map.                                *)
(***************************************************************************)
EXTENDS PageMapOps

VARIABLES
    map,                    \* the page map
    call                    \* the method called last, with its arguments

Called(method, start, size, is_loaded) == call' = << method, start, size, is_loaded >>

Init == map = MapInit(0, FALSE) /\ call = << "PageList", 0, 0, FALSE >>

Reinit ==
    \E size \in Size, is_loaded \in BOOLEAN :
        /\ Called("Init", 0, size, is_loaded)
        /\ map' = MapInit(size, is_loaded)

ResizeTo ==
    \E size \in Size, is_loaded \in BOOLEAN :
        /\ Called("Resize", 0, size, is_loaded)
        /\ map' = MapResize(map, size, is_loaded)

SetStatus ==
    \E start, size \in Size, is_loaded \in BOOLEAN :
        /\ start + size <= MaxSize
        /\ Called("SetPageLoadedStatus", start, size, is_loaded)
        /\ map' = MapSet(map, start, size, is_loaded)

Next == Reinit \/ ResizeTo \/ SetStatus

Spec == Init /\ [][Next]_<< map, call >>
=============================================================================
