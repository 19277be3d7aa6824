------------------------------- MODULE MCWire -------------------------------
(***************************************************************************)
(* Calls for Wire: one of each shape, with the escape byte in the data of  *)
(* LOAD_TASK and SET_MEMORY.                                               *)
(***************************************************************************)
EXTENDS Wire

Call(type, id, data, heap) ==
    [type |-> type, id |-> id, data |-> data, heap |-> heap, len |-> 0]

Ping    == Call(PING, 0, <<33>>, <<>>)
Offsets == Call(GET_OFFSETS, 0, <<>>, <<>>)
Builtins == Call(GET_BUILTIN_LOCATIONS, 0, <<>>, <<>>)
Load    == Call(LOAD_TASK, 0, <<255>>, <<255, 7>>)
Start   == Call(START_TASK, 1, <<>>, <<>>)
Inspect == Call(INSPECT_TASK, 1, <<>>, <<>>)
Poke    == Call(SET_MEMORY, 342, <<255>>, <<>>)
Dump    == [Call(GET_MEMORY, 256, <<>>, <<>>) EXCEPT !.len = 2]
Edge    == [Call(GET_MEMORY, 65535, <<>>, <<>>) EXCEPT !.len = 2]
Typed   == Call(DATA, 0, <<65>>, <<>>)
Escape  == Call(DATA, 0, <<255>>, <<>>)
Far     == Call(START_TASK, 300, <<>>, <<>>)
Past    == Call(STOP_TASK, 5, <<>>, <<>>)
Pings   == Call(PING, 0, <<33, 33>>, <<>>)
Beyond  == Call(SET_MEMORY, 65536, <<>>, <<>>)
Across  == Call(SET_MEMORY, 65535, <<255>>, <<>>)

MCCalls == {Ping, Builtins, Load, Start, Inspect, Poke, Dump, Edge, Typed,
            Escape, Far, Past, Pings, Beyond, Across}

\* A valid call of a client that has just been made.
MCStartOnly == {Start}

=============================================================================
