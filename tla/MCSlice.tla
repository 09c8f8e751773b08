------------------------------ MODULE MCSlice -------------------------------
(* The functions sliced and executed in the run: a few control-flow graphs *)
(* of four blocks, and every choice of instructions from a given set in the *)
(* two blocks next to the branch.                                           *)
EXTENDS SliceRun

TwoRegs    == {"a", "b"}
FourBlocks == {"top", "head", "mid", "tail"}

Plain(d, u) == [kind |-> "known", defs |-> d, uses |-> u, mem |-> "none",
                modellable |-> TRUE, fpu |-> "none"]

Move    == Plain({"a"}, {"b"})
SetB    == Plain({"b"}, {})
Compare == Plain({"flags"}, {"a"})
Select  == Plain({"a"}, {"b", "flags"})
Round   == [Plain({"a"}, {"b"}) EXCEPT !.fpu = "pins"]
Load    == [Plain({"a"}, {"b"}) EXCEPT !.mem = "load"]
Store   == [Plain({}, {"b"}) EXCEPT !.mem = "store"]
RipLoad == [Load EXCEPT !.modellable = FALSE]
Fence   == [Plain({}, {}) EXCEPT !.kind = "harmless"]
SetMode == [Plain({}, {}) EXCEPT !.kind = "unknown", !.fpu = "writes"]
Invoke  == [Plain({}, {}) EXCEPT !.kind = "call"]

\* Entry and successors.  Walked from tail: a chain, a join at tail, a loop
\* whose header is mid, a ring through the entry.
Shape(e, top, head, mid, tail) ==
    [entry |-> e,
     succ |-> [top |-> top, head |-> head, mid |-> mid, tail |-> tail]]

Chain == Shape("top", {"head"}, {"mid"}, {"tail"}, {})
Join  == Shape("top", {"head"}, {"mid", "tail"}, {"tail"}, {})
Loop  == Shape("top", {"head"}, {"mid"}, {"tail"}, {"mid"})
Ring  == Shape("head", {}, {"tail"}, {}, {"head", "mid"})

Function(shape, at, c, t, h, m, l) ==
    [entry |-> shape.entry, seed |-> at, cond |-> c, succ |-> shape.succ,
     body |-> [top |-> t, head |-> h, mid |-> m, tail |-> l]]

Conditions == {{"flags"}, {"a"}, {}}

\* Above tail, one instruction of S, or none; in tail, any two of S.
Functions(S, shapes) ==
    {Function(e, "tail", c, <<Move>>, <<SetB>> \o m, m, <<i, j>>) :
        e \in shapes, c \in Conditions, m \in {<<>>} \cup {<<k>> : k \in S},
        i \in S, j \in S}

\* Every kind of instruction, around every shape but the loop to the entry.
SlicePrograms ==
    Functions({Move, SetB, Compare, Select, Load, Store, SetMode, Invoke},
              {Chain, Join, Loop, Ring})
    \cup Functions({Move, Compare, RipLoad, Fence, SetMode, Round},
                   {Chain, Join, Loop, Ring})

ASSUME EntryAlone

=============================================================================
