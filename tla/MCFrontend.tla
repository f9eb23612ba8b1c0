----------------------------- MODULE MCFrontend -----------------------------
(***************************************************************************)
(* Frontend for TLC: the lists of codes.                                   *)
(***************************************************************************)
EXTENDS Frontend

Code(op, cell, value) == [op |-> op, cell |-> cell, value |-> value, count |-> 0]
Patch(count, step, inc) == [op |-> "patch", cell |-> step, value |-> inc, count |-> count]

\* a write behind two tests and a button code behind one; a patch of boot
\* codes over both cells
MCLists ==
    {<<Code("is", 1, 1), Code("isnt", 0, 1), Code("write", 0, 8),
       Code("isButton", 1, 0), Code("button", 1, 9)>>,
     <<Patch(2, 1, 1), Code("boot", 0, 8)>>}
MCHacks == <<Code("boot", 1, 9)>>
=============================================================================
