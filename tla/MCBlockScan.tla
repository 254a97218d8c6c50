------------------------------ MODULE MCBlockScan ------------------------------
(***************************************************************************)
(* Three workers over four blocks, and a budget of three: an item tried    *)
(* whole and then in slices, one that fits beside its slice and not beside *)
(* the whole, asks for scratch and is bad, two skipped, and behind them    *)
(* one bigger than the budget.                                             *)
(***************************************************************************)
EXTENDS BlockScan

Item(needs, more, bad) == [needs |-> needs, scratch |-> more, bad |-> bad]

MCItems == <<Item(<<2, 1>>, 0, FALSE), Item(<<2>>, 1, TRUE), Item(<<>>, 0, FALSE), Item(<<>>, 0, FALSE), Item(<<4>>, 0, FALSE)>>
MCEnds == <<1, 2, 4, 5>>
=============================================================================
