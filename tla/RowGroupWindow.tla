--------------------------- MODULE RowGroupWindow ---------------------------
(***************************************************************************)
(* What a read-ahead window promises the scan, whichever reader fills it:  *)
(* row groups are admitted in plan order while their bytes fit a fixed     *)
(* window (or one alone when it is empty), arrive only once admitted, and  *)
(* are handed back once.  A row group the scan turns out not to need may   *)
(* be skipped: it may then be handed back before its bytes are in.         *)
(*                                                                         *)
(* io/local_reader.zig (LocalReader) and io/s3_window.zig (S3Window) are   *)
(* two implementations of it.                                              *)
(***************************************************************************)
EXTENDS Integers, FiniteSets, Functions

CONSTANTS
    Groups,     \* the row groups read through the window, numbered in plan order
    Bytes,      \* Bytes[g]: what row group g charges the window
    Window      \* bytes admitted and not handed back, at most

VARIABLES
    admitted,   \* row groups charged to the window
    arrived,    \* row groups whose bytes are all in
    skipped,    \* row groups the scan is done with before their bytes are in
    returned    \* row groups handed back

vars == <<admitted, arrived, skipped, returned>>

Outstanding == admitted \ returned
OutstandingBytes == SumFunctionOnSet(Bytes, Outstanding)

TypeOK ==
    /\ admitted \subseteq Groups
    /\ arrived \subseteq admitted
    /\ skipped \subseteq Groups
    /\ returned \subseteq admitted

Init ==
    /\ admitted = {}
    /\ arrived = {}
    /\ skipped = {}
    /\ returned = {}

\* Admission is in plan order: everything earlier is admitted, or skipped.
Admit(g) ==
    /\ g \notin admitted
    /\ \A h \in Groups : h < g => h \in admitted \cup skipped
    /\ Outstanding = {} \/ OutstandingBytes + Bytes[g] <= Window
    /\ admitted' = admitted \cup {g}
    /\ UNCHANGED <<arrived, skipped, returned>>

Arrive(g) ==
    /\ g \in admitted \ arrived
    /\ arrived' = arrived \cup {g}
    /\ UNCHANGED <<admitted, skipped, returned>>

Skip(g) ==
    /\ g \notin arrived \cup skipped
    /\ skipped' = skipped \cup {g}
    /\ UNCHANGED <<admitted, arrived, returned>>

Return(g) ==
    /\ g \in Outstanding
    /\ g \in arrived \cup skipped
    /\ returned' = returned \cup {g}
    /\ UNCHANGED <<admitted, arrived, skipped>>

Next == \E g \in Groups : Admit(g) \/ Arrive(g) \/ Skip(g) \/ Return(g)

Spec == Init /\ [][Next]_vars

-----------------------------------------------------------------------------
\* Bounded memory: the bytes held never exceed the window, except for one row
\* group too big for it, and that one is held alone.
Bounded ==
    OutstandingBytes <= Window \/ Cardinality(Outstanding) = 1
=============================================================================
