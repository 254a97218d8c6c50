------------------------------ MODULE MCFanout ------------------------------
(***************************************************************************)
(* Five inputs of one schema and one of another; the pattern p* stands for *)
(* three of them, t has a NaN in one row group and n one in each of its    *)
(* two.  Version 7 of the worker is published and knows the plans, version *)
(* 6 is published and does not, live is an alias.                          *)
(***************************************************************************)
EXTENDS Fanout, TLC

Row(g, v) == [g |-> g, v |-> v]

TheTable ==
    "a" :> << <<Row(Num(1), Num(3)), Row(Null, Null)>>, <<Row(Num(2), Num(-1))>>,
              <<Row(Num(1), Null), Row(Num(2), Num(5))>> >>
    @@ "b" :> << <<Row(Null, Num(4)), Row(Num(1), Num(2))>> >>
    @@ "c" :> <<>>
    @@ "t" :> << <<Row(Null, Num(3))>>, <<Row(Null, Text(1))>> >>
    @@ "n" :> << <<Row(Num(1), Text(1))>>, <<Row(Num(1), Text(1)), Row(Num(2), Num(5))>> >>
    @@ "d" :> << <<Row(Num(1), Num(7))>> >>
TheSchema == "a" :> "s" @@ "b" :> "s" @@ "c" :> "s" @@ "t" :> "s" @@ "n" :> "s" @@ "d" :> "other"
TheExpand == "a" :> <<"a">> @@ "b" :> <<"b">> @@ "c" :> <<"c">> @@ "t" :> <<"t">> @@ "n" :> <<"n">> @@ "d" :> <<"d">>
            @@ "p*" :> <<"a", "c", "b">>
TheCode == "w:7" :> "v7" @@ "w:6" :> "v6" @@ "w:live" :> "v7"

Request(f, inputs, counts, workers, grouped, order, limit) ==
    [function |-> f, inputs |-> inputs, counts |-> counts, workers |-> workers,
     grouped |-> grouped, order |-> order, limit |-> limit, asks |-> "merge",
     asked |-> {"count", "sum", "min", "max", "avg"}]

By(name, desc) == [name |-> name, desc |-> desc]

TheText(workers) == Request("w:7", <<"t">>, <<>>, workers, FALSE, <<>>, -1)
TheNaNs(grouped, order, asked) == [Request("w:7", <<"n">>, <<>>, 2, grouped, order, -1) EXCEPT !.asked = asked]

TheRequests == {
    TheText(1), TheText(2),                                         \* NaN among floats
    TheNaNs(FALSE, <<>>, {"sum"}), TheNaNs(FALSE, <<>>, {"count", "max"}), TheNaNs(FALSE, <<>>, {"avg"}),
    TheNaNs(TRUE, <<By("g", TRUE)>>, {"sum", "min"}), TheNaNs(TRUE, <<By("sum", TRUE)>>, {"sum"}),
    Request("w:7", <<"p*">>, <<>>, 3, FALSE, <<>>, -1),
    Request("w:7", <<"a", "b">>, <<3, 1>>, 2, FALSE, <<>>, -1),
    Request("w:7", <<"b", "a">>, <<1, 3>>, 3, TRUE, <<By("g", TRUE)>>, 2),
    Request("w:live", <<"a", "b">>, <<3, 1>>, 2, TRUE, <<By("max", FALSE), By("g", FALSE)>>, -1),
    Request("w:live", <<"p*">>, <<>>, 2, TRUE, <<By("count", TRUE), By("sum", TRUE)>>, 1),
    Request("w:7", <<"b">>, <<2>>, 2, FALSE, <<>>, -1),             \* a count past the footer
    Request("w:7", <<"a">>, <<2>>, 2, FALSE, <<>>, -1),             \* a count short of it
    Request("w:7", <<"b", "d">>, <<1, 1>>, 2, TRUE, <<>>, -1),      \* schemas differ
    Request("w:7", <<"c">>, <<>>, 2, TRUE, <<>>, -1),               \* no row group
    Request("w:7", <<"p*">>, <<3>>, 2, FALSE, <<>>, -1),            \* counts do not match
    Request("w:6", <<"a">>, <<>>, 2, FALSE, <<>>, -1),              \* too old a worker
    Request("w:7", <<"b">>, <<>>, 2, TRUE, <<By("x", FALSE)>>, -1),
    [Request("w:7", <<"b">>, <<>>, 2, FALSE, <<>>, -1) EXCEPT !.asks = "holistic"],
    [Request("w:7", <<"b">>, <<>>, 2, FALSE, <<>>, -1) EXCEPT !.asks = "sql"]}
MCTable == TheTable
MCSchema == TheSchema
MCExpand == TheExpand
MCCode == TheCode
MCRequests == TheRequests
=============================================================================
