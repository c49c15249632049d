----------------------------- MODULE MCResolver -----------------------------
(* Small instances of Resolver: three users, two problems of two subtasks. *)
EXTENDS Resolver

Contest(hidden, last, has, points, before) ==
    [subs |-> <<2, 2>>, hidden |-> hidden, full |-> <<<<1, 1>>, <<1, 1>>>>, last |-> last,
     has |-> has, points |-> points, frozen |-> before]

Zero == <<<<0, 0>>, <<0, 0>>>>
Both == {1, 2}

\* What is hidden, by the order of the last submissions: with one number, the frozen
\* first subtask decides ties before the hidden one does.
MCContests ==
    {Contest(<<<<2>>, <<2>>>>, last, <<Both, Both, {1}>>,
             <<<<<<1, 1>>, <<0, 1>>>>, <<<<1, 0>>, <<1, 1>>>>, <<<<1, 1>>, <<0, 0>>>>>>,
             <<<<<<1, 0>>, <<0, 0>>>>, <<<<0, 0>>, <<1, 0>>>>, Zero>>)
        : last \in {<<1, 2, 3>>, <<3, 2, 1>>}}
    \cup
    {Contest(<<<<2>>, hidden>>, <<2, 1, 2>>, <<{1}, Both, {2}>>,
             <<<<<<1, 1>>, <<0, 0>>>>, <<<<0, 1>>, <<1, 0>>>>, <<<<0, 0>>, <<1, 1>>>>>>,
             <<<<<<0, 0>>, <<0, 0>>>>, <<<<0, 0>>, <<1, 0>>>>, Zero>>)
        : hidden \in {<< >>, <<1, 2>>, <<3>>}}
    \cup
    \* Ties that the replay leaves in another order than that of the last submissions.
    {Contest(<<<<2>>, <<3>>>>, <<3, 1, 2>>, <<{1}, {1}, {1}>>,
             <<<<<<1, 0>>, <<0, 0>>>>, <<<<1, 1>>, <<0, 0>>>>, <<<<0, 1>>, <<0, 0>>>>>>,
             <<<<<<1, 0>>, <<0, 0>>>>, Zero, Zero>>)}
=============================================================================
