------------------------------ MODULE MCMirror ------------------------------
(* Instances of Mirror for TLC. Replicas and conversations are interchangeable: the
   budgets that name one of them stand for those that name another.            *)
EXTENDS Mirror, TLC

CONSTANTS r1, r2, c1, c2

MCSymmetry == Permutations(Replicas) \cup Permutations(Convs)

Only(n, requests, faults, up) ==
    [convs |-> {c1}, log |-> n, turns |-> 0, links |-> 0, requests |-> requests,
     faults |-> faults, up |-> up]

One(n, requests, faults)  == Only(n, requests, faults, {r1})
Both(n, requests, faults) == Only(n, requests, faults, {r1, r2})

Linking(n, b)  == [b EXCEPT !.links = n]
WithTurn(b)    == [b EXCEPT !.turns = 1]
TwoConvs(b)    == [b EXCEPT !.convs = {c1, c2}]

MCBudgets ==
    {Both(1, 1, {"expire"}),                         \* a lease runs out under its holder
     Both(1, 2, {}),                                 \* saved here, deleted there
     Both(0, 2, {"lost"}), Both(0, 2, {"call"}),     \* the hint of it is lost, a call fails
     Linking(1, One(2, 1, {"rewind"})),              \* a machine lost its history
     Linking(1, One(2, 1, {"rewind", "crash"})), Linking(1, One(1, 1, {"rewind", "call"})),
     Linking(2, One(2, 1, {})),                      \* interrupted, back, back again
     Linking(1, One(0, 3, {})), Linking(1, One(0, 2, {"call"})),  \* todos, saved again
     WithTurn(One(2, 1, {"call"})), WithTurn(One(1, 1, {"lost"})),
     WithTurn(Linking(1, One(1, 1, {"crash", "call"}))),
     TwoConvs(One(1, 2, {}))}
=============================================================================
