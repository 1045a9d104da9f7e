---------------------------- MODULE MCModelFiles ----------------------------
(* Three variables, one of them declared late or never; objectives and     *)
(* constraints that are linear, quadratic and cubic in different variables.*)
EXTENDS ModelFiles

T(coef, v) == [coef |-> coef, vars |-> v]
Con(id, inequality, lower, upper, body) ==
    [id |-> id, inequality |-> inequality, lower |-> lower, upper |-> upper, body |-> body]

Linear == <<T(2, <<0>>), T(3, <<>>), T(1, <<1>>), T(-2, <<0>>)>>
Square == <<T(1, <<1, 1>>), T(4, <<0>>), T(1, <<1, 1>>)>>
Product == <<T(1, <<0, 1>>), T(5, <<>>)>>
Cubic == <<T(1, <<0, 1, 1>>), T(1, <<2>>)>>
Late == <<T(3, <<2>>), T(-1, <<0>>)>>

MCObjectives == {<<[minimize |-> m, body |-> b]>> : m \in {FALSE}, b \in {Linear, Square, Late}}
                \cup {<<>>}
MCConstraints == {<<>>, <<Con(0, TRUE, 1, None, Square), Con(1, FALSE, 2, 2, Linear)>>,
                  <<Con(1, TRUE, -1, 3, Product), Con(0, TRUE, None, 4, Late),
                    Con(1, TRUE, -1, 3, Product)>>,
                  <<Con(0, TRUE, 2, 2, Cubic), Con(2, TRUE, None, None, Linear)>>}
MCModels ==
    [declared : {<<0, 1>>, <<2, 1, 0>>}, objectives : MCObjectives,
     constraints : MCConstraints, policy : {"simple"}]
    \cup [declared : {<<0, 1>>, <<1, 0, 1>>}, objectives : {<<[minimize |-> TRUE, body |-> Linear]>>},
          constraints : {<<>>}, policy : {"simple", "lazy"}]
MCAttributes == {[fixed |-> FALSE, kind |-> "real", lo |-> -Inf, hi |-> Inf, value |-> None],
                 [fixed |-> FALSE, kind |-> "integer", lo |-> 1, hi |-> 4, value |-> 2],
                 [fixed |-> FALSE, kind |-> "binary", lo |-> 0, hi |-> 1, value |-> 0],
                 [fixed |-> TRUE, kind |-> "real", lo |-> 0, hi |-> 2, value |-> 0]}
MCPoints == {-1, 2}
MCArrays == {0}
MCGenerated == [v \in MCArrays |-> "a"]
MCFirstNames == <<"b", "c">> @@ (0 :> "b")
=============================================================================
