------------------------------ MODULE MCCompile ------------------------------
(***************************************************************************)
(* Translation units of up to two functions: the shapes of kernels that    *)
(* differ in the kinds of their parameters, and a helper.                  *)
(***************************************************************************)
EXTENDS Compile

P(kind) == [kind |-> kind, num |-> 0, elm |-> 0, spec |-> 0]
Arr(num, elm, spec) == [kind |-> "local", num |-> num, elm |-> elm, spec |-> spec]
Kernel(params) == [kernel |-> TRUE, params |-> params]

\* The arrays have 5 elements of 4 bytes; one has its length specialised; and
\* one has 3 elements of 2 bytes, whose numbers the constants 2 and 3 share.
Locals == {Arr(5, 4, 0), Arr(5, 4, 7), Arr(3, 2, 0)}
One == { P(k) : k \in Kinds \ {"local"} } \cup Locals
Two == {P("scalar"), P("global"), P("constant"), P("input"), Arr(5, 4, 0)}
More == { << P("global"), P("scalar"), P("constant") >>,
           << P("input"), P("global"), P("input") >>,
           << P("global"), P("array"), P("global") >>,
           << P("marked"), P("input") >>, << P("input"), P("marked"), P("global") >> }

Shapes == { << >> } \cup { << a >> : a \in One } \cup (Two \X Two) \cup More
Functions == { Kernel(s) : s \in Shapes } \cup {[kernel |-> FALSE, params |-> << P("scalar") >>]}
MCPrograms == { << >> } \cup { << f >> : f \in Functions } \cup (Functions \X Functions)
=============================================================================
