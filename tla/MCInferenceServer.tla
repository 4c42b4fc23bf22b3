----------------------- MODULE MCInferenceServer -----------------------
(***************************************************************************)
(* Two connections to each of the servers with each backend.  Times keep   *)
(* the order of 15, 55 and 60 seconds; rows are counted up to 2, and the   *)
(* upstream may answer more.  Beside the request a corrector makes there   *)
(* are some that one check refuses, or two.                                *)
(***************************************************************************)
EXTENDS InferenceServer

MCServer ==
  [impl : {"python", "node"}, backend : {"dummy", "sdk", "local"}, template : {"plain"}]
    \cup [impl : {"python", "node"}, backend : {"dummy"}, template : {"braces"}]
    \cup [impl : {"dummy", "nodeDummy"}, backend : {"dummy"}, template : {"plain"}]
    \cup [impl : {"tabpfn"}, backend : {"model"}, template : {"plain"}]

Sound ==
  [path |-> "infer", framed |-> TRUE, large |-> FALSE, form |-> "object", count |-> 2, features |-> "finite", baseline |-> 1]

MCRequest ==
  {Sound, [Sound EXCEPT !.path = "health"], [Sound EXCEPT !.large = TRUE, !.form = "broken"],
   [Sound EXCEPT !.features = "word", !.count = 6], [Sound EXCEPT !.features = "huge"], [Sound EXCEPT !.baseline = 3]}
=============================================================================
