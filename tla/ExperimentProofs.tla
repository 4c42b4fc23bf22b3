------------------------ MODULE ExperimentProofs ------------------------
(***************************************************************************)
(* What an inference server owes its correctors, and what an ablation owes *)
(* the statistics read from it.                                            *)
(*                                                                         *)
(* The servers: for any number of connections and requests, and any        *)
(* deadlines in the order the code has them, a corrector's request is      *)
(* answered neutrally unless a model answered it, or with one of the two   *)
(* errors that the Python server does not catch; and the most patient      *)
(* corrector outlasts the local backend.                                   *)
(*                                                                         *)
(* The ablation: for any suite, tables and plan of warm-ups and refits,    *)
(* the arms' cells pair completely, a corrector is asked with the priors   *)
(* of its own training, the step-up procedure rejects what it is defined   *)
(* to, of any number of p-values, and the p-value of the signed-rank test  *)
(* is the exact tail of its null distribution, where the scripts enumerate *)
(* that distribution and no array has a null.                              *)
(***************************************************************************)
EXTENDS InferenceServer, Ablation, WellFoundedInduction, SequenceTheorems, FiniteSetTheorems, TLAPS

----------------------------------------------------------------------------
(* The servers.                                                            *)

Status == {200, 400, 404, 413, 500}

ConnType ==
  [request : Request \cup {None}, client : {"idle", "waiting", "answered", "gone", "cut"}, patience : 0 .. MaxTimeout,
   waited : Nat, answer : U64 \cup {None}, task : {"none", "queued", "calling", "replied"}, age : 0 .. Hard,
   quiet : 0 .. Hard, parts : Nat, upstream : Fate, status : Status \cup {0}, estimate : Int \cup {None}]

TypeOK ==
  /\ server \in Server /\ grace \in Nat
  /\ process \in {"starting", "serving", "closing", "exited"}
  /\ exit \in {"none", "clean", "forced", "failed", "killed"}
  /\ conn \in [Conn -> ConnType]

\* The client's end of a connection and the server's task for it.
Paired(c) ==
  /\ conn[c].client = "idle" => conn[c].task = "none" /\ conn[c].upstream = None
  /\ conn[c].client # "idle" => conn[c].request \in Request
  /\ conn[c].task = "queued" => conn[c].upstream = None /\ conn[c].age = 0 /\ conn[c].quiet = 0
  /\ Calling(c) => conn[c].upstream = Pending /\ conn[c].request.path = "infer" /\ server.backend # "dummy"
  /\ Waiting(c) => conn[c].task # "none"
  /\ ~ Up => ~ Waiting(c) /\ conn[c].task \notin {"queued", "calling"}

\* NeutralUnlessAnswered of one connection, whatever the backend.
Neutrally(c) ==
  /\ server.backend # "model" /\ conn[c].task = "replied" /\ Ours(conn[c].request) =>
       \/ Uncaught(c)
       \/ /\ conn[c].status = 200 /\ conn[c].estimate \in U64
          /\ conn[c].estimate = conn[c].request.baseline \/ conn[c].upstream \in Reply
  /\ conn[c].upstream # None => Verdict(conn[c].request) = 200

\* A reply that is uncaught.
Crashed(status, estimate, upstream) ==
  /\ server.impl = "python" /\ status = 500 /\ estimate = None
  /\ server.template = "braces" \/ (server.backend = "local" /\ upstream = Failed)

\* A server with one thread, which owes no answer in time.
Excused(c) ==
  \/ server.impl = "python" /\ (conn[c].parts > 0 \/ \E d \in Conn \ {c} : conn[d].upstream # None)
  \/ server.impl = "tabpfn"

\* How long a client that still waits can have waited.
Waited(c) ==
  \/ conn[c].task = "queued" /\ conn[c].waited = 0
  \/ /\ Calling(c)
     /\ server.backend = "sdk" \/ (conn[c].waited = conn[c].age /\ (server.impl = "python" => conn[c].quiet = conn[c].age))
  \/ /\ conn[c].task = "replied"
     /\ conn[c].waited = 0 \/ (conn[c].request.path # "health" /\ (server.backend = "sdk" \/ conn[c].waited <= Hard))

InTime(c) == Waiting(c) => Excused(c) \/ Waited(c)

\* OutlastsBackend of one connection.
Outlasted(c) ==
  conn[c].client = "gone" =>
    \/ Excused(c)
    \/ conn[c].request.path # "health" /\ (server.backend = "sdk" \/ conn[c].patience < MaxTimeout)
    \/ conn[c].patience = 0

ConnInv(c) == Paired(c) /\ Neutrally(c) /\ InTime(c) /\ Outlasted(c)

IInv == TypeOK /\ \A c \in Conn : ConnInv(c)

----------------------------------------------------------------------------
(* Bounds of sets.                                                         *)

\* A set of naturals has a smallest element, and Min is it.
LEMMA MinExists ==
  ASSUME NEW T \in SUBSET Nat, T # {}
  PROVE  Min(T) \in T /\ \A y \in T : Min(T) <= y
<1>1. \E x \in T : \A y \in T : ~ (<<y, x>> \in OpToRel(<, Nat))
  BY NatLessThanWellFounded, WFMin
<1>2. PICK x \in T : \A y \in T : ~ (<<y, x>> \in OpToRel(<, Nat))
  BY <1>1
<1>3. \A y \in T : x <= y
  <2>. SUFFICES ASSUME NEW y \in T PROVE x <= y
    OBVIOUS
  <2>1. ~(y < x)
    BY <1>2 DEF OpToRel
  <2>. QED  BY <2>1
<1>. QED  BY <1>3 DEF Min

----------------------------------------------------------------------------
(* The checks.                                                             *)

\* A server is one of the servers.
LEMMA ServerKinds ==
  ASSUME server \in Server
  PROVE  /\ server.impl \in {"python", "node", "dummy", "nodeDummy", "tabpfn"}
         /\ server.backend \in {"dummy", "sdk", "local", "model"}
         /\ server.impl \in {"dummy", "nodeDummy"} => server.backend = "dummy"
         /\ server.impl = "tabpfn" <=> server.backend = "model"
         /\ server.backend = "local" => server.impl \in {"python", "node"}
         /\ server.template \in {"plain", "braces"}
  BY ServerAssumption

\* The lists of checks are joined within any set of checks.
LEMMA ChecksJoined ==
  ASSUME server \in Server, NEW r, NEW T, BodyChecks(r) \in Seq(T), Checks(r, {"finite", "huge"}) \in Seq(T),
         Checks(r, {"finite"}) \in Seq(T), server.impl = "python" => Rendered(r) \in Seq(T), TabPfnChecks(r) \in Seq(T)
  PROVE  InferChecks(r) \in Seq(T)
<1>1. \A s, t \in Seq(T) : s \o t \in Seq(T)
  BY ConcatProperties
<1>2. QED
  BY <1>1, ServerKinds DEF InferChecks, PythonChecks, NodeBodyChecks, NodeChecks, DummyChecks, NodeDummyChecks

\* Every request has a status.
LEMMA VerdictOfAny ==
  ASSUME server \in Server, NEW r \in Request
  PROVE  Verdict(r) \in Status
<1> DEFINE failed == {i \in DOMAIN InferChecks(r) : InferChecks(r)[i] # 200}
<1>1. r \in RequestType
  BY RequestAssumption
<1>2. InferChecks(r) \in Seq({200, 400, 413, 500})
  BY ChecksJoined DEF BodyChecks, Checks, Rendered, TabPfnChecks, Require
<1>3. failed # {} => Min(failed) \in failed
  <2>1. failed \in SUBSET Nat
    BY <1>2
  <2> HIDE DEF failed
  <2>2. QED
    BY <2>1, MinExists
<1>4. failed # {} => InferChecks(r)[Min(failed)] \in {200, 400, 413, 500}
  BY <1>2, <1>3
<1>5. QED
  BY <1>1, <1>4 DEF Verdict, Status, RequestType

\* A request that a corrector makes passes every check, unless the Python
\* server has a prompt that it cannot render.
LEMMA VerdictOfOurs ==
  ASSUME server \in Server, NEW r \in Request, Ours(r)
  PROVE  Verdict(r) = 200 \/ (Verdict(r) = 500 /\ server.impl = "python" /\ server.template = "braces")
<1> DEFINE T == IF server.impl = "python" /\ server.template = "braces" THEN {200, 500} ELSE {200}
           failed == {i \in DOMAIN InferChecks(r) : InferChecks(r)[i] # 200}
<1>1. FeatureLen % FeatureLen = 0 /\ FeatureLen \div FeatureLen = 1
  BY NumberAssumption
<1>2. r.count # 0 /\ r.count % FeatureLen = 0 /\ Batches(r) <= MaxBatches
  BY <1>1, NumberAssumption DEF Ours, Batches
<1>3. InferChecks(r) \in Seq(T)
  <2>0. 200 \in T /\ (server.impl = "python" => Require(server.template = "plain", 500) \in T)
    BY ServerKinds DEF Require
  <2> HIDE DEF T
  <2>1. BodyChecks(r) \in Seq(T) /\ (server.impl = "python" => Rendered(r) \in Seq(T))
    BY <2>0 DEF BodyChecks, Rendered, Ours, Require
  <2>2. Checks(r, {"finite", "huge"}) \in Seq(T) /\ Checks(r, {"finite"}) \in Seq(T)
    BY <1>2, <2>0 DEF Checks, Ours, Require
  <2>3. TabPfnChecks(r) \in Seq(T)
    BY <1>2, <2>0, NumberAssumption DEF TabPfnChecks, Ours, U64, Require
  <2>4. QED
    BY <2>1, <2>2, <2>3, ChecksJoined
<1>4. failed \in SUBSET Nat /\ (failed # {} => Min(failed) \in failed)
  <2>1. failed \in SUBSET Nat
    BY <1>3
  <2> HIDE DEF failed
  <2>2. QED
    BY <2>1, MinExists
<1>5. failed # {} => InferChecks(r)[Min(failed)] \in T \ {200}
  BY <1>3, <1>4
<1>6. r.path = "infer"
  BY DEF Ours
<1>7. QED
  BY <1>5, <1>6 DEF Verdict

\* The verdict on a request is the server's and does not change.
LEMMA VerdictRigid ==
  ASSUME server' = server
  PROVE  \A r : Verdict(r)' = Verdict(r)
  BY DEF Verdict, InferChecks, PythonChecks, NodeChecks, DummyChecks, NodeDummyChecks, NodeBodyChecks, Rendered

----------------------------------------------------------------------------
(* One connection moves.                                                   *)

Others(c) == \A d \in Conn \ {c} : ConnInv(d)

\* A step of one connection of a running server leaves the invariant of the
\* others alone, when an upstream that was asked has been asked afterwards.
LEMMA OthersKept ==
  ASSUME IInv, NEW c \in Conn, NEW new, UNCHANGED <<server, process, exit>>, conn' = [conn EXCEPT ![c] = new],
         conn[c].upstream # None => new.upstream # None
  PROVE  Others(c)'
<1>1. SUFFICES ASSUME NEW d \in Conn, d # c
               PROVE  ConnInv(d)'
  BY DEF Others
<1>2. conn'[d] = conn[d] /\ conn'[c] = new /\ ConnInv(d)
  BY <1>1 DEF IInv, TypeOK
<1>3. Paired(d)' /\ Neutrally(d)'
  BY <1>2, VerdictRigid DEF ConnInv, Paired, Neutrally, Uncaught, Up, Waiting, Calling, Ours
<1>4. Excused(d) => Excused(d)'
  BY <1>2 DEF Excused, IInv, TypeOK
<1>5. InTime(d)' /\ Outlasted(d)'
  BY <1>2, <1>4 DEF ConnInv, InTime, Waited, Outlasted, Waiting, Calling
<1>6. QED
  BY <1>3, <1>5 DEF ConnInv

\* A step that keeps the types and the moving connection in order keeps the
\* invariant.
LEMMA Moved ==
  ASSUME IInv, NEW c \in Conn, NEW new \in ConnType, UNCHANGED <<server, process, exit, grace>>,
         conn' = [conn EXCEPT ![c] = new], conn[c].upstream # None => new.upstream # None, ConnInv(c)'
  PROVE  IInv'
<1>1. TypeOK'
  BY DEF IInv, TypeOK
<1>2. Others(c)'
  BY OthersKept
<1>3. QED
  BY <1>1, <1>2 DEF IInv, Others

\* A reply keeps the invariant when it is neutral or a model's, and is given
\* to a request that passed the checks if a model was asked.
LEMMA RespondStep ==
  ASSUME IInv, NEW c \in Conn, NEW status \in Status, NEW estimate \in Int \cup {None}, NEW upstream \in Fate,
         Respond(c, status, estimate, upstream), Up, conn[c].task \in {"queued", "calling"},
         conn[c].upstream # None => upstream # None,
         upstream # None => Verdict(conn[c].request) = 200,
         server.backend # "model" /\ Ours(conn[c].request) =>
           \/ Crashed(status, estimate, upstream)
           \/ status = 200 /\ estimate \in U64 /\ (estimate = conn[c].request.baseline \/ upstream \in Reply)
  PROVE  IInv'
<1> DEFINE new == [conn[c] EXCEPT !.task = "replied", !.status = status, !.estimate = estimate, !.upstream = upstream,
                                  !.age = 0, !.quiet = 0]
<1>1. conn[c] \in ConnType /\ ConnInv(c) /\ UNCHANGED <<server, process, exit, grace>>
  BY DEF IInv, TypeOK, Respond
<1>2. conn' = [conn EXCEPT ![c] = new] /\ conn'[c] = new
  <2>1. conn \in [Conn -> ConnType]
    BY DEF IInv, TypeOK
  <2>2. conn' = [conn EXCEPT ![c].task = "replied", ![c].status = status, ![c].estimate = estimate,
                             ![c].upstream = upstream, ![c].age = 0, ![c].quiet = 0]
    BY DEF Respond
  <2>3. conn' = [conn EXCEPT ![c] = new]
    BY <2>1, <2>2, ZenonT(120)
  <2>4. QED
    BY <2>1, <2>3
<1>3. new \in ConnType
  <2>1. 0 \in 0 .. Hard
    BY TimeAssumption
  <2>2. "replied" \in {"none", "queued", "calling", "replied"} /\ status \in Status \cup {0}
    OBVIOUS
  <2>3. QED
    BY <1>1, <2>1, <2>2, ZenonT(120) DEF ConnType
<1>4. /\ new.request = conn[c].request /\ new.client = conn[c].client /\ new.patience = conn[c].patience
      /\ new.waited = conn[c].waited /\ new.parts = conn[c].parts /\ new.task = "replied" /\ new.status = status
      /\ new.estimate = estimate /\ new.upstream = upstream
  BY <1>1 DEF ConnType
<1> HIDE DEF new
<1>5. Paired(c)'
  BY <1>1, <1>2, <1>4 DEF ConnInv, Paired, Waiting, Calling, Up
<1>6. Neutrally(c)'
  BY <1>1, <1>2, <1>4, VerdictRigid DEF Neutrally, Uncaught, Crashed, Ours
<1>7. Excused(c) => Excused(c)'
  BY <1>1, <1>2, <1>4 DEF Excused, IInv, TypeOK
<1>8. Waiting(c)' => Excused(c)' \/ Waited(c)'
  BY <1>1, <1>2, <1>4, <1>7 DEF ConnInv, Paired, InTime, Waited, Waiting, Calling, ConnType
<1>9. Outlasted(c)'
  BY <1>1, <1>2, <1>4, <1>7 DEF ConnInv, Outlasted
<1>10. ConnInv(c)'
  BY <1>5, <1>6, <1>8, <1>9 DEF ConnInv, InTime
<1>11. QED
  BY <1>1, <1>2, <1>3, <1>4, <1>10, Moved

\* Every estimate is a number, and of a language model it is a row count.
LEMMA EstimateType ==
  ASSUME NEW c, conn[c].request \in Request, NEW x \in Reply \cup {Words}
  PROVE  /\ Estimate(c, x) \in Int
         /\ server.backend # "model" /\ conn[c].request.baseline \in U64 =>
              /\ Estimate(c, x) \in U64
              /\ Estimate(c, x) = conn[c].request.baseline \/ x \in Reply
<1> DEFINE baseline == conn[c].request.baseline
<1>1. baseline \in Int
  BY RequestAssumption DEF RequestType
<1>2. (x \in Nat /\ x # Words /\ x \in Reply) \/ x = Words
  BY NumberAssumption
<1>3. Headline(x, baseline) \in Int /\ FirstInteger(x, baseline) \in Int
  BY <1>1, <1>2, NumberAssumption DEF Headline, FirstInteger
<1>4. baseline \in U64 => FirstInteger(x, baseline) \in U64 /\ (FirstInteger(x, baseline) = baseline \/ x \in Reply)
  BY <1>1, <1>2, NumberAssumption DEF FirstInteger, U64
<1>5. QED
  BY <1>3, <1>4 DEF Estimate

LEMMA RefuseStep ==
  ASSUME IInv, NEW c \in Conn, Refuse(c)
  PROVE  IInv'
<1>1. ConnInv(c) /\ Up /\ conn[c].task = "queued" /\ server \in Server
  BY DEF IInv, TypeOK, Refuse, Ready
<1>2. conn[c].request \in Request /\ conn[c].upstream = None
  BY <1>1 DEF ConnInv, Paired
<1>3. /\ Verdict(conn[c].request) \in Status
      /\ Ours(conn[c].request) => Crashed(Verdict(conn[c].request), None, None)
  BY <1>1, <1>2, VerdictOfAny, VerdictOfOurs DEF Refuse, Crashed
<1>4. QED
  BY <1>1, <1>2, <1>3, RespondStep DEF Refuse, Fate

LEMMA HealthStep ==
  ASSUME IInv, NEW c \in Conn, Health(c)
  PROVE  IInv'
<1>1. ConnInv(c) /\ Up /\ conn[c].task = "queued"
  BY DEF IInv, Health, Ready
<1>2. conn[c].upstream = None /\ ~ Ours(conn[c].request)
  BY <1>1 DEF ConnInv, Paired, Ours, Health
<1>3. Respond(c, 200, None, None) /\ 200 \in Status /\ None \in Fate /\ None \in Int \cup {None}
  BY DEF Health, Fate, Status
<1>4. QED
  BY <1>1, <1>2, <1>3, RespondStep

LEMMA EchoStep ==
  ASSUME IInv, NEW c \in Conn, Echo(c)
  PROVE  IInv'
<1>1. ConnInv(c) /\ Up /\ conn[c].task = "queued"
  BY DEF IInv, Echo, Accepted, Ready
<1>2. conn[c].upstream = None /\ conn[c].request.baseline \in Int
  BY <1>1, RequestAssumption DEF ConnInv, Paired, RequestType
<1>3. QED
  BY <1>1, <1>2, RespondStep DEF Echo, Fate, Ours, Status

LEMMA AskStep ==
  ASSUME IInv, NEW c \in Conn, Ask(c)
  PROVE  IInv'
<1> DEFINE new == [conn[c] EXCEPT !.task = "calling", !.upstream = Pending]
<1>1. conn[c] \in ConnType /\ ConnInv(c) /\ Up /\ conn[c].task = "queued" /\ server \in Server
  BY DEF IInv, TypeOK, Ask, Accepted, Ready
<1>2. conn' = [conn EXCEPT ![c] = new] /\ conn'[c] = new /\ UNCHANGED <<server, process, exit, grace>>
  BY DEF Ask, IInv, TypeOK
<1>3. new \in ConnType
  BY <1>1 DEF ConnType, Fate
<1>4. /\ new.request = conn[c].request /\ new.client = conn[c].client /\ new.patience = conn[c].patience
      /\ new.waited = conn[c].waited /\ new.age = conn[c].age /\ new.quiet = conn[c].quiet /\ new.parts = conn[c].parts
      /\ new.task = "calling" /\ new.upstream = Pending
  BY <1>1 DEF ConnType
<1> HIDE DEF new
<1>5. Paired(c)' /\ Neutrally(c)'
  BY <1>1, <1>2, <1>4, VerdictRigid DEF ConnInv, Paired, Neutrally, Uncaught, Waiting, Calling, Up, Ask, Accepted
<1>6. Excused(c) => Excused(c)'
  BY <1>1, <1>2, <1>4 DEF Excused, IInv, TypeOK
<1>7. InTime(c)' /\ Outlasted(c)'
  BY <1>1, <1>2, <1>4, <1>6 DEF ConnInv, Paired, InTime, Waited, Outlasted, Waiting, Calling
<1>8. Pending # None
  BY NumberAssumption
<1>9. QED
  BY <1>2, <1>3, <1>4, <1>5, <1>7, <1>8, Moved DEF ConnInv

\* A piece of an answer to the Python server excuses it; to Node it only
\* stops the idle timer.
LEMMA PartStep ==
  ASSUME IInv, NEW c \in Conn, Part(c)
  PROVE  IInv'
<1> DEFINE new == [conn[c] EXCEPT !.parts = Least(@ + 1, MaxParts), !.quiet = 0]
<1>1. conn[c] \in ConnType /\ ConnInv(c) /\ Up /\ Calling(c)
  BY DEF IInv, TypeOK, Part
<1>0. Least(conn[c].parts + 1, MaxParts) \in Nat \ {0}
  BY <1>1, NumberAssumption DEF Least, ConnType
<1>2. conn' = [conn EXCEPT ![c] = new] /\ conn'[c] = new /\ UNCHANGED <<server, process, exit, grace>>
  BY DEF Part, IInv, TypeOK
<1>3. new \in ConnType
  <2>1. 0 \in 0 .. Hard /\ Least(conn[c].parts + 1, MaxParts) \in Nat
    BY <1>0, TimeAssumption
  <2>2. QED
    BY <1>1, <2>1 DEF ConnType
<1>4. /\ new.request = conn[c].request /\ new.client = conn[c].client /\ new.patience = conn[c].patience
      /\ new.waited = conn[c].waited /\ new.age = conn[c].age /\ new.parts > 0
      /\ new.task = conn[c].task /\ new.upstream = conn[c].upstream
  BY <1>0, <1>1 DEF ConnType
<1> HIDE DEF new
<1>5. Paired(c)' /\ Neutrally(c)'
  BY <1>1, <1>2, <1>4, VerdictRigid DEF ConnInv, Paired, Neutrally, Uncaught, Waiting, Calling, Up
<1>6. Excused(c) \/ server.impl = "python" => Excused(c)'
  BY <1>1, <1>2, <1>4 DEF Excused, IInv, TypeOK
<1>7. InTime(c)' /\ Outlasted(c)'
  BY <1>1, <1>2, <1>4, <1>6 DEF ConnInv, InTime, Waited, Outlasted, Waiting, Calling
<1>8. QED
  BY <1>2, <1>3, <1>4, <1>5, <1>7, Moved DEF ConnInv

\* A connection that calls the model has passed every check.
LEMMA CallingAccepted ==
  ASSUME IInv, NEW c \in Conn, Calling(c)
  PROVE  /\ conn[c].request \in Request /\ conn[c].request.baseline \in Int
         /\ Verdict(conn[c].request) = 200 /\ conn[c].task = "calling"
<1>1. Paired(c) /\ Neutrally(c) /\ Pending # None
  BY NumberAssumption DEF IInv, ConnInv
<1>2. conn[c].request \in Request
  BY <1>1 DEF Paired, Calling
<1>3. QED
  BY <1>1, <1>2, RequestAssumption DEF Paired, Neutrally, Calling, RequestType

LEMMA AnsweredStep ==
  ASSUME IInv, NEW c \in Conn, NEW x \in Reply \cup {Words}, Answered(c, x)
  PROVE  IInv'
<1>1. Up /\ Calling(c) /\ Respond(c, 200, Estimate(c, x), x) /\ 200 \in Status /\ x \in Fate /\ x # None
  BY NumberAssumption DEF Answered, Status, Fate
<1>2. Estimate(c, x) \in Int \cup {None}
  BY <1>1, CallingAccepted, EstimateType
<1>3. server.backend # "model" /\ Ours(conn[c].request) =>
        Estimate(c, x) \in U64 /\ (Estimate(c, x) = conn[c].request.baseline \/ x \in Reply)
  BY <1>1, CallingAccepted, EstimateType DEF Ours
<1>4. Verdict(conn[c].request) = 200 /\ conn[c].task \in {"queued", "calling"}
  BY <1>1, CallingAccepted
<1> DEFINE estimate == Estimate(c, x)
<1> HIDE DEF estimate
<1>5. estimate \in Int \cup {None} /\ Respond(c, 200, estimate, x)
  BY <1>1, <1>2 DEF estimate
<1>6. server.backend # "model" /\ Ours(conn[c].request) =>
        200 = 200 /\ estimate \in U64 /\ (estimate = conn[c].request.baseline \/ x \in Reply)
  BY <1>3 DEF estimate
<1>7. QED
  BY <1>1, <1>4, <1>5, <1>6, RespondStep, Z3

LEMMA NeutralStep ==
  ASSUME IInv, NEW c \in Conn, Up, Calling(c), Neutral(c)
  PROVE  IInv'
<1>1. Respond(c, 200, conn[c].request.baseline, Failed) /\ 200 \in Status /\ Failed \in Fate /\ Failed # None
  BY NumberAssumption DEF Neutral, Status, Fate
<1>2. QED
  BY <1>1, CallingAccepted, RespondStep DEF Ours

\* TabPFN and the Python server's local backend may answer with an error.
LEMMA CrashStep ==
  ASSUME IInv, NEW c \in Conn, Up, Calling(c), Crash(c),
         server.backend = "model" \/ (server.impl = "python" /\ server.backend = "local")
  PROVE  IInv'
<1> DEFINE status == 500
<1>1. Respond(c, status, None, Failed) /\ status \in Status /\ Failed \in Fate /\ Failed # None /\ None \in Int \cup {None}
  BY NumberAssumption DEF Crash, Status, Fate
<1>2. Verdict(conn[c].request) = 200 /\ conn[c].task \in {"queued", "calling"}
  BY CallingAccepted
<1>3. server.backend # "model" => Crashed(status, None, Failed)
  BY DEF Crashed
<1> HIDE DEF status
<1>4. QED
  BY <1>1, <1>2, <1>3, RespondStep, ZenonT(120)

LEMMA FailsStep ==
  ASSUME IInv, NEW c \in Conn, Fails(c) \/ Misshapen(c)
  PROVE  IInv'
<1>1. Up /\ Calling(c) /\ server \in Server
  BY DEF Fails, Misshapen, IInv, TypeOK
<1>2. CASE Neutral(c)
  BY <1>1, <1>2, NeutralStep
<1>3. CASE Crash(c) /\ server.backend = "model"
  BY <1>1, <1>3, CrashStep
<1>4. CASE Crash(c) /\ server.backend = "local" /\ server.impl # "node"
  BY <1>1, <1>4, CrashStep, ServerKinds
<1>5. QED
  BY <1>2, <1>3, <1>4 DEF Fails, Misshapen

\* The end of a client that waited changes nothing of the task.
LEMMA ClientStep ==
  ASSUME IInv, NEW c \in Conn, NEW end \in {"answered", "gone"}, NEW answer \in U64 \cup {None}, Waiting(c),
         UNCHANGED <<server, process, exit, grace>>,
         conn' = [conn EXCEPT ![c] = [conn[c] EXCEPT !.client = end, !.answer = answer]],
         end = "gone" => conn[c].waited = conn[c].patience
  PROVE  IInv'
<1> DEFINE new == [conn[c] EXCEPT !.client = end, !.answer = answer]
<1>1. conn[c] \in ConnType /\ ConnInv(c) /\ server \in Server
  BY DEF IInv, TypeOK
<1>2. conn' = [conn EXCEPT ![c] = new] /\ conn'[c] = new
  BY DEF IInv, TypeOK
<1>3. new \in ConnType
  BY <1>1 DEF ConnType
<1>4. /\ new.request = conn[c].request /\ new.client = end /\ new.patience = conn[c].patience
      /\ new.waited = conn[c].waited /\ new.age = conn[c].age /\ new.quiet = conn[c].quiet /\ new.parts = conn[c].parts
      /\ new.task = conn[c].task /\ new.upstream = conn[c].upstream /\ new.status = conn[c].status
      /\ new.estimate = conn[c].estimate
  BY <1>1 DEF ConnType
<1> HIDE DEF new
<1>5. Paired(c)' /\ Neutrally(c)' /\ InTime(c)'
  BY <1>1, <1>2, <1>4, VerdictRigid DEF ConnInv, Paired, Neutrally, Uncaught, InTime, Waiting, Calling, Up, Ours
<1>6. Excused(c) => Excused(c)'
  BY <1>1, <1>2, <1>4 DEF Excused, IInv, TypeOK
<1>7. Outlasted(c)'
  <2>1. CASE Excused(c)
    BY <1>6, <2>1 DEF Outlasted
  <2>2. CASE end # "gone"
    BY <1>2, <1>4, <2>2 DEF Outlasted
  <2>3. CASE ~ Excused(c) /\ end = "gone"
    <3>1. Waited(c) /\ conn[c].waited = conn[c].patience /\ conn[c].age <= Hard /\ Hard < MaxTimeout
      BY <1>1, <2>3, TimeAssumption DEF ConnInv, InTime, ConnType
    <3>2. \/ conn[c].patience = 0
          \/ conn[c].request.path # "health" /\ (server.backend = "sdk" \/ conn[c].patience < MaxTimeout)
      BY <1>1, <3>1, TimeAssumption DEF Waited, ConnInv, Paired, ConnType
    <3>3. QED
      BY <1>2, <1>4, <3>2 DEF Outlasted
  <2>4. QED
    BY <2>1, <2>2, <2>3
<1>8. QED
  BY <1>2, <1>3, <1>4, <1>5, <1>7, Moved DEF ConnInv

LEMMA DeliverStep ==
  ASSUME IInv, NEW c \in Conn, Deliver(c)
  PROVE  IInv'
<1> DEFINE answer == IF conn[c].status = 200 /\ conn[c].estimate \in U64 THEN conn[c].estimate ELSE None
<1>1. answer \in U64 \cup {None}
  OBVIOUS
<1>2. conn' = [conn EXCEPT ![c] = [conn[c] EXCEPT !.client = "answered", !.answer = answer]]
  BY DEF Deliver, IInv, TypeOK
<1> HIDE DEF answer
<1>3. QED
  BY <1>1, <1>2, ClientStep DEF Deliver

LEMMA GiveUpStep ==
  ASSUME IInv, NEW c \in Conn, GiveUp(c)
  PROVE  IInv'
<1>1. conn[c] \in ConnType
  BY DEF IInv, TypeOK
<1>2. conn' = [conn EXCEPT ![c] = [conn[c] EXCEPT !.client = "gone", !.answer = conn[c].answer]]
  BY <1>1 DEF GiveUp, IInv, TypeOK, ConnType
<1>3. conn[c].answer \in U64 \cup {None}
  BY <1>1 DEF ConnType
<1>4. QED
  BY <1>2, <1>3, ClientStep DEF GiveUp

\* A new connection owes nothing to the one before it, which called no model.
LEMMA SendStep ==
  ASSUME IInv, NEW c \in Conn, NEW r \in Request, NEW patience \in Patience, Send(c, r, patience)
  PROVE  IInv'
<1> DEFINE new == [NoConn EXCEPT !.request = r, !.client = "waiting", !.patience = patience, !.task = "queued"]
<1>1. conn[c] \in ConnType /\ ConnInv(c) /\ conn[c].client = "idle" /\ process = "serving"
  BY DEF IInv, TypeOK, Send
<1>2. conn' = [conn EXCEPT ![c] = new] /\ conn'[c] = new /\ UNCHANGED <<server, process, exit, grace>>
  BY DEF Send, IInv, TypeOK
<1>3. new \in ConnType
  <2>1. 0 \in 0 .. Hard /\ patience \in 0 .. MaxTimeout
    BY TimeAssumption
  <2>2. QED
    BY <2>1 DEF NoConn, ConnType, Fate
<1>4. /\ new.request = r /\ new.client = "waiting" /\ new.waited = 0 /\ new.age = 0 /\ new.quiet = 0
      /\ new.task = "queued" /\ new.upstream = None
  BY DEF NoConn
<1> HIDE DEF new
<1>5. Paired(c)' /\ Neutrally(c)' /\ InTime(c)' /\ Outlasted(c)'
  BY <1>1, <1>2, <1>4 DEF Paired, Neutrally, Uncaught, InTime, Waited, Outlasted, Waiting, Calling, Up
<1>6. conn[c].upstream = None
  BY <1>1 DEF ConnInv, Paired
<1>7. QED
  BY <1>2, <1>3, <1>5, <1>6, Moved DEF ConnInv

----------------------------------------------------------------------------
(* The process and time move.                                              *)

\* Starting, and closing on a signal, find and leave the connections alone.
LEMMA LoadStep ==
  ASSUME IInv, Load
  PROVE  IInv'
<1>1. UNCHANGED <<server, grace, conn>> /\ process = "starting" /\ process' \in {"serving", "exited"}
      /\ exit' \in {exit, "failed"} /\ (process' = "serving" => exit' = exit)
  BY DEF Load
<1>2. TypeOK'
  BY <1>1 DEF IInv, TypeOK
<1>3. SUFFICES ASSUME NEW c \in Conn PROVE ConnInv(c)'
  BY <1>2 DEF IInv
<1>4. ConnInv(c)
  BY DEF IInv
<1>5. Paired(c)' /\ Neutrally(c)'
  BY <1>1, <1>4, VerdictRigid DEF ConnInv, Paired, Neutrally, Uncaught, Waiting, Calling, Up, Ours
<1>6. Excused(c)' = Excused(c)
  BY <1>1 DEF Excused
<1>7. InTime(c)' /\ Outlasted(c)'
  BY <1>1, <1>4, <1>6 DEF ConnInv, InTime, Outlasted, Waited, Waiting, Calling
<1>8. QED
  BY <1>5, <1>7 DEF ConnInv

LEMMA ShutdownStep ==
  ASSUME IInv, Shutdown
  PROVE  IInv'
<1>1. UNCHANGED <<server, exit, grace, conn>> /\ process = "serving" /\ process' = "closing"
  BY DEF Shutdown
<1>2. TypeOK'
  BY <1>1 DEF IInv, TypeOK
<1>3. SUFFICES ASSUME NEW c \in Conn PROVE ConnInv(c)'
  BY <1>2 DEF IInv
<1>4. ConnInv(c)
  BY DEF IInv
<1>5. Paired(c)' /\ Neutrally(c)'
  BY <1>1, <1>4, VerdictRigid DEF ConnInv, Paired, Neutrally, Uncaught, Waiting, Calling, Up, Ours
<1>6. Excused(c)' = Excused(c)
  BY <1>1 DEF Excused
<1>7. InTime(c)' /\ Outlasted(c)'
  BY <1>1, <1>4, <1>6 DEF ConnInv, InTime, Outlasted, Waited, Waiting, Calling
<1>8. QED
  BY <1>5, <1>7 DEF ConnInv

\* The end of the process cuts off whoever waits: nobody, if it is clean.
LEMMA ExitStep ==
  ASSUME IInv, NEW how \in {"clean", "forced", "killed"}, Up, Exit(how), how = "clean" => Drained
  PROVE  IInv'
<1>1. UNCHANGED <<server, grace>> /\ process' = "exited" /\ exit' = how /\ process # "exited"
  BY DEF Exit, Up
<1>2. \A c \in Conn : conn[c] \in ConnType /\ ConnInv(c)
  BY DEF IInv, TypeOK
<1> DEFINE Client(c) == IF conn[c].client = "waiting" THEN "cut" ELSE conn[c].client
           Task(c) == IF conn[c].task = "replied" THEN "replied" ELSE "none"
<1>3. \A c \in Conn : conn'[c] = [conn[c] EXCEPT !.client = Client(c), !.task = Task(c)]
  BY <1>2 DEF Exit, ConnType
<1>4. \A c \in Conn : Client(c) \in {"idle", "answered", "gone", "cut"} /\ Task(c) \in {"none", "replied"}
  BY <1>2 DEF ConnType
<1>5. TypeOK'
  <2> HIDE DEF Client, Task
  <2>1. ASSUME NEW c \in Conn PROVE conn'[c] \in ConnType
    <3>1. conn[c] \in ConnType /\ conn'[c] = [conn[c] EXCEPT !.client = Client(c), !.task = Task(c)]
      BY <1>2, <1>3
    <3>2. Client(c) \in {"idle", "waiting", "answered", "gone", "cut"} /\ Task(c) \in {"none", "queued", "calling", "replied"}
      BY <1>4
    <3>3. QED
      BY <3>1, <3>2, ZenonT(60) DEF ConnType
  <2>2. QED
    BY <1>1, <2>1 DEF IInv, TypeOK, Exit
<1>6. \A c \in Conn :
        /\ conn'[c].request = conn[c].request /\ conn'[c].patience = conn[c].patience /\ conn'[c].parts = conn[c].parts
        /\ conn'[c].upstream = conn[c].upstream /\ conn'[c].status = conn[c].status /\ conn'[c].estimate = conn[c].estimate
        /\ conn'[c].client = Client(c) /\ conn'[c].task = Task(c)
  <2> HIDE DEF Client, Task
  <2>1. TAKE c \in Conn
  <2>2. conn[c] \in ConnType /\ conn'[c] = [conn[c] EXCEPT !.client = Client(c), !.task = Task(c)]
    BY <1>2, <1>3
  <2>3. QED
    BY <2>2, SMTT(30) DEF ConnType
<1>7. SUFFICES ASSUME NEW c \in Conn PROVE ConnInv(c)'
  BY <1>5 DEF IInv
<1>8. Paired(c)' /\ Neutrally(c)'
  BY <1>1, <1>2, <1>6, VerdictRigid DEF ConnInv, Paired, Neutrally, Uncaught, Waiting, Calling, Up, Ours
<1>9. Excused(c) => Excused(c)'
  BY <1>1, <1>6 DEF Excused
<1>10. InTime(c)' /\ Outlasted(c)'
  BY <1>1, <1>2, <1>6, <1>9 DEF ConnInv, InTime, Outlasted, Waiting
<1>12. QED
  BY <1>8, <1>10 DEF ConnInv

LEMMA TickStep ==
  ASSUME IInv, Tick
  PROVE  IInv'
<1>1. UNCHANGED <<server, process, exit>> /\ server \in Server
  BY DEF Tick, IInv, TypeOK
<1>2. \A c \in Conn : conn[c] \in ConnType /\ ConnInv(c) /\ ~ Due(c)
  BY DEF IInv, TypeOK, Tick
<1> DEFINE Later(c) == IF Waiting(c) THEN conn[c].waited + 1 ELSE conn[c].waited
           Age(c) == IF Calling(c) THEN Least(conn[c].age + 1, Hard) ELSE conn[c].age
           Quiet(c) == IF Calling(c) THEN Least(conn[c].quiet + 1, Hard) ELSE conn[c].quiet
<1>3. \A c \in Conn : conn'[c] = [conn[c] EXCEPT !.waited = Later(c), !.age = Age(c), !.quiet = Quiet(c)]
  BY <1>2 DEF Tick, ConnType
<1>4. Hard \in Nat
  BY TimeAssumption
<1>5. \A n \in 0 .. Hard : Least(n + 1, Hard) \in 0 .. Hard /\ (n # Hard => Least(n + 1, Hard) = n + 1)
  BY <1>4 DEF Least
<1>6. TypeOK'
  <2>1. \A c \in Conn : Later(c) \in Nat /\ Age(c) \in 0 .. Hard /\ Quiet(c) \in 0 .. Hard
    BY <1>2, <1>5 DEF ConnType
  <2>2. ASSUME NEW c \in Conn PROVE conn'[c] \in ConnType
    <3> HIDE DEF Later, Age, Quiet
    <3>1. conn[c] \in ConnType /\ conn'[c] = [conn[c] EXCEPT !.waited = Later(c), !.age = Age(c), !.quiet = Quiet(c)]
      BY <1>2, <1>3
    <3>2. QED
      BY <2>1, <3>1 DEF ConnType
  <2>3. grace' \in Nat
    <3>1. grace' = (IF process = "closing" THEN grace + 1 ELSE grace) /\ grace \in Nat
      BY DEF Tick, IInv, TypeOK
    <3>2. QED
      BY <3>1
  <2>4. QED
    BY <1>1, <2>2, <2>3 DEF IInv, TypeOK, Tick
<1>7. \A c \in Conn :
        /\ conn'[c].request = conn[c].request /\ conn'[c].client = conn[c].client /\ conn'[c].patience = conn[c].patience
        /\ conn'[c].parts = conn[c].parts /\ conn'[c].upstream = conn[c].upstream /\ conn'[c].status = conn[c].status
        /\ conn'[c].estimate = conn[c].estimate /\ conn'[c].task = conn[c].task
        /\ conn'[c].waited = Later(c) /\ conn'[c].age = Age(c) /\ conn'[c].quiet = Quiet(c)
  <2> HIDE DEF Later, Age, Quiet
  <2>1. TAKE c \in Conn
  <2>2. conn[c] \in ConnType /\ conn'[c] = [conn[c] EXCEPT !.waited = Later(c), !.age = Age(c), !.quiet = Quiet(c)]
    BY <1>2, <1>3
  <2>3. QED
    BY <2>2, SMTT(30) DEF ConnType
<1>8. SUFFICES ASSUME NEW c \in Conn PROVE ConnInv(c)'
  BY <1>6 DEF IInv
<1>9. Paired(c)' /\ Neutrally(c)'
  BY <1>1, <1>2, <1>7, VerdictRigid DEF ConnInv, Paired, Neutrally, Uncaught, Waiting, Calling, Up, Ours
<1>10. Excused(c)' = Excused(c)
  BY <1>1, <1>7 DEF Excused
<1>11. Outlasted(c)'
  BY <1>1, <1>2, <1>7, <1>10 DEF ConnInv, Outlasted
<1>12. ASSUME Waiting(c), ~ Excused(c)
       PROVE  Waited(c)'
  <2>1. Up /\ Waited(c) /\ conn[c].task # "replied"
    BY <1>2, <1>12 DEF ConnInv, Paired, InTime, Due
  \* Only a server with one thread leaves a request in its queue.
  <2>2. conn[c].task # "queued"
    <3>1. SUFFICES ASSUME conn[c].task = "queued" PROVE FALSE
      OBVIOUS
    <3>2. PICK d \in Conn : Calling(d) /\ server.impl \in {"python", "dummy", "tabpfn"}
      BY <1>2, <2>1, <3>1 DEF Due, Ready, Blocked
    <3>3. d # c /\ conn[d].upstream = Pending /\ server.backend # "dummy"
      BY <1>2, <3>1, <3>2 DEF Calling, ConnInv, Paired
    <3>4. server.impl # "dummy"
      BY <1>1, <3>3, ServerKinds
    <3>5. QED
      BY <1>12, <3>2, <3>3, <3>4, NumberAssumption DEF Excused
  \* The hard deadline of the local backend has not passed.
  <2>3. CASE Calling(c) /\ server.backend # "sdk"
    <3>1. conn[c].waited = conn[c].age /\ (server.impl = "python" => conn[c].quiet = conn[c].age) /\ conn[c].age \in 0 .. Hard
      BY <1>2, <2>3, <2>1 DEF Waited, Calling, ConnType
    <3>2. server.backend = "local"
      BY <1>1, <1>2, <1>12, <2>3, ServerKinds DEF ConnInv, Paired, Excused
    <3>3. ~ (IF server.impl = "node" THEN NodeExpired(c) ELSE PythonExpired(c))
      BY <1>2, <2>1, <2>3, <3>2 DEF Due, Expired
    <3>4. server.impl \in {"python", "node"}
      BY <1>1, <3>2, ServerKinds
    <3>5. conn[c].age # Hard
      BY <3>1, <3>3, <3>4 DEF NodeExpired, PythonExpired
    <3>6. conn'[c].age = conn[c].age + 1 /\ conn'[c].waited = conn[c].waited + 1
          /\ (server.impl = "python" => conn'[c].quiet = conn'[c].age)
      BY <1>5, <1>7, <1>12, <2>3, <3>1, <3>5
    <3>7. QED
      BY <1>1, <1>7, <2>3, <3>1, <3>6 DEF Waited, Calling
  <2>4. QED
    BY <1>1, <1>7, <2>1, <2>2, <2>3 DEF Waited, Calling
<1>13. InTime(c)'
  BY <1>7, <1>10, <1>12 DEF InTime, Waiting
<1>14. QED
  BY <1>9, <1>11, <1>13 DEF ConnInv

----------------------------------------------------------------------------
(* The invariant, and what follows from it.                                *)

LEMMA InitInv == Init => IInv
<1>1. SUFFICES ASSUME Init PROVE IInv
  OBVIOUS
<1>2. \A c \in Conn : conn[c] = NoConn
  BY <1>1 DEF Init
<1>3. NoConn \in ConnType
  <2>1. 0 \in 0 .. Hard /\ 0 \in 0 .. MaxTimeout
    BY TimeAssumption
  <2>2. QED
    BY <2>1 DEF NoConn, ConnType, Fate
<1>4. TypeOK
  BY <1>1, <1>3 DEF Init, TypeOK
<1>5. ASSUME NEW c \in Conn PROVE ConnInv(c)
  <2>1. conn[c].client = "idle" /\ conn[c].task = "none" /\ conn[c].upstream = None
    BY <1>2 DEF NoConn
  <2>2. QED
    BY <2>1 DEF ConnInv, Paired, Neutrally, Uncaught, InTime, Outlasted, Waiting, Calling
<1>6. QED
  BY <1>4, <1>5 DEF IInv

LEMMA NextInv == IInv /\ [Next]_vars => IInv'
<1>1. SUFFICES ASSUME IInv, [Next]_vars PROVE IInv'
  OBVIOUS
<1>2. CASE Load
  BY <1>1, <1>2, LoadStep
<1>3. CASE Shutdown
  BY <1>1, <1>3, ShutdownStep
<1>4. CASE Close
  BY <1>1, <1>4, ExitStep DEF Close, Up
<1>5. CASE ForcedExit
  BY <1>1, <1>5, ExitStep DEF ForcedExit, Up
<1>6. CASE Kill
  BY <1>1, <1>6, ExitStep DEF Kill
<1>7. CASE Tick
  BY <1>1, <1>7, TickStep
<1>8. ASSUME NEW c \in Conn, Own(c) PROVE IInv'
  <2>1. CASE Refuse(c) \/ Health(c) \/ Echo(c) \/ Ask(c)
    BY <1>1, <2>1, RefuseStep, HealthStep, EchoStep, AskStep
  <2>2. CASE Abort(c)
    BY <1>1, <2>2, NeutralStep DEF Abort, Expired
  <2>3. CASE Deliver(c) \/ GiveUp(c)
    BY <1>1, <2>3, DeliverStep, GiveUpStep
  <2>4. QED
    BY <1>8, <2>1, <2>2, <2>3 DEF Own
<1>9. ASSUME NEW c \in Conn, Upstream(c) PROVE IInv'
  BY <1>1, <1>9, PartStep, FailsStep, AnsweredStep DEF Upstream
<1>10. ASSUME NEW c \in Conn, NEW r \in Request, NEW p \in Patience, Send(c, r, p) PROVE IInv'
  BY <1>1, <1>10, SendStep
<1>11. CASE UNCHANGED vars
  <2>1. TypeOK' /\ \A c \in Conn : Paired(c)' /\ Neutrally(c)'
    BY <1>1, <1>11, VerdictRigid DEF vars, IInv, TypeOK, ConnInv, Paired, Neutrally, Uncaught, Waiting, Calling, Up, Ours
  <2>2. \A c \in Conn : InTime(c)' /\ Outlasted(c)'
    BY <1>1, <1>11 DEF vars, IInv, ConnInv, InTime, Outlasted, Excused, Waited, Waiting, Calling
  <2>3. QED
    BY <2>1, <2>2 DEF IInv, ConnInv
<1>12. QED
  BY <1>1, <1>2, <1>3, <1>4, <1>5, <1>6, <1>7, <1>8, <1>9, <1>10, <1>11 DEF Next

LEMMA Invariance == Spec => []IInv
<1>1. QED
  BY InitInv, NextInv, PTL DEF Spec

\* However the upstreams of however many connections behave, and whenever
\* clients leave and the process is stopped, a language model server replies
\* to a corrector with a row count, which is the request's own baseline
\* unless a model answered it, or with one of the two errors that the Python
\* server leaves uncaught, and spends no call on a request it refuses.
THEOREM AlwaysNeutral == Spec => []NeutralUnlessAnswered
<1>1. IInv => NeutralUnlessAnswered
  BY DEF IInv, ConnInv, Neutrally, NeutralUnlessAnswered
<1>2. QED
  BY <1>1, Invariance, PTL

\* The order of the deadlines alone, Hard before MaxTimeout, lets the most
\* patient corrector outlast the local backend of a Node server, at any load.
THEOREM AlwaysOutlasts == Spec => []OutlastsBackend
<1>1. IInv => OutlastsBackend
  BY DEF IInv, ConnInv, Outlasted, Excused, OutlastsBackend
<1>2. QED
  BY <1>1, Invariance, PTL

\* A finite set of numbers has a largest one.
LEMMA MaxExists ==
  ASSUME NEW n \in Nat, NEW T \in SUBSET (0 .. n), T # {}
  PROVE  Max(T) \in T /\ \A y \in T : y <= Max(T)
<1>. DEFINE U == {n - y : y \in T}
<1>1. U \subseteq Nat /\ U # {}
  <2>1. \A y \in T : y \in 0 .. n
    OBVIOUS
  <2>2. \A y \in T : n - y \in Nat
    BY <2>1
  <2>3. PICK y \in T : TRUE
    OBVIOUS
  <2>4. n - y \in U
    BY <2>3
  <2>. QED  BY <2>2, <2>4
<1>2. Min(U) \in U /\ \A u \in U : Min(U) <= u
  BY <1>1, MinExists
<1>3. PICK x \in T : Min(U) = n - x
  BY <1>2
<1>4. ASSUME NEW y \in T PROVE y <= x
  <2>1. n - y \in U
    OBVIOUS
  <2>2. n - x <= n - y
    BY <1>2, <1>3, <2>1
  <2>3. x \in 0 .. n /\ y \in 0 .. n
    OBVIOUS
  <2>. QED  BY <2>2, <2>3
<1>5. x >= x /\ \A y \in T : x >= y
  BY <1>4
<1>6. \E w \in T : \A y \in T : w >= y
  BY <1>5
<1>7. \A y \in T : Max(T) >= y
  BY <1>6 DEF Max
<1>8. Max(T) \in T
  BY <1>6 DEF Max
<1>. QED  BY <1>7, <1>8

----------------------------------------------------------------------------
(* The step-up procedure.                                                  *)

UpTo(p, i) == {j \in DOMAIN p : p[j] < p[i] \/ (p[j] = p[i] /\ j <= i)}

\* Places number the p-values, in their order.
LEMMA Places ==
  ASSUME NEW m \in Nat, NEW p \in [1 .. m -> Int]
  PROVE  /\ \A i \in 1 .. m : Place(p, i) \in 1 .. m
         /\ \A i, j \in 1 .. m : Place(p, i) <= Place(p, j) => p[i] <= p[j]
         /\ \A i, j \in 1 .. m : Place(p, i) = Place(p, j) => i = j
         /\ \A rank \in 1 .. m : \E i \in 1 .. m : Place(p, i) = rank
         /\ \A rank \in 1 .. m : Indexed(p)[rank] \in 1 .. m /\ Place(p, Indexed(p)[rank]) = rank
<1>1. IsFiniteSet(1 .. m) /\ Cardinality(1 .. m) = m
  BY FS_Interval
<1>2. \A i \in 1 .. m : Place(p, i) = Cardinality(UpTo(p, i))
  BY DEF Place, UpTo
<1>3. ASSUME NEW i \in 1 .. m
      PROVE  IsFiniteSet(UpTo(p, i)) /\ Cardinality(UpTo(p, i)) \in 1 .. m
  <2>1. i \in UpTo(p, i) /\ UpTo(p, i) \subseteq 1 .. m
    BY DEF UpTo
  <2>2. IsFiniteSet(UpTo(p, i)) /\ Cardinality(UpTo(p, i)) <= m
    BY <1>1, <2>1, FS_Subset
  <2>3. Cardinality(UpTo(p, i)) \in Nat /\ Cardinality(UpTo(p, i)) # 0
    BY <2>1, <2>2, FS_CardinalityType, FS_EmptySet
  <2>. QED  BY <2>2, <2>3
<1>4. ASSUME NEW i \in 1 .. m, NEW j \in 1 .. m, p[j] < p[i] \/ (p[j] = p[i] /\ j < i)
      PROVE  Cardinality(UpTo(p, j)) < Cardinality(UpTo(p, i))
  <2>1. UpTo(p, j) \subseteq UpTo(p, i) /\ i \in UpTo(p, i) /\ i \notin UpTo(p, j)
    BY <1>4 DEF UpTo
  <2>2. UpTo(p, j) # UpTo(p, i)
    BY <2>1
  <2>. DEFINE a == UpTo(p, j)
              b == UpTo(p, i)
  <2>3. IsFiniteSet(a) /\ IsFiniteSet(b) /\ Cardinality(a) \in 1 .. m /\ Cardinality(b) \in 1 .. m
    BY <1>3
  <2>. HIDE DEF a, b
  <2>4. Cardinality(a) <= Cardinality(b) /\ Cardinality(b) # Cardinality(a)
    <3>1. a \in SUBSET b /\ a # b
      BY <2>1, <2>2 DEF a, b
    <3>. QED  BY <2>3, <3>1, FS_Subset
  <2>5. Cardinality(a) < Cardinality(b)
    BY <2>3, <2>4
  <2>. QED  BY <2>5 DEF a, b
<1>5. \A i \in 1 .. m : Place(p, i) \in 1 .. m
  BY <1>2, <1>3
<1>6. ASSUME NEW i \in 1 .. m, NEW j \in 1 .. m, Place(p, i) <= Place(p, j)
      PROVE  p[i] <= p[j] /\ (Place(p, i) = Place(p, j) => i = j)
  <2>1. Cardinality(UpTo(p, i)) <= Cardinality(UpTo(p, j)) /\ Cardinality(UpTo(p, i)) \in Int /\ Cardinality(UpTo(p, j)) \in Int
    BY <1>2, <1>3, <1>6
  <2>2. ~(p[j] < p[i] \/ (p[j] = p[i] /\ j < i))
    BY <1>4, <2>1
  <2>3. Place(p, i) = Place(p, j) => ~(p[i] < p[j] \/ (p[i] = p[j] /\ i < j))
    BY <1>2, <1>4, <2>1
  <2>. QED  BY <2>2, <2>3
<1>7. \A rank \in 1 .. m : \E i \in 1 .. m : Place(p, i) = rank
  <2>. DEFINE f == [i \in 1 .. m |-> Place(p, i)]
  <2>1. \A i, j \in 1 .. m : f[i] = f[j] => i = j
    BY <1>5, <1>6
  <2>2. f \in Injection(1 .. m, 1 .. m)
    BY <1>5, <2>1 DEF Injection, IsInjective
  <2>3. f \in Surjection(1 .. m, 1 .. m)
    BY <1>1, <2>2, FS_Injection
  <2>. QED  BY <2>3 DEF Surjection
<1>8. ASSUME NEW rank \in 1 .. m
      PROVE  Indexed(p)[rank] \in 1 .. m /\ Place(p, Indexed(p)[rank]) = rank
  <2>1. Indexed(p)[rank] = CHOOSE i \in 1 .. m : Place(p, i) = rank
    BY DEF Indexed
  <2>. QED  BY <1>7, <2>1
<1>9. \A i, j \in 1 .. m : Place(p, i) <= Place(p, j) => p[i] <= p[j]
  BY <1>6
<1>10. \A i, j \in 1 .. m : Place(p, i) = Place(p, j) => i = j
  BY <1>5, <1>6
<1>. QED  BY <1>5, <1>7, <1>8, <1>9, <1>10

\* There are as many p-values as places.
LEMMA FirstPlaces ==
  ASSUME NEW m \in Nat, NEW p \in [1 .. m -> Int], NEW k \in 0 .. m
  PROVE  /\ Cardinality({i \in 1 .. m : Place(p, i) <= k}) = k
         /\ \A s \in SUBSET {i \in 1 .. m : Place(p, i) <= k} : Cardinality(s) \in Nat /\ Cardinality(s) <= k
<1>. DEFINE first == {i \in 1 .. m : Place(p, i) <= k}
            f == [i \in first |-> Place(p, i)]
<1>1. IsFiniteSet(1 .. k) /\ Cardinality(1 .. k) = k
  BY FS_Interval
<1>2. f \in [first -> 1 .. k] /\ \A i, j \in first : f[i] = f[j] => i = j
  <2>1. \A i \in 1 .. m : Place(p, i) \in 1 .. m
    BY Places
  <2>2. \A i, j \in 1 .. m : Place(p, i) = Place(p, j) => i = j
    BY Places
  <2>3. \A i \in first : Place(p, i) \in 1 .. k
    BY <2>1
  <2>. QED  BY <2>2, <2>3
<1>3. \A rank \in 1 .. k : \E i \in first : f[i] = rank
  <2>. SUFFICES ASSUME NEW rank \in 1 .. k PROVE \E i \in first : f[i] = rank
    OBVIOUS
  <2>1. PICK i \in 1 .. m : Place(p, i) = rank
    <3>1. rank \in 1 .. m
      OBVIOUS
    <3>. QED  BY <3>1, Places
  <2>. QED  BY <2>1
<1>. HIDE DEF first, f
<1>4. f \in Injection(first, 1 .. k) /\ f \in Surjection(first, 1 .. k)
  BY <1>2, <1>3 DEF Injection, IsInjective, Surjection
<1>5. IsFiniteSet(first) /\ Cardinality(first) = k
  BY <1>1, <1>4, FS_Injection
<1>6. \A s \in SUBSET first : Cardinality(s) \in Nat /\ Cardinality(s) <= k
  BY <1>5, FS_Subset, FS_CardinalityType
<1>. QED  BY <1>5, <1>6 DEF first

LEMMA TimesGrows ==
  ASSUME NEW a \in Nat, NEW b \in Nat, NEW c \in Nat, a <= b
  PROVE  c * a <= c * b
OBVIOUS

LEMMA TimesShrinks ==
  ASSUME NEW a \in Nat, NEW b \in Nat, NEW c \in Nat \ {0}, c * a <= c * b
  PROVE  a <= b
<1>. SUFFICES ASSUME b < a PROVE FALSE
  OBVIOUS
<1>1. b + 1 <= a
  OBVIOUS
<1>2. c * (b + 1) <= c * a
  BY <1>1, TimesGrows
<1>3. c * (b + 1) = c * b + c
  OBVIOUS
<1>4. c * b \in Nat /\ c * a \in Nat
  OBVIOUS
<1>. QED  BY <1>2, <1>3, <1>4

LEMMA DivMod ==
  ASSUME NEW e \in Int, NEW j \in Nat \ {0}
  PROVE  e \div j \in Int /\ e % j \in 0 .. j - 1 /\ e = j * (e \div j) + (e % j)
OBVIOUS

\* Dividing the scale by a rank that divides it loses nothing.
LEMMA Scale ==
  ASSUME NEW j \in Nat \ {0}, NEW x \in Nat, Exact % j = 0
  PROVE  (Exact \div j) * x <= Exact * Alpha <=> x <= j * Alpha
<1>. DEFINE q == Exact \div j
<1>1. Exact \in Nat \ {0} /\ Alpha \in Nat
  BY ExactAssumption, UnitAssumption
<1>2. q \in Nat /\ Exact = j * q /\ q # 0
  <2>1. q \in Int /\ Exact = j * q + (Exact % j)
    BY <1>1, DivMod
  <2>2. Exact = j * q
    BY <2>1, <1>1
  <2>3. q > 0
    <3>. SUFFICES ASSUME q <= 0 PROVE FALSE
      BY <2>1
    <3>. HIDE DEF q
    <3>1. j * q <= 0
      BY <2>1
    <3>. QED  BY <1>1, <2>2, <3>1
  <2>. QED  BY <2>1, <2>2, <2>3
<1>. HIDE DEF q
<1>3. Exact * Alpha = q * (j * Alpha)
  BY <1>1, <1>2
<1>4. j * Alpha \in Nat
  BY <1>1
<1>5. x <= j * Alpha => q * x <= q * (j * Alpha)
  BY <1>2, <1>4, TimesGrows
<1>6. q * x <= q * (j * Alpha) => x <= j * Alpha
  BY <1>2, <1>4, TimesShrinks
<1>. QED  BY <1>3, <1>5, <1>6 DEF q

LEMMA ConsistentUnion ==
  ASSUME NEW m \in 1 .. MaxTests, NEW p \in [1 .. m -> 0 .. Unit]
  PROVE  /\ BenjaminiHochberg(p).rejected
              = UNION {s \in SUBSET (1 .. m) : \A i \in s : m * p[i] <= Cardinality(s) * Alpha}
         /\ BenjaminiHochberg(p).rejected = {i \in 1 .. m : BenjaminiHochberg(p).adjusted[i] <= Exact * Alpha}
<1>. DEFINE k == MaxK(p)
            admitted == {rank \in 1 .. m : Admits(p, rank)}
            rejected == {i \in 1 .. m : Place(p, i) <= k}
            adjusted == [i \in 1 .. m |-> AdjustedAt(p, Place(p, i))]
            Consistent(s) == \A i \in s : m * p[i] <= Cardinality(s) * Alpha
<1>1. /\ m \in Nat \ {0} /\ Unit \in Nat \ {0} /\ Alpha \in Nat /\ Alpha <= Unit /\ Exact \in Nat \ {0}
      /\ \A j \in 1 .. m : Exact % j = 0
      /\ p \in [1 .. m -> Int] /\ \A i \in 1 .. m : p[i] \in Nat /\ p[i] <= Unit
  <2>1. Unit \in Nat \ {0} /\ Alpha \in 0 .. Unit /\ MaxTests \in Nat /\ Exact \in Nat \ {0}
    BY UnitAssumption, ExactAssumption
  <2>2. m \in Nat \ {0} /\ Alpha \in Nat /\ Alpha <= Unit
    BY <2>1
  <2>3. \A j \in 1 .. m : Exact % j = 0
    <3>1. \A j \in 1 .. m : j \in 1 .. MaxTests
      BY <2>1
    <3>. QED  BY <3>1, ExactAssumption
  <2>4. \A i \in 1 .. m : p[i] \in 0 .. Unit
    OBVIOUS
  <2>5. \A i \in 1 .. m : p[i] \in Nat /\ p[i] <= Unit
    BY <2>1, <2>4
  <2>6. p \in [1 .. m -> Int]
    BY <2>1
  <2>. QED  BY <2>1, <2>2, <2>3, <2>5, <2>6
<1>2. DOMAIN p = 1 .. m /\ Len(p) = m
  <2>1. p \in Seq(0 .. Unit)
    BY <1>1, SeqDef
  <2>. QED  BY <1>1, <2>1, LenProperties
<1>3. BenjaminiHochberg(p).rejected = rejected /\ BenjaminiHochberg(p).adjusted = adjusted
  BY <1>2 DEF BenjaminiHochberg
<1>4. /\ \A i \in 1 .. m : Place(p, i) \in 1 .. m
      /\ \A i, j \in 1 .. m : Place(p, i) <= Place(p, j) => p[i] <= p[j]
      /\ \A i, j \in 1 .. m : Place(p, i) = Place(p, j) => i = j
      /\ \A rank \in 1 .. m : Indexed(p)[rank] \in 1 .. m /\ Place(p, Indexed(p)[rank]) = rank
  BY <1>1, Places
<1>5. \A rank \in 1 .. m : Admits(p, rank) <=> m * p[Indexed(p)[rank]] <= rank * Alpha
  BY <1>2 DEF Admits
<1>6. k \in 0 .. m /\ (k > 0 => k \in admitted) /\ \A rank \in admitted : rank <= k
  <2>1. k = Max({0} \cup admitted)
    BY <1>2 DEF MaxK
  <2>2. {0} \cup admitted \in SUBSET (0 .. m) /\ {0} \cup admitted # {}
    OBVIOUS
  <2>. HIDE DEF admitted, k
  <2>3. Max({0} \cup admitted) \in {0} \cup admitted /\ \A y \in {0} \cup admitted : y <= Max({0} \cup admitted)
    BY <1>1, <2>2, MaxExists
  <2>4. k \in {0} \cup admitted
    BY <2>1, <2>3
  <2>5. \A rank \in admitted : rank <= k
    BY <2>1, <2>3
  <2>6. k \in 0 .. m
    BY <2>2, <2>4
  <2>7. k > 0 => k \in admitted
    BY <2>4
  <2>. QED  BY <2>5, <2>6, <2>7
<1>. HIDE DEF k
<1>7. Consistent(rejected) /\ rejected \in SUBSET (1 .. m)
  <2>1. Cardinality(rejected) = k
    BY <1>1, <1>6, FirstPlaces
  <2>2. ASSUME NEW i \in rejected PROVE m * p[i] <= k * Alpha
    <3>1. k \in 1 .. m /\ Admits(p, k)
      BY <1>4, <1>6
    <3>2. Indexed(p)[k] \in 1 .. m /\ p[i] <= p[Indexed(p)[k]] /\ p[i] \in Nat /\ p[Indexed(p)[k]] \in Nat
      <4>1. i \in 1 .. m /\ Place(p, i) <= k
        OBVIOUS
      <4>. DEFINE j == Indexed(p)[k]
      <4>2. j \in 1 .. m /\ Place(p, j) = k
        BY <1>4, <3>1
      <4>. HIDE DEF j
      <4>3. p[i] \in Nat /\ p[j] \in Nat
        BY <1>1, <4>1, <4>2
      <4>4. p[i] <= p[j]
        BY <1>4, <4>1, <4>2
      <4>. QED  BY <4>2, <4>3, <4>4 DEF j
    <3>3. m * p[i] <= m * p[Indexed(p)[k]]
      BY <1>1, <3>2, TimesGrows
    <3>4. m * p[Indexed(p)[k]] <= k * Alpha
      BY <1>5, <3>1
    <3>5. m * p[i] \in Nat /\ m * p[Indexed(p)[k]] \in Nat /\ k * Alpha \in Nat
      BY <1>1, <3>1, <3>2
    <3>. QED  BY <3>3, <3>4, <3>5
  <2>. QED  BY <2>1, <2>2
<1>8. ASSUME NEW s \in SUBSET (1 .. m), Consistent(s), NEW i \in s PROVE i \in rejected
  <2>. DEFINE places == {Place(p, j) : j \in s}
              r == Max(places)
  <2>1. places \in SUBSET (0 .. m) /\ places # {}
    <3>1. \A j \in s : Place(p, j) \in 0 .. m
      <4>1. \A j \in s : Place(p, j) \in 1 .. m
        BY <1>4
      <4>. QED  BY <1>1, <4>1
    <3>2. Place(p, i) \in places
      OBVIOUS
    <3>. QED  BY <3>1, <3>2
  <2>2. r \in places /\ \A y \in places : y <= r
    <3>. HIDE DEF places
    <3>. QED  BY <1>1, <2>1, MaxExists
  <2>3. PICK j \in s : Place(p, j) = r
    BY <2>2
  <2>4. r \in 1 .. m /\ \A q \in s : Place(p, q) <= r
    BY <1>4, <2>2, <2>3
  <2>. HIDE DEF r
  <2>5. Cardinality(s) \in Nat /\ Cardinality(s) <= r
    <3>1. s \in SUBSET {q \in 1 .. m : Place(p, q) <= r}
      BY <2>4
    <3>2. r \in 0 .. m
      BY <1>1, <2>4
    <3>. QED  BY <1>1, <3>1, <3>2, FirstPlaces
  <2>6. Indexed(p)[r] = j
    BY <1>4, <2>3, <2>4
  <2>7. m * p[j] <= r * Alpha
    <3>1. m * p[j] <= Cardinality(s) * Alpha
      BY <1>8
    <3>2. Alpha * Cardinality(s) <= Alpha * r
      <4>1. r \in Nat
        BY <2>4
      <4>. QED  BY <1>1, <2>5, <4>1, TimesGrows
    <3>3. p[j] \in Nat
      <4>1. j \in 1 .. m
        OBVIOUS
      <4>. QED  BY <1>1, <4>1
    <3>4. r \in Nat
      BY <2>4
    <3>5. Alpha * Cardinality(s) = Cardinality(s) * Alpha /\ Alpha * r = r * Alpha /\ Cardinality(s) * Alpha \in Nat /\ r * Alpha \in Nat
      BY <1>1, <2>5, <3>4
    <3>6. m * p[j] \in Nat
      BY <1>1, <3>3
    <3>. QED  BY <3>1, <3>2, <3>5, <3>6
  <2>8. r \in admitted
    BY <1>5, <2>4, <2>6, <2>7
  <2>9. Place(p, i) <= r /\ r <= k
    BY <1>6, <2>4, <2>8
  <2>. QED  BY <1>4, <1>6, <2>4, <2>9
<1>9. ASSUME NEW i \in 1 .. m PROVE i \in rejected <=> adjusted[i] <= Exact * Alpha
  <2>. DEFINE r == Place(p, i)
              Candidate(j) == (Exact \div j) * Len(p) * p[Indexed(p)[j]]
              candidates == {Exact * Unit} \cup {Candidate(j) : j \in r .. m}
  <2>1. adjusted[i] = Min(candidates)
    BY <1>2 DEF AdjustedAt
  <2>2. r \in 1 .. m
    BY <1>4
  <2>. HIDE DEF r
  <2>3. ASSUME NEW j \in r .. m
        PROVE  Candidate(j) \in Nat /\ (Candidate(j) <= Exact * Alpha <=> j \in admitted)
    <3>. DEFINE x == p[Indexed(p)[j]]
                q == Exact \div j
    <3>1. j \in 1 .. m /\ j \in Nat \ {0} /\ x \in Nat /\ Exact % j = 0
      <4>1. j \in 1 .. m /\ j \in Nat \ {0}
        BY <1>1, <2>2
      <4>2. Indexed(p)[j] \in 1 .. m
        BY <1>4, <4>1
      <4>. QED  BY <1>1, <4>1, <4>2
    <3>2. q \in Nat
      <4>1. q \in Int /\ Exact = j * q + (Exact % j)
        BY <1>1, <3>1, DivMod
      <4>. HIDE DEF q
      <4>2. q >= 0
        <5>. SUFFICES ASSUME q < 0 PROVE FALSE
          BY <4>1
        <5>1. j * q <= 0
          BY <3>1, <4>1
        <5>. QED  BY <1>1, <3>1, <4>1, <5>1
      <4>. QED  BY <4>1, <4>2
    <3>3. Candidate(j) = q * m * x
      BY <1>2
    <3>. HIDE DEF x, q, Candidate
    <3>4. q * m * x = q * (m * x) /\ m * x \in Nat /\ q * m * x \in Nat
      BY <1>1, <3>1, <3>2
    <3>5. q * (m * x) <= Exact * Alpha <=> m * x <= j * Alpha
      BY <3>1, <3>4, Scale DEF q
    <3>. QED  BY <1>5, <3>1, <3>3, <3>4, <3>5 DEF x
  <2>4. Exact * Unit \in Nat /\ Exact * Alpha \in Nat
    BY <1>1
  <2>5. candidates \in SUBSET Nat /\ candidates # {}
    BY <2>3, <2>4
  <2>6. Min(candidates) \in candidates /\ \A y \in candidates : Min(candidates) <= y
    <3>. HIDE DEF candidates
    <3>. QED  BY <2>5, MinExists
  <2>7. ASSUME i \in rejected PROVE adjusted[i] <= Exact * Alpha
    <3>1. r <= k
      BY <2>7 DEF r
    <3>2. k \in r .. m /\ k \in admitted
      BY <1>6, <2>2, <3>1
    <3>3. Candidate(k) \in candidates /\ Candidate(k) <= Exact * Alpha
      BY <2>3, <3>2
    <3>4. Min(candidates) \in Nat /\ Candidate(k) \in Nat /\ Min(candidates) <= Candidate(k)
      BY <2>5, <2>6, <3>3
    <3>. HIDE DEF candidates, Candidate
    <3>. QED  BY <2>1, <2>4, <3>3, <3>4
  <2>8. ASSUME adjusted[i] <= Exact * Alpha PROVE i \in rejected
    <3>1. \E j \in r .. m : j \in admitted
      <4>1. CASE Min(candidates) = Exact * Unit
        <5>1. Unit <= Alpha
          BY <1>1, <2>1, <2>8, <4>1, TimesShrinks
        <5>2. p[Indexed(p)[m]] \in Nat /\ p[Indexed(p)[m]] <= Alpha
          <6>1. Indexed(p)[m] \in 1 .. m
            BY <1>1, <1>4
          <6>. QED  BY <1>1, <5>1, <6>1
        <5>3. m * p[Indexed(p)[m]] <= m * Alpha
          BY <1>1, <5>2, TimesGrows
        <5>4. m \in admitted
          BY <1>1, <1>5, <5>3
        <5>. QED  BY <1>1, <2>2, <5>4
      <4>2. CASE Min(candidates) # Exact * Unit
        <5>1. PICK j \in r .. m : Min(candidates) = Candidate(j)
          BY <2>6, <4>2
        <5>. QED  BY <2>1, <2>3, <2>8, <5>1
      <4>. QED  BY <4>1, <4>2
    <3>2. PICK j \in r .. m : j \in admitted
      BY <3>1
    <3>3. r <= k
      BY <1>6, <2>2, <3>2
    <3>. QED  BY <3>3 DEF r
  <2>. QED  BY <2>7, <2>8
<1>10. rejected = UNION {s \in SUBSET (1 .. m) : Consistent(s)}
  <2>. HIDE DEF rejected, Consistent
  <2>. QED  BY <1>7, <1>8
<1>. QED  BY <1>3, <1>9, <1>10

----------------------------------------------------------------------------
(* The ablation.                                                           *)

Replica == 0 .. Replicates - 1

\* What an arm's cell holds whatever the arm made of the estimate.
OfCell(r) ==
  /\ r.arm \in Range(cli.arms) /\ r.query \in Query /\ r.replicate \in Replica
  /\ r.seed = ReplicateSeed(r.replicate) /\ r.actual = cli.data[r.seed][r.query].actual

\* Whether the cell of the i-th query in a replicate of the j-th arm is measured.
Behind(j, replicate, i) ==
  \/ j < arm \/ phase \in {"write", "done"}
  \/ /\ j = arm
     /\ \/ phase \in {"measure", "refit"} /\ replicate < round
        \/ phase = "measure" /\ replicate = round /\ i < at
        \/ phase = "refit" /\ replicate = round

Placed ==
  /\ phase \in {"seed", "warm", "train", "measure", "refit", "write", "done"}
  /\ arm \in DOMAIN cli.arms /\ at \in 1 .. Len(Queries)
  /\ phase \in {"measure", "refit"} => round \in Replica
  /\ phase = "refit" => at = 1
  /\ phase = "train" => at = 1 /\ round = 0

Measured ==
  /\ records \in Seq(Range(records))
  /\ \A k \in DOMAIN records : OfCell(records[k])
  /\ \A j \in DOMAIN cli.arms, replicate \in Replica, i \in 1 .. Len(Queries) :
       Behind(j, replicate, i) =>
         \E k \in DOMAIN records :
           records[k].arm = cli.arms[j] /\ records[k].query = Queries[i] /\ records[k].replicate = replicate

\* How far the training lies behind the history.
Lag == IF phase = "refit" THEN (round % cli.refit) * Len(Queries) + Len(Queries)
       ELSE (round % cli.refit) * Len(Queries) + at - 1

Trained ==
  /\ history \in Seq(Range(history))
  /\ phase \in {"measure", "refit"} /\ Corrects =>
       /\ l4.upto = prior
       /\ prior \in Nat
       /\ cli.variant = "V3" /\ cli.refit > 0 => Len(history) - prior = Lag

RunInv == cli \in Commands /\ Placed /\ Measured /\ Trained

Sample(n) == [1 .. n -> Value \cup {Null}]

ScriptInv ==
  /\ script = [name |-> script.name, input |-> script.input, scipy |-> script.scipy, output |-> script.output]
  /\ script.name = "bh" => script.input \in UNION {[1 .. m -> 0 .. Unit] : m \in 1 .. MaxTests}
  /\ script.name = "bh" /\ script.output # Null => script.output = BenjaminiHochberg(script.input)
  /\ script.name = "wilcoxon" => \E n \in 1 .. MaxPairs : \E t, b \in Sample(n) : script.input = <<t, b>>
  /\ script.name = "wilcoxon" /\ script.output # Null =>
       script.output = WilcoxonPaired(Loaded(script.input[1]), Loaded(script.input[2]), script.scipy)

AblationInv == ((cli = Absent /\ phase = "done") \/ RunInv) /\ ScriptInv

LEMMA Appended ==
  ASSUME NEW h, h \in Seq(Range(h)), NEW x
  PROVE  LET g == Append(h, x)
         IN /\ g \in Seq(Range(g)) /\ Len(g) = Len(h) + 1 /\ Len(h) \in Nat
            /\ DOMAIN h = 1 .. Len(h) /\ DOMAIN g = 1 .. Len(h) + 1
            /\ g[Len(h) + 1] = x /\ \A k \in DOMAIN h : g[k] = h[k]
<1>. DEFINE S == Range(h) \cup {x}
            g == Append(h, x)
            n == Len(h)
<1>1. n \in Nat /\ DOMAIN h = 1 .. n /\ \A k \in 1 .. n : h[k] \in S
  BY LenProperties DEF Range
<1>2. h \in Seq(S)
  <2>1. h = [k \in 1 .. n |-> h[k]]
    BY <1>1
  <2>2. h \in [1 .. n -> S]
    BY <1>1, <2>1
  <2>. HIDE DEF n, S
  <2>. QED  BY <1>1, <2>2, SeqDef
<1>3. g \in Seq(S) /\ Len(g) = n + 1 /\ (\A k \in 1 .. n : g[k] = h[k]) /\ g[n + 1] = x
  <2>1. x \in S
    OBVIOUS
  <2>. HIDE DEF S
  <2>. QED  BY <1>2, <2>1, AppendProperties
<1>4. DOMAIN g = 1 .. n + 1
  BY <1>1, <1>3, LenProperties
<1>5. g \in Seq(Range(g))
  <2>. HIDE DEF g, S
  <2>1. \A k \in 1 .. n + 1 : g[k] \in Range(g)
    BY <1>4 DEF Range
  <2>2. g = [k \in 1 .. n + 1 |-> g[k]]
    <3>1. g \in [1 .. n + 1 -> S]
      BY <1>1, <1>3, <1>4, SeqDef
    <3>. QED  BY <3>1
  <2>3. g \in [1 .. n + 1 -> Range(g)] /\ n + 1 \in Nat
    BY <1>1, <2>1, <2>2
  <2>. QED  BY <2>3, SeqDef
<1>. QED  BY <1>1, <1>3, <1>4, <1>5

LEMMA SeededTyped ==
  ASSUME NEW raw \in RawFile
  PROVE  LET h == SeededFrom(raw) IN h \in Seq(Range(h))
<1>. DEFINE kept == {i \in DOMAIN raw : raw[i].arm = "A2" /\ raw[i].query \in Query}
            nth(k) == CHOOSE i \in kept : Cardinality({j \in kept : j <= i}) = k
            n == Cardinality(kept)
            h == [k \in 1 .. n |-> Observation(raw[nth(k)].query, raw[nth(k)])]
<1>1. raw \in Seq(Range(raw))
  BY RawAssumption
<1>2. DOMAIN raw = 1 .. Len(raw) /\ Len(raw) \in Nat
  BY <1>1, LenProperties
<1>3. IsFiniteSet(kept) /\ n \in Nat
  <2>1. IsFiniteSet(1 .. Len(raw))
    BY <1>2, FS_Interval
  <2>2. kept \in SUBSET (1 .. Len(raw))
    BY <1>2
  <2>. HIDE DEF kept
  <2>. QED  BY <2>1, <2>2, FS_Subset, FS_CardinalityType
<1>4. SeededFrom(raw) = h
  BY DEF SeededFrom
<1>. HIDE DEF n, kept, nth
<1>5. DOMAIN h = 1 .. n /\ \A k \in 1 .. n : h[k] \in Range(h)
  BY DEF Range
<1>6. h \in [1 .. n -> Range(h)]
  BY <1>5
<1>7. h \in Seq(Range(h))
  <2>. HIDE DEF h
  <2>. QED  BY <1>3, <1>6, SeqDef
<1>. QED  BY <1>4, <1>7

LEMMA ModNext ==
  ASSUME NEW r \in Nat, NEW d \in Nat \ {0}
  PROVE  /\ 0 % d = 0 /\ r % d \in 0 .. d - 1
         /\ (r + 1) % d # 0 => (r + 1) % d = (r % d) + 1
<1>. DEFINE q == r \div d
            t == (r + 1) \div d
            x == r % d
            y == (r + 1) % d
<1>1. 0 % d = 0
  OBVIOUS
<1>2. r = d * q + x /\ x \in 0 .. d - 1 /\ q \in Int /\ r + 1 = d * t + y /\ y \in 0 .. d - 1 /\ t \in Int
  BY DivMod
<1>. HIDE DEF q, t, x, y
<1>3. d * t = d * q + (x + 1 - y)
  BY <1>2
<1>4. ASSUME y # 0 PROVE y = x + 1
  <2>1. CASE t = q
    BY <1>2, <1>3, <2>1
  <2>2. CASE t > q
    <3>1. d * (q + 1) <= d * t
      <4>1. d * t = d * (q + 1) + d * (t - (q + 1))
        BY <1>2
      <4>2. d * (t - (q + 1)) >= 0 /\ d * (q + 1) \in Int /\ d * (t - (q + 1)) \in Int
        BY <1>2, <2>2
      <4>. HIDE DEF q, t
      <4>. QED  BY <4>1, <4>2
    <3>2. d * (q + 1) = d * q + d /\ d * q \in Int
      BY <1>2
    <3>. QED  BY <1>2, <1>3, <1>4, <3>1, <3>2
  <2>3. CASE t < q
    <3>1. d * (t + 1) <= d * q
      <4>1. d * q = d * (t + 1) + d * (q - (t + 1))
        BY <1>2
      <4>2. d * (q - (t + 1)) >= 0 /\ d * (t + 1) \in Int /\ d * (q - (t + 1)) \in Int
        BY <1>2, <2>3
      <4>. QED  BY <4>1, <4>2
    <3>2. d * (t + 1) = d * t + d /\ d * t \in Int
      BY <1>2
    <3>. QED  BY <1>2, <1>3, <3>1, <3>2
  <2>. QED  BY <1>2, <2>1, <2>2, <2>3
<1>. QED  BY <1>1, <1>2, <1>4 DEF x, y

LEMMA Suite ==
  /\ Len(Queries) \in Nat \ {0} /\ DOMAIN Queries = 1 .. Len(Queries)
  /\ \A i \in 1 .. Len(Queries) : Queries[i] \in Query
  /\ \A q \in Query : \E i \in 1 .. Len(Queries) : Queries[i] = q
  /\ \A i, j \in 1 .. Len(Queries) : Queries[i] = Queries[j] => i = j
<1>1. Queries \in Seq(Query) /\ Queries # <<>> /\ IsInjective(Queries)
  BY SuiteAssumption
<1>2. Len(Queries) # 0
  BY <1>1, EmptySeq
<1>3. Len(Queries) \in Nat /\ DOMAIN Queries = 1 .. Len(Queries)
  BY <1>1, LenProperties
<1>4. \A i \in 1 .. Len(Queries) : Queries[i] \in Query
  BY <1>3 DEF Query, Range
<1>5. \A q \in Query : \E i \in 1 .. Len(Queries) : Queries[i] = q
  BY <1>3 DEF Query, Range
<1>6. \A i, j \in 1 .. Len(Queries) : Queries[i] = Queries[j] => i = j
  BY <1>1, <1>3 DEF IsInjective
<1>. QED  BY <1>2, <1>3, <1>4, <1>5, <1>6

LEMMA CliTyped ==
  ASSUME cli \in Commands
  PROVE  /\ Len(cli.arms) \in Nat \ {0} /\ DOMAIN cli.arms = 1 .. Len(cli.arms)
         /\ cli.refit \in Nat /\ cli.raw \in RawFile /\ cli.data \in Dataset
<1>1. cli.refit \in Nat /\ cli.raw \in RawFile /\ cli.data \in Dataset
  BY PlanAssumption DEF Commands
<1>2. cli.arms \in {Arms} \cup {<<Arms[i]>> : i \in DOMAIN Arms}
  BY DEF Commands
<1>3. CASE cli.arms = Arms
  <2>1. Len(Arms) = 5 /\ DOMAIN Arms = 1 .. 5
    BY DEF Arms
  <2>. QED  BY <1>1, <1>3, <2>1
<1>4. CASE cli.arms # Arms
  <2>1. PICK i \in DOMAIN Arms : cli.arms = <<Arms[i]>>
    BY <1>2, <1>4
  <2>2. Len(cli.arms) = 1 /\ DOMAIN cli.arms = 1 .. 1
    BY <2>1
  <2>. QED  BY <1>1, <2>2
<1>. QED  BY <1>3, <1>4

\* A record that is added takes no measured cell away.
LEMMA StillMeasured ==
  ASSUME Measured, NEW r, OfCell(r), records' = Append(records, r), cli' = cli
  PROVE  /\ records' \in Seq(Range(records')) /\ \A k \in DOMAIN records' : OfCell(records'[k])
         /\ \A k \in DOMAIN records : k \in DOMAIN records' /\ records'[k] = records[k]
         /\ \E k \in DOMAIN records' : records'[k] = r
<1>1. records \in Seq(Range(records))
  BY DEF Measured
<1>. DEFINE g == Append(records, r)
            n == Len(records)
<1>2. /\ g \in Seq(Range(g)) /\ Len(g) = n + 1 /\ n \in Nat /\ DOMAIN records = 1 .. n /\ DOMAIN g = 1 .. n + 1
      /\ g[n + 1] = r /\ \A k \in DOMAIN records : g[k] = records[k]
  BY <1>1, Appended
<1>. HIDE DEF g, n
<1>3. \A k \in DOMAIN g : OfCell(g[k])
  <2>. SUFFICES ASSUME NEW k \in DOMAIN g PROVE OfCell(g[k])
    OBVIOUS
  <2>1. CASE k = n + 1
    BY <1>2, <2>1
  <2>2. CASE k # n + 1
    <3>1. k \in DOMAIN records /\ g[k] = records[k]
      BY <1>2, <2>2
    <3>. QED  BY <3>1 DEF Measured
  <2>. QED  BY <2>1, <2>2
<1>4. \A k \in DOMAIN records : k \in DOMAIN g
  BY <1>2
<1>5. n + 1 \in DOMAIN g
  BY <1>2
<1>6. records' = g
  BY DEF g
<1>. QED  BY <1>2, <1>3, <1>4, <1>5, <1>6

\* A step that measures nothing keeps what is measured.
LEMMA NothingMeasured ==
  ASSUME Measured, UNCHANGED <<cli, records>>,
         \A j \in DOMAIN cli.arms, replicate \in Replica, i \in 1 .. Len(Queries) :
           Behind(j, replicate, i)' => Behind(j, replicate, i)
  PROVE  Measured'
<1>1. \A j \in DOMAIN cli.arms, replicate \in Replica, i \in 1 .. Len(Queries) :
        Behind(j, replicate, i)' =>
          \E k \in DOMAIN records :
            records[k].arm = cli.arms[j] /\ records[k].query = Queries[i] /\ records[k].replicate = replicate
  BY DEF Measured
<1>2. \A k \in DOMAIN records : OfCell(records[k])'
  BY DEF Measured, OfCell
<1>. QED  BY <1>1, <1>2 DEF Measured

LEMMA Opens ==
  ASSUME RunInv, OpenStore
  PROVE  RunInv'
<1>1. cli' = cli /\ arm' = arm /\ records' = records /\ phase = "seed" /\ phase' = "warm" /\ at' = 1
  BY DEF OpenStore
<1>2. Placed'
  BY <1>1, Suite DEF RunInv, Placed
<1>3. Measured'
  <2>1. \A j \in DOMAIN cli.arms, replicate \in Replica, i \in 1 .. Len(Queries) :
           Behind(j, replicate, i)' => Behind(j, replicate, i)
    BY <1>1 DEF Behind
  <2>. QED  BY <1>1, <2>1, NothingMeasured DEF RunInv
<1>4. Trained'
  <2>1. history' \in Seq(Range(history'))
    <3>1. CASE cli.variant = "V3"
      <4>1. cli.raw \in RawFile
        BY CliTyped DEF RunInv
      <4>2. history' = SeededFrom(cli.raw)
        BY <3>1 DEF OpenStore
      <4>. QED  BY <4>1, <4>2, SeededTyped
    <3>2. CASE cli.variant # "V3"
      <4>1. history' = <<>>
        BY <3>2 DEF OpenStore
      <4>2. <<>> \in Seq(Range(<<>>))
        BY EmptySeq
      <4>. QED  BY <4>1, <4>2
    <3>. QED  BY <3>1, <3>2
  <2>. QED  BY <1>1, <2>1 DEF Trained
<1>. QED  BY <1>1, <1>2, <1>3, <1>4 DEF RunInv

LEMMA WarmsUp ==
  ASSUME RunInv, WarmUpQuery
  PROVE  RunInv'
<1>1. cli' = cli /\ arm' = arm /\ records' = records /\ phase = "warm" /\ phase' \in {"warm", "train"}
  BY DEF WarmUpQuery
<1>2. Placed'
  <2>1. at \in 1 .. Len(Queries) /\ Len(Queries) \in Nat \ {0}
    BY Suite DEF RunInv, Placed
  <2>2. at' \in 1 .. Len(Queries) /\ (phase' = "train" => at' = 1 /\ round' = 0)
    <3>1. CASE at < Len(Queries)
      BY <1>1, <2>1, <3>1 DEF WarmUpQuery
    <3>2. CASE ~(at < Len(Queries))
      <4>1. at' = 1 /\ round' = (IF round + 1 < Passes THEN round + 1 ELSE 0)
            /\ phase' = (IF round + 1 < Passes THEN phase ELSE "train")
        BY <3>2 DEF WarmUpQuery
      <4>. QED  BY <1>1, <2>1, <4>1
    <3>. QED  BY <3>1, <3>2
  <2>. QED  BY <1>1, <2>2 DEF RunInv, Placed
<1>3. Measured'
  <2>1. \A j \in DOMAIN cli.arms, replicate \in Replica, i \in 1 .. Len(Queries) :
           Behind(j, replicate, i)' => Behind(j, replicate, i)
    BY <1>1 DEF Behind
  <2>. QED  BY <1>1, <2>1, NothingMeasured DEF RunInv
<1>4. Trained'
  <2>1. history \in Seq(Range(history))
    BY DEF RunInv, Trained
  <2>2. PICK x : history' = Append(history, x)
    BY DEF WarmUpQuery
  <2>3. history' \in Seq(Range(history'))
    BY <2>1, <2>2, Appended
  <2>. QED  BY <1>1, <2>3 DEF Trained
<1>. QED  BY <1>1, <1>2, <1>3, <1>4 DEF RunInv

LEMMA Trains ==
  ASSUME RunInv, Train
  PROVE  RunInv'
<1>1. /\ cli' = cli /\ arm' = arm /\ records' = records /\ history' = history /\ round' = round /\ at' = at
      /\ phase = "train" /\ phase' = "measure" /\ at = 1 /\ round = 0 /\ prior' = Len(history)
  BY DEF Train, RunInv, Placed
<1>2. Placed'
  <2>1. round' \in Replica
    BY <1>1, PlanAssumption DEF Replica
  <2>. QED  BY <1>1, <2>1 DEF RunInv, Placed
<1>3. Measured'
  <2>1. \A j \in DOMAIN cli.arms, replicate \in Replica, i \in 1 .. Len(Queries) :
           Behind(j, replicate, i)' => Behind(j, replicate, i)
    <3>. SUFFICES ASSUME NEW j \in DOMAIN cli.arms, NEW replicate \in Replica, NEW i \in 1 .. Len(Queries),
                         Behind(j, replicate, i)'
                  PROVE  Behind(j, replicate, i)
      OBVIOUS
    <3>1. replicate \in Nat /\ i \in Nat \ {0}
      BY PlanAssumption, Suite DEF Replica
    <3>2. ~(replicate < 0) /\ ~(i < 1)
      BY <3>1
    <3>. QED  BY <1>1, <3>2 DEF Behind
  <2>. QED  BY <1>1, <2>1, NothingMeasured DEF RunInv
<1>4. Trained'
  <2>1. history \in Seq(Range(history)) /\ Len(history) \in Nat
    BY LenProperties DEF RunInv, Trained
  <2>2. Corrects' = Corrects
    BY <1>1 DEF Corrects, Name
  <2>3. Corrects => l4' = Fitted(Len(history))
    BY DEF Train
  <2>4. Corrects => l4'.upto = prior'
    BY <1>1, <2>3 DEF Fitted
  <2>5. cli.refit > 0 => Lag' = 0
    <3>. SUFFICES ASSUME cli.refit > 0 PROVE Lag' = 0
      OBVIOUS
    <3>1. cli.refit \in Nat \ {0}
      BY CliTyped DEF RunInv
    <3>2. 0 % cli.refit = 0
      BY <3>1, ModNext
    <3>3. Lag' = (round' % cli'.refit) * Len(Queries) + at' - 1
      BY <1>1 DEF Lag
    <3>. QED  BY <1>1, <3>2, <3>3, Suite
  <2>6. cli.refit > 0 => Len(history') - prior' = Lag'
    BY <1>1, <2>1, <2>5
  <2>. QED  BY <1>1, <2>1, <2>2, <2>4, <2>6 DEF Trained
<1>. QED  BY <1>1, <1>2, <1>3, <1>4 DEF RunInv

LEMMA Measures ==
  ASSUME RunInv, MeasureQuery
  PROVE  RunInv'
<1>. DEFINE q == Queries[at]
            seed == ReplicateSeed(round)
            probe == Probe(BuildCtx(seed), q)
<1>1. /\ phase = "measure" /\ cli' = cli /\ arm' = arm /\ round' = round /\ l4' = l4 /\ prior' = prior
      /\ history' = Append(history, Observation(q, probe))
      /\ (at < Len(Queries) /\ at' = at + 1 /\ phase' = phase) \/ (~(at < Len(Queries)) /\ at' = 1 /\ phase' = "refit")
  BY DEF MeasureQuery
<1>2. PICK est \in Composed(probe.est, q) :
        records' = Append(records,
               [arm |-> Name, query |-> q, replicate |-> round, seed |-> seed, est |-> est,
                actual |-> probe.actual, error |-> QError(est, probe.actual)])
  BY DEF MeasureQuery
<1>. DEFINE cell == [arm |-> Name, query |-> q, replicate |-> round, seed |-> seed, est |-> est,
                     actual |-> probe.actual, error |-> QError(est, probe.actual)]
<1>3. /\ cell.arm = Name /\ cell.query = q /\ cell.replicate = round /\ cell.seed = seed
      /\ cell.actual = cli.data[seed][q].actual
  BY DEF Probe, BuildCtx, Tables
<1>4. records' = Append(records, cell)
  BY <1>2
<1>5. /\ at \in 1 .. Len(Queries) /\ Len(Queries) \in Nat \ {0} /\ q \in Query
      /\ round \in Replica /\ arm \in DOMAIN cli.arms /\ Name = cli.arms[arm] /\ Name \in Range(cli.arms)
  BY <1>1, Suite DEF RunInv, Placed, Name, Range
<1>. HIDE DEF q, probe, cell
<1>6. OfCell(cell)
  BY <1>3, <1>5 DEF OfCell
<1>7. Placed'
  <2>1. at' \in 1 .. Len(Queries) /\ phase' \in {"measure", "refit"} /\ (phase' = "refit" => at' = 1)
    BY <1>1, <1>5
  <2>. QED  BY <1>1, <1>5, <2>1 DEF Placed, Replica
<1>8. Measured'
  <2>1. /\ records' \in Seq(Range(records')) /\ \A k \in DOMAIN records' : OfCell(records'[k])
        /\ \A k \in DOMAIN records : k \in DOMAIN records' /\ records'[k] = records[k]
        /\ \E k \in DOMAIN records' : records'[k] = cell
    BY <1>1, <1>4, <1>6, StillMeasured DEF RunInv
  <2>2. \A k \in DOMAIN records' : OfCell(records[k])'
    BY <1>1, <2>1 DEF OfCell
  <2>3. ASSUME NEW j \in DOMAIN cli.arms, NEW replicate \in Replica, NEW i \in 1 .. Len(Queries),
               Behind(j, replicate, i)'
        PROVE  \E k \in DOMAIN records' :
                 records'[k].arm = cli.arms[j] /\ records'[k].query = Queries[i] /\ records'[k].replicate = replicate
    <3>1. CASE Behind(j, replicate, i)
      <4>1. PICK k \in DOMAIN records :
              records[k].arm = cli.arms[j] /\ records[k].query = Queries[i] /\ records[k].replicate = replicate
        BY <3>1 DEF RunInv, Measured
      <4>. QED  BY <2>1, <4>1
    <3>2. CASE ~Behind(j, replicate, i)
      <4>1. j = arm /\ replicate = round /\ i = at
        <5>1. i \in Nat /\ at \in Nat /\ Len(Queries) \in Nat /\ i <= Len(Queries)
          BY <1>5
        <5>2. ~(j < arm) /\ ~(j = arm /\ replicate < round) /\ ~(j = arm /\ replicate = round /\ i < at)
          BY <1>1, <3>2 DEF Behind
        <5>3. j = arm /\ replicate = round
          BY <1>1, <2>3, <5>2 DEF Behind
        <5>4. phase' = "measure" => at' = at + 1 /\ i < at + 1
          BY <1>1, <2>3, <5>2, <5>3 DEF Behind
        <5>5. phase' = "refit" => ~(at < Len(Queries))
          BY <1>1
        <5>. QED  BY <1>1, <5>1, <5>2, <5>3, <5>4, <5>5
      <4>2. cell.arm = cli.arms[j] /\ cell.query = Queries[i] /\ cell.replicate = replicate
        BY <1>3, <1>5, <4>1 DEF q
      <4>. QED  BY <2>1, <4>2
    <3>. QED  BY <3>1, <3>2
  <2>. QED  BY <1>1, <2>1, <2>2, <2>3 DEF Measured
<1>9. Trained'
  <2>1. history \in Seq(Range(history))
    BY DEF RunInv, Trained
  <2>2. history' \in Seq(Range(history')) /\ Len(history') = Len(history) + 1 /\ Len(history) \in Nat
    BY <1>1, <2>1, Appended
  <2>3. Corrects' = Corrects
    BY <1>1 DEF Corrects, Name
  <2>4. Corrects => l4.upto = prior /\ prior \in Nat
    BY <1>1 DEF RunInv, Trained
  <2>5. ASSUME Corrects, cli.variant = "V3", cli.refit > 0 PROVE Len(history') - prior' = Lag'
    <3>. DEFINE rest == (round % cli.refit) * Len(Queries)
    <3>1. Len(history) - prior = Lag
      BY <1>1, <2>5 DEF RunInv, Trained
    <3>2. Lag = rest + at - 1
      BY <1>1 DEF Lag
    <3>3. Lag' = IF phase' = "refit" THEN rest + Len(Queries) ELSE rest + at' - 1
      BY <1>1 DEF Lag
    <3>4. rest \in Int
      <4>1. cli.refit \in Nat \ {0} /\ round \in Int
        BY <1>5, <2>5, CliTyped, PlanAssumption DEF RunInv, Replica
      <4>2. round % cli.refit \in Int
        BY <4>1, DivMod
      <4>. QED  BY <1>5, <4>2
    <3>. HIDE DEF rest
    <3>. QED  BY <1>1, <1>5, <2>2, <2>4, <2>5, <3>1, <3>2, <3>3, <3>4
  <2>. QED  BY <1>1, <2>2, <2>3, <2>4, <2>5 DEF Trained
<1>. QED  BY <1>1, <1>7, <1>8, <1>9 DEF RunInv

LEMMA EndsReplicate ==
  ASSUME RunInv, EndReplicate
  PROVE  RunInv'
<1>1. /\ phase = "refit" /\ cli' = cli /\ at' = at /\ history' = history /\ records' = records /\ AfterReplicate
      /\ at = 1 /\ round \in Replica /\ arm \in DOMAIN cli.arms
  BY DEF EndReplicate, RunInv, Placed
<1>2. /\ Len(cli.arms) \in Nat \ {0} /\ DOMAIN cli.arms = 1 .. Len(cli.arms) /\ cli.refit \in Nat
      /\ Replicates \in Nat \ {0} /\ Len(Queries) \in Nat \ {0} /\ arm \in Nat /\ round \in Nat
  BY <1>1, CliTyped, PlanAssumption, Suite DEF RunInv, Replica
<1>3. \/ round + 1 < Replicates /\ phase' = "measure" /\ round' = round + 1 /\ arm' = arm
      \/ round + 1 = Replicates /\ arm < Len(cli.arms) /\ phase' = "seed" /\ round' = 0 /\ arm' = arm + 1
      \/ round + 1 = Replicates /\ arm = Len(cli.arms) /\ phase' = "write" /\ round' = round /\ arm' = arm
  BY <1>1 DEF AfterReplicate
<1>4. Placed'
  <2>1. arm' \in DOMAIN cli.arms /\ phase' \in {"measure", "seed", "write"}
    BY <1>1, <1>2, <1>3
  <2>2. phase' = "measure" => round' \in Replica
    BY <1>2, <1>3 DEF Replica
  <2>. QED  BY <1>1, <1>2, <2>1, <2>2 DEF Placed, Replica
<1>5. Measured'
  <2>1. ASSUME NEW j \in DOMAIN cli.arms, NEW replicate \in Replica, NEW i \in 1 .. Len(Queries),
               Behind(j, replicate, i)'
        PROVE  Behind(j, replicate, i)
    <3>1. j \in 1 .. Len(cli.arms) /\ replicate \in 0 .. Replicates - 1 /\ i \in Nat \ {0}
      BY <1>2 DEF Replica
    <3>2. (j < arm \/ (j = arm /\ (replicate < round \/ replicate = round))) => Behind(j, replicate, i)
      BY <1>1 DEF Behind
    <3>3. CASE round + 1 < Replicates /\ phase' = "measure" /\ round' = round + 1 /\ arm' = arm
      <4>1. j < arm \/ (j = arm /\ (replicate < round + 1 \/ i < 1))
        BY <1>1, <2>1, <3>3 DEF Behind
      <4>. QED  BY <1>2, <3>1, <3>2, <4>1
    <3>4. CASE round + 1 = Replicates /\ arm < Len(cli.arms) /\ phase' = "seed" /\ round' = 0 /\ arm' = arm + 1
      <4>1. j < arm + 1
        BY <2>1, <3>4 DEF Behind
      <4>. QED  BY <1>2, <3>1, <3>2, <3>4, <4>1
    <3>5. CASE round + 1 = Replicates /\ arm = Len(cli.arms) /\ phase' = "write" /\ round' = round /\ arm' = arm
      BY <1>2, <3>1, <3>2, <3>5
    <3>. QED  BY <1>3, <3>3, <3>4, <3>5
  <2>. QED  BY <1>1, <2>1, NothingMeasured DEF RunInv
<1>6. Trained'
  <2>1. history \in Seq(Range(history)) /\ Len(history) \in Nat
    BY LenProperties DEF RunInv, Trained
  <2>2. ASSUME phase' \in {"measure", "refit"}, Corrects'
        PROVE  /\ l4'.upto = prior' /\ prior' \in Nat
               /\ cli.variant = "V3" /\ cli.refit > 0 => Len(history') - prior' = Lag'
    <3>1. phase' = "measure" /\ round' = round + 1 /\ arm' = arm
      BY <1>3, <2>2
    <3>2. Corrects
      BY <1>1, <2>2, <3>1 DEF Corrects, Name
    <3>3. /\ l4.upto = prior /\ prior \in Nat
          /\ cli.variant = "V3" /\ cli.refit > 0 => Len(history) - prior = Lag
      BY <1>1, <3>2 DEF RunInv, Trained
    <3>. DEFINE done(n) == (n % cli.refit) * Len(Queries)
    <3>4. Lag = done(round) + Len(Queries) /\ Lag' = done(round + 1) + at' - 1
      BY <1>1, <3>1 DEF Lag
    <3>5. CASE RefitDue
      <4>1. l4' = Fitted(Len(history)) /\ prior' = Len(history)
        BY <3>5 DEF EndReplicate
      <4>2. (round + 1) % cli.refit = 0
        BY <3>5 DEF RefitDue
      <4>3. done(round + 1) = 0
        BY <1>2, <4>2
      <4>. HIDE DEF done
      <4>. QED  BY <1>1, <2>1, <3>4, <4>1, <4>3 DEF Fitted
    <3>6. CASE ~RefitDue
      <4>1. l4' = l4 /\ prior' = prior
        BY <3>6 DEF EndReplicate
      <4>2. ASSUME cli.variant = "V3", cli.refit > 0 PROVE Len(history') - prior' = Lag'
        <5>1. cli.refit \in Nat \ {0} /\ (round + 1) % cli.refit # 0
          BY <1>2, <3>2, <3>6, <4>2 DEF RefitDue
        <5>2. (round + 1) % cli.refit = (round % cli.refit) + 1 /\ round % cli.refit \in Nat
          <6>. DEFINE d == cli.refit
          <6>1. d \in Nat \ {0} /\ (round + 1) % d # 0 /\ round \in Nat
            BY <1>2, <5>1
          <6>. HIDE DEF d
          <6>2. round % d \in 0 .. d - 1
            BY <6>1, ModNext
          <6>3. (round + 1) % d = (round % d) + 1
            BY <6>1, ModNext
          <6>. QED  BY <6>1, <6>2, <6>3 DEF d
        <5>3. done(round + 1) = done(round) + Len(Queries) /\ done(round) \in Int
          BY <1>2, <5>2
        <5>. HIDE DEF done
        <5>. QED  BY <1>1, <1>2, <2>1, <3>3, <3>4, <4>1, <4>2, <5>3
      <4>. QED  BY <3>3, <4>1, <4>2
    <3>. QED  BY <3>5, <3>6
  <2>. QED  BY <1>1, <2>1, <2>2 DEF Trained
<1>. QED  BY <1>1, <1>4, <1>5, <1>6 DEF RunInv

LEMMA Writes ==
  ASSUME RunInv, WriteRecords
  PROVE  RunInv'
<1>1. /\ cli' = cli /\ arm' = arm /\ round' = round /\ at' = at /\ history' = history /\ l4' = l4 /\ prior' = prior
      /\ records' = records /\ phase = "write" /\ phase' = "done"
  BY DEF WriteRecords
<1>2. Placed'
  BY <1>1 DEF RunInv, Placed
<1>3. Measured'
  <2>1. \A j \in DOMAIN cli.arms, replicate \in Replica, i \in 1 .. Len(Queries) : Behind(j, replicate, i)
    BY <1>1 DEF Behind
  <2>. QED  BY <1>1, <2>1, NothingMeasured DEF RunInv
<1>4. Trained'
  BY <1>1 DEF RunInv, Trained
<1>. QED  BY <1>1, <1>2, <1>3, <1>4 DEF RunInv

LEMMA Starts == AblationInit => AblationInv
<1>1. ASSUME RunInit, script = NoScript PROVE AblationInv
  <2>1. /\ cli \in Commands /\ arm = 1 /\ phase = "seed" /\ round = 0 /\ at = 1 /\ history = <<>> /\ records = <<>>
    BY <1>1 DEF RunInit
  <2>2. Placed
    BY <2>1, CliTyped, Suite DEF Placed
  <2>3. <<>> \in Seq(Range(<<>>)) /\ DOMAIN <<>> = {}
    BY EmptySeq
  <2>4. Measured
    <3>1. ASSUME NEW j \in DOMAIN cli.arms, NEW replicate \in Replica, NEW i \in 1 .. Len(Queries)
          PROVE  ~Behind(j, replicate, i)
      <4>1. j \in Nat \ {0}
        BY <2>1, CliTyped
      <4>. QED  BY <2>1, <4>1 DEF Behind
    <3>. QED  BY <2>1, <2>3, <3>1 DEF Measured
  <2>5. Trained
    BY <2>1, <2>3 DEF Trained
  <2>6. ScriptInv
    BY <1>1 DEF NoScript, Script, ScriptInv
  <2>. QED  BY <2>1, <2>2, <2>4, <2>5, <2>6 DEF RunInv, AblationInv
<1>2. ASSUME NoRun, ScriptInit PROVE AblationInv
  <2>1. ScriptInv
    <3>1. CASE \E m \in 1 .. MaxTests : \E p \in [1 .. m -> 0 .. Unit] : script = Script("bh", p, FALSE)
      <4>1. PICK m \in 1 .. MaxTests : \E p \in [1 .. m -> 0 .. Unit] : script = Script("bh", p, FALSE)
        BY <3>1
      <4>2. PICK p \in [1 .. m -> 0 .. Unit] : script = Script("bh", p, FALSE)
        BY <4>1
      <4>. QED  BY <4>2 DEF Script, ScriptInv
    <3>2. CASE \E n \in 1 .. MaxPairs : \E t, b \in [1 .. n -> Value \cup {Null}], scipy \in BOOLEAN :
                 script = Script("wilcoxon", <<t, b>>, scipy)
      <4>1. script.name = "wilcoxon"
        BY <3>2 DEF Script
      <4>2. script = [name |-> script.name, input |-> script.input, scipy |-> script.scipy, output |-> script.output]
        BY <3>2 DEF Script
      <4>3. \E n \in 1 .. MaxPairs : \E t, b \in Sample(n) : script.input = <<t, b>>
        <5>1. PICK n \in 1 .. MaxPairs : \E t, b \in Sample(n), scipy \in BOOLEAN :
                script = Script("wilcoxon", <<t, b>>, scipy)
          BY <3>2 DEF Sample
        <5>2. PICK t \in Sample(n), b \in Sample(n), scipy \in BOOLEAN : script = Script("wilcoxon", <<t, b>>, scipy)
          BY <5>1
        <5>3. script.input = <<t, b>>
          BY <5>2 DEF Script
        <5>. QED  BY <5>3
      <4>4. script.output = Null
        BY <3>2 DEF Script
      <4>. QED  BY <4>1, <4>2, <4>3, <4>4 DEF ScriptInv
    <3>. QED  BY <1>2, <3>1, <3>2 DEF ScriptInit
  <2>. QED  BY <1>2, <2>1 DEF NoRun, AblationInv
<1>. QED  BY <1>1, <1>2 DEF AblationInit

LEMMA Prints ==
  ASSUME ScriptInv, RunScript
  PROVE  ScriptInv'
<1>. DEFINE out == IF script.name = "bh" THEN BenjaminiHochberg(script.input)
                   ELSE WilcoxonPaired(Loaded(script.input[1]), Loaded(script.input[2]), script.scipy)
<1>1. script' = [script EXCEPT !.output = out]
  BY DEF RunScript
<1>. HIDE DEF out
<1>2. script = [name |-> script.name, input |-> script.input, scipy |-> script.scipy, output |-> script.output]
  BY DEF ScriptInv
<1>3. script' = [name |-> script.name, input |-> script.input, scipy |-> script.scipy, output |-> out]
  BY <1>1, <1>2
<1>4. script'.name = script.name /\ script'.input = script.input /\ script'.scipy = script.scipy /\ script'.output = out
  BY <1>3
<1>5. script'.name = "bh" => script'.output = BenjaminiHochberg(script'.input)
  BY <1>4 DEF out
<1>6. script'.name = "wilcoxon" =>
        script'.output = WilcoxonPaired(Loaded(script'.input[1]), Loaded(script'.input[2]), script'.scipy)
  BY <1>4 DEF out
<1>7. script'.name = "wilcoxon" => \E n \in 1 .. MaxPairs : \E t, b \in Sample(n) : script'.input = <<t, b>>
  BY <1>4 DEF ScriptInv
<1>. QED  BY <1>3, <1>4, <1>5, <1>6, <1>7 DEF ScriptInv

LEMMA AblationSteps == AblationInv /\ [AblationNext]_allVars => AblationInv'
<1>. SUFFICES ASSUME AblationInv, [AblationNext]_allVars PROVE AblationInv'
  OBVIOUS
<1>1. CASE RunStep /\ UNCHANGED script
  <2>1. phase # "done"
    BY <1>1 DEF RunStep, OpenStore, WarmUpQuery, Train, MeasureQuery, EndReplicate, WriteRecords
  <2>2. RunInv
    BY <2>1 DEF AblationInv
  <2>3. RunInv'
    <3>1. CASE OpenStore
      BY <2>2, <3>1, Opens
    <3>2. CASE WarmUpQuery
      BY <2>2, <3>2, WarmsUp
    <3>3. CASE Train
      BY <2>2, <3>3, Trains
    <3>4. CASE MeasureQuery
      BY <2>2, <3>4, Measures
    <3>5. CASE EndReplicate
      BY <2>2, <3>5, EndsReplicate
    <3>6. CASE WriteRecords
      BY <2>2, <3>6, Writes
    <3>. QED  BY <1>1, <3>1, <3>2, <3>3, <3>4, <3>5, <3>6 DEF RunStep
  <2>4. ScriptInv'
    BY <1>1 DEF AblationInv, ScriptInv
  <2>. QED  BY <2>3, <2>4 DEF AblationInv
<1>2. CASE UNCHANGED runVars
  <2>1. ((cli = Absent /\ phase = "done") \/ RunInv)'
    <3>1. Placed => Placed'
      BY <1>2 DEF runVars, Placed
    <3>2. Measured => Measured'
      BY <1>2 DEF runVars, Measured, Behind, OfCell
    <3>3. Trained => Trained'
      BY <1>2 DEF runVars, Trained, Lag, Corrects, Name
    <3>4. cli' = cli /\ phase' = phase
      BY <1>2 DEF runVars
    <3>5. (cli = Absent /\ phase = "done") \/ (cli \in Commands /\ Placed /\ Measured /\ Trained)
      BY DEF AblationInv, RunInv
    <3>. QED  BY <3>1, <3>2, <3>3, <3>4, <3>5 DEF RunInv
  <2>2. ScriptInv'
    <3>1. CASE RunScript
      BY <3>1, Prints DEF AblationInv
    <3>2. CASE script' = script
      BY <3>2 DEF AblationInv, ScriptInv
    <3>. QED  BY <1>2, <3>1, <3>2 DEF AblationNext, allVars, runVars,
              RunStep, OpenStore, WarmUpQuery, Train, MeasureQuery, EndReplicate, WriteRecords
  <2>. QED  BY <2>1, <2>2 DEF AblationInv
<1>. QED  BY <1>1, <1>2 DEF AblationNext, allVars

\* Every reachable state of an ablation, or of a script by itself.
THEOREM AblationStates == AblationSpec => []AblationInv
<1>1. AblationInit => AblationInv
  BY Starts
<1>2. AblationInv /\ [AblationNext]_allVars => AblationInv'
  BY AblationSteps
<1>. QED  BY <1>1, <1>2, PTL DEF AblationSpec

----------------------------------------------------------------------------

\* The keys the records of one arm have.
Cells == {<<Queries[ir[1]], ir[2], ReplicateSeed(ir[2])>> : ir \in (1 .. Len(Queries)) \X Replica}

LEMMA CountCells == Cardinality(Cells) = Replicates * Len(Queries)
<1>. DEFINE grid == (1 .. Len(Queries)) \X Replica
            key == [ir \in grid |-> <<Queries[ir[1]], ir[2], ReplicateSeed(ir[2])>>]
<1>1. Len(Queries) \in Nat \ {0} /\ Replicates \in Nat \ {0}
  BY Suite, PlanAssumption
<1>2. IsFiniteSet(1 .. Len(Queries)) /\ Cardinality(1 .. Len(Queries)) = Len(Queries)
  BY <1>1, FS_Interval
<1>3. IsFiniteSet(Replica) /\ Cardinality(Replica) = Replicates
  <2>1. Cardinality(0 .. Replicates - 1) = Replicates /\ IsFiniteSet(0 .. Replicates - 1)
    BY <1>1, FS_Interval
  <2>. QED  BY <2>1 DEF Replica
<1>4. IsFiniteSet(grid) /\ Cardinality(grid) = Len(Queries) * Replicates
  BY <1>2, <1>3, FS_Product
<1>5. key \in Injection(grid, Cells)
  <2>1. ASSUME NEW a \in grid, NEW b \in grid, key[a] = key[b] PROVE a = b
    <3>1. Queries[a[1]] = Queries[b[1]] /\ a[2] = b[2] /\ a[1] \in 1 .. Len(Queries) /\ b[1] \in 1 .. Len(Queries)
      BY <2>1
    <3>2. a[1] = b[1]
      BY <3>1, Suite
    <3>3. a = <<a[1], a[2]>> /\ b = <<b[1], b[2]>>
      OBVIOUS
    <3>. QED  BY <3>1, <3>2, <3>3
  <2>2. key \in [grid -> Cells]
    BY DEF Cells
  <2>. HIDE DEF key, grid
  <2>. QED  BY <2>1, <2>2 DEF Injection, IsInjective
<1>6. key \in Surjection(grid, Cells)
  <2>1. key \in [grid -> Cells] /\ \A c \in Cells : \E ir \in grid : key[ir] = c
    BY DEF Cells
  <2>. HIDE DEF key, grid
  <2>. QED  BY <2>1 DEF Surjection
<1>. HIDE DEF key, grid
<1>7. Cardinality(Cells) = Cardinality(grid)
  BY <1>4, <1>5, <1>6, FS_Surjection
<1>. QED  BY <1>1, <1>4, <1>7

\* The records of a key, once its arms are measured.
LEMMA GroupsOf ==
  ASSUME RunInv, phase = "done", NEW j \in DOMAIN cli.arms
  PROVE  LET groups == GroupByKey(records)
             a == cli.arms[j]
         IN /\ DOMAIN groups \subseteq Cells
            /\ \A c \in Cells : c \in DOMAIN groups /\ a \in DOMAIN groups[c]
            /\ \A c \in DOMAIN groups : a \in DOMAIN groups[c] => groups[c][a].actual = cli.data[c[3]][c[1]].actual
<1>. DEFINE groups == GroupByKey(records)
            a == cli.arms[j]
            Of(c) == {k \in DOMAIN records : KeyOf(records[k]) = c}
            By(c) == {k \in Of(c) : records[k].arm = a}
            n == Len(records)
<1>1. DOMAIN records = 1 .. n /\ n \in Nat /\ \A k \in DOMAIN records : OfCell(records[k])
  BY LenProperties DEF RunInv, Measured
<1>2. DOMAIN groups = {KeyOf(records[k]) : k \in DOMAIN records}
  BY DEF GroupByKey
<1>3. ASSUME NEW c \in DOMAIN groups
      PROVE  /\ DOMAIN groups[c] = {records[k].arm : k \in Of(c)}
             /\ a \in DOMAIN groups[c] => groups[c][a] = records[Max(By(c))]
  BY DEF GroupByKey
<1>4. DOMAIN groups \subseteq Cells
  <2>. SUFFICES ASSUME NEW k \in DOMAIN records PROVE KeyOf(records[k]) \in Cells
    BY <1>2
  <2>1. OfCell(records[k])
    BY <1>1
  <2>2. PICK i \in 1 .. Len(Queries) : Queries[i] = records[k].query
    BY <2>1, Suite DEF OfCell
  <2>. DEFINE ir == <<i, records[k].replicate>>
  <2>3. ir \in (1 .. Len(Queries)) \X Replica
    BY <2>1 DEF OfCell
  <2>4. KeyOf(records[k]) = <<Queries[ir[1]], ir[2], ReplicateSeed(ir[2])>>
    BY <2>1, <2>2 DEF OfCell, KeyOf
  <2>. HIDE DEF ir
  <2>. QED  BY <2>3, <2>4 DEF Cells
<1>5. ASSUME NEW c \in Cells PROVE c \in DOMAIN groups /\ a \in DOMAIN groups[c]
  <2>1. PICK i \in 1 .. Len(Queries), replicate \in Replica : c = <<Queries[i], replicate, ReplicateSeed(replicate)>>
    <3>1. PICK ir \in (1 .. Len(Queries)) \X Replica : c = <<Queries[ir[1]], ir[2], ReplicateSeed(ir[2])>>
      BY DEF Cells
    <3>2. ir[1] \in 1 .. Len(Queries) /\ ir[2] \in Replica
      OBVIOUS
    <3>. QED  BY <3>1, <3>2
  <2>2. Behind(j, replicate, i)
    BY DEF Behind
  <2>3. PICK k \in DOMAIN records :
          records[k].arm = a /\ records[k].query = Queries[i] /\ records[k].replicate = replicate
    BY <2>2 DEF RunInv, Measured
  <2>4. KeyOf(records[k]) = c
    BY <1>1, <2>1, <2>3 DEF OfCell, KeyOf
  <2>5. k \in Of(c)
    BY <2>4
  <2>. HIDE DEF groups, a, Of
  <2>6. c \in DOMAIN groups
    BY <1>2, <2>4
  <2>7. DOMAIN groups[c] = {records[x].arm : x \in Of(c)}
    BY <1>3, <2>6
  <2>. QED  BY <2>3, <2>5, <2>6, <2>7
<1>6. ASSUME NEW c \in DOMAIN groups, a \in DOMAIN groups[c]
      PROVE  groups[c][a].actual = cli.data[c[3]][c[1]].actual
  <2>1. By(c) \in SUBSET (0 .. n) /\ By(c) # {}
    <3>1. DOMAIN groups[c] = {records[x].arm : x \in Of(c)}
      BY <1>3
    <3>2. PICK k \in Of(c) : records[k].arm = a
      <4>. HIDE DEF groups, a, Of
      <4>. QED  BY <1>6, <3>1
    <3>3. k \in By(c)
      BY <3>2
    <3>4. By(c) \subseteq 1 .. n
      BY <1>1
    <3>. QED  BY <1>1, <3>3, <3>4
  <2>. DEFINE k == Max(By(c))
  <2>2. k \in By(c)
    <3>. HIDE DEF By, n
    <3>. QED  BY <1>1, <2>1, MaxExists
  <2>3. groups[c][a] = records[k]
    BY <1>3, <1>6
  <2>. HIDE DEF k, groups
  <2>4. k \in DOMAIN records /\ KeyOf(records[k]) = c /\ OfCell(records[k])
    BY <1>1, <2>2
  <2>5. c[1] = records[k].query /\ c[3] = records[k].seed
    BY <2>4 DEF KeyOf
  <2>. QED  BY <2>3, <2>4, <2>5 DEF OfCell
<1>. QED  BY <1>4, <1>5, <1>6

LEMMA CellsPair == AblationInv => PairedCells
<1>. SUFFICES ASSUME AblationInv, phase = "done", cli # Absent,
                     NEW i \in DOMAIN cli.arms, NEW j \in DOMAIN cli.arms
              PROVE  LET groups == GroupByKey(records)
                         a == cli.arms[i]
                         b == cli.arms[j]
                     IN /\ Cardinality(PairVector(groups, a, b)) = Replicates * Len(Queries)
                        /\ \A k \in PairVector(groups, a, b) : groups[k][a].actual = groups[k][b].actual
  BY DEF PairedCells
<1>. DEFINE groups == GroupByKey(records)
            a == cli.arms[i]
            b == cli.arms[j]
<1>1. RunInv
  BY DEF AblationInv
<1>2. /\ DOMAIN groups \subseteq Cells
      /\ \A c \in Cells : c \in DOMAIN groups /\ a \in DOMAIN groups[c]
      /\ \A c \in DOMAIN groups : a \in DOMAIN groups[c] => groups[c][a].actual = cli.data[c[3]][c[1]].actual
  BY <1>1, GroupsOf
<1>3. /\ \A c \in Cells : c \in DOMAIN groups /\ b \in DOMAIN groups[c]
      /\ \A c \in DOMAIN groups : b \in DOMAIN groups[c] => groups[c][b].actual = cli.data[c[3]][c[1]].actual
  BY <1>1, GroupsOf
<1>. HIDE DEF groups, a, b
<1>4. PairVector(groups, a, b) = Cells
  BY <1>2, <1>3 DEF PairVector
<1>5. \A k \in Cells : groups[k][a].actual = groups[k][b].actual
  BY <1>2, <1>3
<1>. QED  BY <1>4, <1>5, CountCells DEF groups, a, b

LEMMA PriorsAreCurrent == AblationInv => TrainedAsUsed
<1>. SUFFICES ASSUME AblationInv, phase = "measure", Corrects, cli.variant # "V1"
              PROVE  /\ \A q \in Query, est \in 0 .. Largest : Features(est, q, prior) = Features(est, q, l4.upto)
                     /\ cli.variant = "V3" /\ cli.refit > 0 => Len(history) - l4.upto < cli.refit * Len(Queries)
  BY DEF TrainedAsUsed
<1>1. RunInv
  BY DEF AblationInv
<1>2. /\ l4.upto = prior /\ prior \in Nat
      /\ cli.variant = "V3" /\ cli.refit > 0 => Len(history) - prior = Lag
  BY <1>1 DEF RunInv, Trained
<1>3. ASSUME cli.variant = "V3", cli.refit > 0 PROVE Lag < cli.refit * Len(Queries)
  <2>. DEFINE d == cli.refit
              x == round % d
              m == Len(Queries)
  <2>1. d \in Nat \ {0} /\ round \in Nat /\ m \in Nat \ {0} /\ at \in 1 .. m
    BY <1>1, <1>3, CliTyped, Suite, PlanAssumption DEF RunInv, Placed, Replica
  <2>2. Lag = x * m + at - 1
    BY DEF Lag
  <2>. HIDE DEF d, m
  <2>3. x \in 0 .. d - 1
    BY <2>1, DivMod
  <2>. HIDE DEF x
  <2>4. m * (x + 1) <= m * d
    <3>1. x + 1 \in Nat /\ x + 1 <= d /\ d \in Nat /\ m \in Nat
      BY <2>1, <2>3
    <3>. QED  BY <3>1, TimesGrows
  <2>5. m * (x + 1) = x * m + m /\ m * d = d * m /\ x * m \in Int /\ d * m \in Int
    BY <2>1, <2>3
  <2>. QED  BY <2>1, <2>2, <2>4, <2>5 DEF d, m
<1>. QED  BY <1>2, <1>3

LEMMA RejectsTheUnion == AblationInv => StepUp
<1>. SUFFICES ASSUME AblationInv, script.name = "bh", script.output # Null
              PROVE  LET p == script.input
                         m == Len(p)
                         consistent(s) == \A i \in s : m * p[i] <= Cardinality(s) * Alpha
                     IN /\ script.output.rejected = UNION {s \in SUBSET DOMAIN p : consistent(s)}
                        /\ script.output.rejected = {i \in DOMAIN p : script.output.adjusted[i] <= Exact * Alpha}
  BY DEF StepUp
<1>. DEFINE p == script.input
<1>1. p \in UNION {[1 .. m -> 0 .. Unit] : m \in 1 .. MaxTests} /\ script.output = BenjaminiHochberg(p)
  BY DEF AblationInv, ScriptInv
<1>. HIDE DEF p
<1>2. PICK m \in 1 .. MaxTests : p \in [1 .. m -> 0 .. Unit]
  BY <1>1
<1>3. m \in Nat
  BY UnitAssumption
<1>4. DOMAIN p = 1 .. m /\ Len(p) = m
  <2>1. p \in Seq(0 .. Unit)
    BY <1>2, <1>3, SeqDef
  <2>. QED  BY <1>2, <1>3, <2>1, LenProperties
<1>5. /\ BenjaminiHochberg(p).rejected
              = UNION {s \in SUBSET (1 .. m) : \A i \in s : m * p[i] <= Cardinality(s) * Alpha}
      /\ BenjaminiHochberg(p).rejected = {i \in 1 .. m : BenjaminiHochberg(p).adjusted[i] <= Exact * Alpha}
  BY <1>2, ConsistentUnion
<1>. QED  BY <1>1, <1>4, <1>5 DEF p

----------------------------------------------------------------------------
(* The signed-rank test.  A sum over a finite set does not depend on the   *)
(* order it is taken in, a sort gives equal numbers the mean of their      *)
(* places, and a set of ranks counted as positive is an assignment of      *)
(* signs.                                                                  *)

----------------------------------------------------------------------------
(* Folds over finite sets.                                                 *)

Pick(s) == CHOOSE x \in s : TRUE

IsFold(g, U, base, step) ==
  g = [s \in U |-> IF s = {} THEN base ELSE step[<<Pick(s), g[s \ {Pick(s)}]>>]]

Small(S, k) == {s \in SUBSET S : Cardinality(s) <= k}
Folded(S, base, step, k) == \E g \in [Small(S, k) -> Int] : IsFold(g, Small(S, k), base, step)

LEMMA LeastOf ==
  ASSUME NEW R \in SUBSET Nat, R # {}
  PROVE  \E r \in R : \A q \in R : r <= q
BY MinExists

LEMMA Smaller ==
  ASSUME NEW s, IsFiniteSet(s), s # {}
  PROVE  /\ Pick(s) \in s /\ IsFiniteSet(s \ {Pick(s)}) /\ Cardinality(s) \in Nat \ {0}
         /\ Cardinality(s \ {Pick(s)}) = Cardinality(s) - 1
<1>1. Pick(s) \in s
  BY DEF Pick
<1>. QED  BY <1>1, FS_RemoveElement, FS_CardinalityType, FS_EmptySet

LEMMA FoldFurther ==
  ASSUME NEW S, IsFiniteSet(S), NEW base \in Int, NEW step \in [S \X Int -> Int], NEW k \in Nat, Folded(S, base, step, k)
  PROVE  Folded(S, base, step, k + 1)
<1>. DEFINE U == Small(S, k)
            W == Small(S, k + 1)
            rest(s) == s \ {Pick(s)}
<1>1. PICK g \in [U -> Int] : IsFold(g, U, base, step)
  BY DEF Folded
<1>. DEFINE f == [s \in W |-> IF s = {} THEN base ELSE step[<<Pick(s), g[rest(s)]>>]]
<1>2. ASSUME NEW s \in W, s # {} PROVE rest(s) \in U /\ rest(s) \in W /\ Pick(s) \in S
  <2>1. s \in SUBSET S /\ Cardinality(s) <= k + 1 /\ IsFiniteSet(s)
    BY FS_Subset DEF Small
  <2>2. Pick(s) \in s /\ Cardinality(s) \in Nat /\ Cardinality(rest(s)) = Cardinality(s) - 1
    BY <1>2, <2>1, Smaller
  <2>3. Cardinality(rest(s)) <= k /\ Cardinality(rest(s)) <= k + 1
    BY <2>1, <2>2
  <2>4. rest(s) \in SUBSET S
    BY <2>1
  <2>. HIDE DEF rest
  <2>. QED  BY <2>1, <2>2, <2>3, <2>4 DEF Small
<1>3. f \in [W -> Int]
  <2>1. ASSUME NEW s \in W, s # {} PROVE step[<<Pick(s), g[rest(s)]>>] \in Int
    <3>. DEFINE r == rest(s)
    <3>1. r \in U /\ Pick(s) \in S
      BY <1>2, <2>1
    <3>. HIDE DEF r
    <3>2. g[r] \in Int
      BY <3>1
    <3>3. step[<<Pick(s), g[r]>>] \in Int
      BY <3>1, <3>2
    <3>. QED  BY <3>3 DEF r
  <2>. HIDE DEF rest
  <2>. QED  BY <2>1
<1>4. ASSUME NEW s \in U PROVE s \in W /\ f[s] = g[s]
  <2>1. s \in W
    <3>1. s \in SUBSET S /\ Cardinality(s) <= k /\ Cardinality(s) \in Nat
      BY FS_Subset, FS_CardinalityType DEF Small
    <3>2. Cardinality(s) <= k + 1
      BY <3>1
    <3>. QED  BY <3>1, <3>2 DEF Small
  <2>2. g[s] = IF s = {} THEN base ELSE step[<<Pick(s), g[rest(s)]>>]
    BY <1>1 DEF IsFold
  <2>. HIDE DEF U, W, rest
  <2>. QED  BY <2>1, <2>2
<1>5. ASSUME NEW s \in W, s # {} PROVE f[rest(s)] = g[rest(s)]
  BY <1>2, <1>4, <1>5
<1>6. IsFold(f, W, base, step)
  <2>1. f = [s \in W |-> IF s = {} THEN base ELSE step[<<Pick(s), g[rest(s)]>>]]
    OBVIOUS
  <2>. HIDE DEF f, rest
  <2>2. f = [s \in W |-> IF s = {} THEN base ELSE step[<<Pick(s), f[rest(s)]>>]]
    BY <1>5, <2>1
  <2>. QED  BY <2>2 DEF IsFold, rest
<1>. HIDE DEF f
<1>. QED  BY <1>3, <1>6 DEF Folded

LEMMA FoldExists ==
  ASSUME NEW S, IsFiniteSet(S), NEW base \in Int, NEW step \in [S \X Int -> Int]
  PROVE  \E g \in [SUBSET S -> Int] : IsFold(g, SUBSET S, base, step)
<1>. DEFINE R == {k \in Nat : ~ Folded(S, base, step, k)}
<1>1. R = {}
  <2>. SUFFICES ASSUME R # {} PROVE FALSE
    OBVIOUS
  <2>1. PICK k \in R : \A q \in R : k <= q
    BY LeastOf
  <2>2. Folded(S, base, step, 0)
    <3>. DEFINE U == Small(S, 0)
                f == [s \in U |-> base]
    <3>1. \A s \in U : s = {}
      <4>. SUFFICES ASSUME NEW s \in U PROVE s = {}
        OBVIOUS
      <4>1. IsFiniteSet(s) /\ Cardinality(s) <= 0
        BY FS_Subset DEF Small
      <4>. QED  BY <4>1, FS_CardinalityType, FS_EmptySet
    <3>2. f \in [U -> Int]
      OBVIOUS
    <3>. HIDE DEF U
    <3>3. f = [s \in U |-> IF s = {} THEN base ELSE step[<<Pick(s), f[s \ {Pick(s)}]>>]]
      BY <3>1
    <3>. HIDE DEF f
    <3>. QED  BY <3>2, <3>3 DEF Folded, IsFold, U
  <2>3. k \in Nat /\ k # 0 /\ ~ Folded(S, base, step, k)
    BY <2>1, <2>2
  <2>4. k - 1 \in Nat /\ (k - 1) + 1 = k /\ ~ (k <= k - 1)
    BY <2>3
  <2>5. k - 1 \notin R
    BY <2>1, <2>4
  <2>6. Folded(S, base, step, k - 1)
    BY <2>4, <2>5
  <2>7. Folded(S, base, step, (k - 1) + 1)
    BY <2>4, <2>6, FoldFurther
  <2>. QED  BY <2>3, <2>4, <2>7
<1>2. Cardinality(S) \in Nat
  BY FS_CardinalityType
<1>3. Small(S, Cardinality(S)) = SUBSET S
  BY FS_Subset DEF Small
<1>4. Folded(S, base, step, Cardinality(S))
  BY <1>1, <1>2
<1>. QED  BY <1>3, <1>4 DEF Folded

\* The function that a sum, or a product, is the value of at S.
IsSum(g, S, w) == g = [s \in SUBSET S |-> IF s = {} THEN 0 ELSE w[Pick(s)] + g[s \ {Pick(s)}]]

LEMMA SumExists ==
  ASSUME NEW S, IsFiniteSet(S), NEW w \in [S -> Int]
  PROVE  \E g \in [SUBSET S -> Int] : IsSum(g, S, w)
<1>. DEFINE step == [a \in S \X Int |-> w[a[1]] + a[2]]
<1>1. step \in [S \X Int -> Int]
  OBVIOUS
<1>2. \A x \in S, v \in Int : step[<<x, v>>] = w[x] + v
  OBVIOUS
<1>. HIDE DEF step
<1>3. PICK g \in [SUBSET S -> Int] : IsFold(g, SUBSET S, 0, step)
  <2>1. 0 \in Int
    OBVIOUS
  <2>. QED  BY <1>1, <2>1, FoldExists
<1>4. ASSUME NEW s \in SUBSET S, s # {} PROVE step[<<Pick(s), g[s \ {Pick(s)}]>>] = w[Pick(s)] + g[s \ {Pick(s)}]
  <2>1. Pick(s) \in S /\ s \ {Pick(s)} \in SUBSET S
    BY <1>4 DEF Pick
  <2>. QED  BY <1>2, <2>1
<1>5. g = [s \in SUBSET S |-> IF s = {} THEN 0 ELSE step[<<Pick(s), g[s \ {Pick(s)}]>>]]
  BY <1>3 DEF IsFold
<1>6. g = [s \in SUBSET S |-> IF s = {} THEN 0 ELSE w[Pick(s)] + g[s \ {Pick(s)}]]
  BY <1>4, <1>5
<1>. QED  BY <1>6 DEF IsSum

LEMMA Matched ==
  ASSUME NEW S, IsFiniteSet(S), NEW R, NEW f \in [S -> R],
         \A i, j \in S : f[i] = f[j] => i = j, \A r \in R : \E i \in S : f[i] = r
  PROVE  IsFiniteSet(R) /\ Cardinality(R) \in Nat /\ Cardinality(S) = Cardinality(R)
<1>1. f \in Bijection(S, R)
  BY DEF Bijection, Injection, IsInjective, Surjection
<1>2. IsFiniteSet(R) /\ Cardinality(R) = Cardinality(S)
  BY <1>1, FS_Bijection DEF ExistsBijection
<1>. QED  BY <1>2, FS_CardinalityType

\* g sums the weights w of every set of elements of S, in any order.
Additive(g, S, w) ==
  /\ g \in [SUBSET S -> Int] /\ g[{}] = 0
  /\ \A s \in SUBSET S : \A x \in s : g[s] = w[x] + g[s \ {x}]

LEMMA SumIsAdditive ==
  ASSUME NEW S, IsFiniteSet(S), NEW w \in [S -> Int], NEW g \in [SUBSET S -> Int], IsSum(g, S, w)
  PROVE  Additive(g, S, w)
<1>. DEFINE Good(s) == \A x \in s : g[s] = w[x] + g[s \ {x}]
            Bad == {s \in SUBSET S : ~ Good(s)}
            R == {Cardinality(s) : s \in Bad}
<1>1. \A s \in SUBSET S : IsFiniteSet(s) /\ Cardinality(s) \in Nat
  BY FS_Subset, FS_CardinalityType
<1>2. \A s \in SUBSET S : g[s] = IF s = {} THEN 0 ELSE w[Pick(s)] + g[s \ {Pick(s)}]
  BY DEF IsSum
<1>3. Bad = {}
  <2>. SUFFICES ASSUME Bad # {} PROVE FALSE
    OBVIOUS
  <2>1. R \in SUBSET Nat /\ R # {}
    BY <1>1
  <2>2. PICK k \in R : \A q \in R : k <= q
    BY <2>1, LeastOf
  <2>3. PICK s \in Bad : k = Cardinality(s)
    OBVIOUS
  <2>4. s \in SUBSET S /\ ~ Good(s) /\ IsFiniteSet(s) /\ Cardinality(s) \in Nat
    BY <1>1, <2>3
  <2>5. \A t \in SUBSET S : Cardinality(t) < Cardinality(s) => Good(t)
    <3>. SUFFICES ASSUME NEW t \in SUBSET S, Cardinality(t) < Cardinality(s), t \in Bad PROVE FALSE
      OBVIOUS
    <3>1. Cardinality(t) \in R /\ Cardinality(t) \in Nat
      BY <1>1
    <3>. HIDE DEF R, Bad
    <3>2. k <= Cardinality(t)
      BY <2>2, <3>1
    <3>. QED  BY <2>3, <2>4, <3>1, <3>2
  <2>6. PICK x \in s : g[s] # w[x] + g[s \ {x}]
    BY <2>4
  <2>. DEFINE p == Pick(s)
  <2>7. p \in s /\ g[s] = w[p] + g[s \ {p}]
    BY <1>2, <2>4, <2>6 DEF Pick
  <2>. HIDE DEF p, Bad, R
  <2>8. x # p
    BY <2>6, <2>7
  <2>9. /\ s \ {p} \in SUBSET S /\ s \ {x} \in SUBSET S /\ x \in s \ {p} /\ p \in s \ {x}
        /\ (s \ {p}) \ {x} = (s \ {x}) \ {p}
    BY <2>4, <2>7, <2>8
  <2>10. Cardinality(s \ {p}) < Cardinality(s) /\ Cardinality(s \ {x}) < Cardinality(s)
    <3>1. Cardinality(s \ {p}) = Cardinality(s) - 1
      BY <2>4, <2>7, FS_RemoveElement
    <3>2. Cardinality(s \ {x}) = Cardinality(s) - 1
      BY <2>4, FS_RemoveElement
    <3>. QED  BY <2>4, <3>1, <3>2
  <2>11. g[s \ {p}] = w[x] + g[(s \ {p}) \ {x}] /\ g[s \ {x}] = w[p] + g[(s \ {x}) \ {p}]
    BY <2>5, <2>9, <2>10
  <2>12. (s \ {p}) \ {x} \in SUBSET S /\ x \in S /\ p \in S
    BY <2>4, <2>7
  <2>. DEFINE a == g[(s \ {p}) \ {x}]
  <2>13. a \in Int /\ w[x] \in Int /\ w[p] \in Int
    BY <2>12
  <2>14. g[s] = w[p] + (w[x] + a) /\ g[s \ {x}] = w[p] + a
    BY <2>7, <2>9, <2>11
  <2>. HIDE DEF a
  <2>. QED  BY <2>6, <2>13, <2>14
<1>4. g[{}] = 0
  BY <1>2
<1>. QED  BY <1>3, <1>4 DEF Additive

LEMMA TotalIsSum ==
  ASSUME NEW S, IsFiniteSet(S), NEW w \in [S -> Int]
  PROVE  \E g : Additive(g, S, w)
<1>1. PICK g \in [SUBSET S -> Int] : IsSum(g, S, w)
  BY SumExists
<1>. QED  BY <1>1, SumIsAdditive

\* Sums of equal weights are equal, whatever their elements are called.
LEMMA Renamed ==
  ASSUME NEW S, IsFiniteSet(S), NEW w, NEW g, Additive(g, S, w), NEW R, NEW v, NEW h, Additive(h, R, v),
         NEW f \in [S -> R], \A i, j \in S : f[i] = f[j] => i = j, \A i \in S : v[f[i]] = w[i]
  PROVE  \A s \in SUBSET S : {f[i] : i \in s} \in SUBSET R /\ g[s] = h[{f[i] : i \in s}]
<1>. DEFINE im(s) == {f[i] : i \in s}
            Bad == {s \in SUBSET S : g[s] # h[im(s)]}
            K == {Cardinality(s) : s \in Bad}
<1>0. \A s \in SUBSET S : im(s) \in SUBSET R
  OBVIOUS
<1>1. \A s \in SUBSET S : IsFiniteSet(s) /\ Cardinality(s) \in Nat
  BY FS_Subset, FS_CardinalityType
<1>2. Bad = {}
  <2>. SUFFICES ASSUME Bad # {} PROVE FALSE
    OBVIOUS
  <2>1. K \in SUBSET Nat /\ K # {}
    <3>1. Bad \in SUBSET SUBSET S
      OBVIOUS
    <3>. HIDE DEF Bad
    <3>. QED  BY <1>1, <3>1
  <2>2. PICK k \in K : \A q \in K : k <= q
    BY <2>1, LeastOf
  <2>3. PICK s \in Bad : k = Cardinality(s)
    OBVIOUS
  <2>4. s \in SUBSET S /\ g[s] # h[im(s)] /\ IsFiniteSet(s) /\ Cardinality(s) \in Nat
    BY <1>1, <2>3
  <2>5. \A t \in SUBSET S : Cardinality(t) < Cardinality(s) => g[t] = h[im(t)]
    <3>. SUFFICES ASSUME NEW t \in SUBSET S, Cardinality(t) < Cardinality(s), t \in Bad PROVE FALSE
      OBVIOUS
    <3>1. Cardinality(t) \in K /\ Cardinality(t) \in Nat
      BY <1>1
    <3>. HIDE DEF K, Bad
    <3>2. k <= Cardinality(t)
      BY <2>2, <3>1
    <3>. QED  BY <2>3, <2>4, <3>1, <3>2
  <2>. HIDE DEF Bad, K
  <2>6. s # {}
    <3>1. im({}) = {}
      OBVIOUS
    <3>2. g[{}] = h[im({})]
      BY <3>1 DEF Additive
    <3>. QED  BY <2>4, <3>2
  <2>7. PICK x \in s : TRUE
    BY <2>6
  <2>. DEFINE t == s \ {x}
  <2>8. t \in SUBSET S /\ Cardinality(t) < Cardinality(s)
    <3>1. Cardinality(s \ {x}) = Cardinality(s) - 1
      BY <2>4, FS_RemoveElement
    <3>. QED  BY <2>4, <3>1
  <2>9. g[t] = h[im(t)]
    BY <2>5, <2>8
  <2>10. f[x] \in im(s) /\ im(s) \ {f[x]} = im(t)
    BY <2>4
  <2>11. g[s] = w[x] + g[t]
    BY <2>4 DEF Additive
  <2>12. im(s) \in SUBSET R
    BY <1>0, <2>4
  <2>. HIDE DEF t, im
  <2>13. h[im(s)] = v[f[x]] + h[im(t)]
    BY <2>10, <2>12 DEF Additive
  <2>14. v[f[x]] = w[x]
    BY <2>4
  <2>. QED  BY <2>4, <2>9, <2>11, <2>13, <2>14
<1>. HIDE DEF im
<1>3. \A s \in SUBSET S : g[s] = h[im(s)]
  BY <1>2
<1>. QED  BY <1>0, <1>3 DEF im

Flipped(w, r, S, up) == \A i \in S : w[i] = IF i \in up THEN r[i] ELSE 0 - r[i]
Parted(g, h, S, up) ==
  /\ h[up] \in Int /\ h[S] \in Int /\ h[S \ up] \in Int
  /\ g[S] = h[up] + h[up] - h[S] /\ h[S] = h[up] + h[S \ up]

\* The sum over signs is what is counted as positive, less the rest.
LEMMA Signed ==
  ASSUME NEW S, IsFiniteSet(S), NEW r \in [S -> Int], NEW h, Additive(h, S, r), NEW up \in SUBSET S,
         NEW w, NEW g, Additive(g, S, w), Flipped(w, r, S, up)
  PROVE  Parted(g, h, S, up)
<1>. DEFINE Good(s) == g[s] = h[s \cap up] + h[s \cap up] - h[s] /\ h[s] = h[s \cap up] + h[s \ up]
            Bad == {s \in SUBSET S : ~ Good(s)}
            K == {Cardinality(s) : s \in Bad}
<1>1. \A s \in SUBSET S : IsFiniteSet(s) /\ Cardinality(s) \in Nat /\ g[s] \in Int /\ h[s] \in Int
  BY FS_Subset, FS_CardinalityType DEF Additive
<1>0. \A u \in SUBSET S : \A y \in u : h[u] = r[y] + h[u \ {y}]
  BY DEF Additive
<1>2. Bad = {}
  <2>. SUFFICES ASSUME Bad # {} PROVE FALSE
    OBVIOUS
  <2>1. K \in SUBSET Nat /\ K # {}
    BY <1>1
  <2>2. PICK k \in K : \A q \in K : k <= q
    BY <2>1, LeastOf
  <2>3. PICK s \in Bad : k = Cardinality(s)
    OBVIOUS
  <2>4. s \in SUBSET S /\ ~ Good(s) /\ IsFiniteSet(s) /\ Cardinality(s) \in Nat
    BY <1>1, <2>3
  <2>5. \A t \in SUBSET S : Cardinality(t) < Cardinality(s) => Good(t)
    <3>. SUFFICES ASSUME NEW t \in SUBSET S, Cardinality(t) < Cardinality(s), t \in Bad PROVE FALSE
      OBVIOUS
    <3>1. Cardinality(t) \in K /\ Cardinality(t) \in Nat
      BY <1>1
    <3>. HIDE DEF K, Bad
    <3>2. k <= Cardinality(t)
      BY <2>2, <3>1
    <3>. QED  BY <2>3, <2>4, <3>1, <3>2
  <2>. HIDE DEF Bad, K
  <2>6. s # {}
    <3>. SUFFICES ASSUME s = {} PROVE FALSE
      OBVIOUS
    <3>1. s \cap up = {} /\ s \ up = {}
      OBVIOUS
    <3>2. g[{}] = 0 /\ h[{}] = 0
      BY DEF Additive
    <3>. QED  BY <2>4, <3>1, <3>2
  <2>7. PICK x \in s : TRUE
    BY <2>6
  <2>. DEFINE t == s \ {x}
  <2>8. t \in SUBSET S /\ Cardinality(t) < Cardinality(s)
    <3>1. Cardinality(s \ {x}) = Cardinality(s) - 1
      BY <2>4, FS_RemoveElement
    <3>. QED  BY <2>4, <3>1
  <2>9. Good(t)
    BY <2>5, <2>8
  <2>. DEFINE a == h[t \cap up]
              c == h[t \ up]
  <2>10. g[s] = w[x] + g[t] /\ h[s] = r[x] + h[t] /\ r[x] \in Int
    BY <2>4 DEF Additive
  <2>11. h[t] \in Int /\ g[t] \in Int /\ a \in Int /\ c \in Int
    <3>1. t \cap up \in SUBSET S /\ t \ up \in SUBSET S
      BY <2>8
    <3>. QED  BY <1>1, <2>8, <3>1
  <2>12. g[t] = a + a - h[t] /\ h[t] = a + c
    BY <2>9
  <2>. HIDE DEF Good
  <2>13. CASE x \in up
    <3>1. s \cap up \in SUBSET S /\ x \in s \cap up /\ (s \cap up) \ {x} = t \cap up /\ s \ up = t \ up
      BY <2>4, <2>13
    <3>. HIDE DEF t
    <3>2. h[s \cap up] = r[x] + a
      <4>. DEFINE u == s \cap up
      <4>. HIDE DEF u
      <4>1. u \in SUBSET S /\ x \in u
        BY <3>1 DEF u
      <4>2. h[u] = r[x] + h[u \ {x}]
        BY <1>0, <4>1
      <4>. QED  BY <3>1, <4>2 DEF u
    <3>3. w[x] = r[x]
      BY <2>4, <2>13 DEF Flipped
    <3>4. h[s \ up] = c
      BY <3>1
    <3>. HIDE DEF a, c
    <3>5. g[s] = h[s \cap up] + h[s \cap up] - h[s]
      BY <2>10, <2>11, <2>12, <3>2, <3>3
    <3>6. h[s] = h[s \cap up] + h[s \ up]
      BY <2>10, <2>11, <2>12, <3>2, <3>4
    <3>. QED  BY <2>4, <3>5, <3>6 DEF Good
  <2>14. CASE x \notin up
    <3>1. s \ up \in SUBSET S /\ x \in s \ up /\ (s \ up) \ {x} = t \ up /\ s \cap up = t \cap up
      BY <2>4, <2>14
    <3>. HIDE DEF t
    <3>2. h[s \ up] = r[x] + c
      <4>. DEFINE u == s \ up
      <4>. HIDE DEF u
      <4>1. u \in SUBSET S /\ x \in u
        BY <3>1 DEF u
      <4>2. h[u] = r[x] + h[u \ {x}]
        BY <1>0, <4>1
      <4>. QED  BY <3>1, <4>2 DEF u
    <3>3. w[x] = 0 - r[x]
      BY <2>4, <2>14 DEF Flipped
    <3>4. h[s \cap up] = a
      BY <3>1
    <3>. HIDE DEF a, c
    <3>5. g[s] = h[s \cap up] + h[s \cap up] - h[s]
      BY <2>10, <2>11, <2>12, <3>3, <3>4
    <3>6. h[s] = h[s \cap up] + h[s \ up]
      BY <2>10, <2>11, <2>12, <3>2, <3>4
    <3>. QED  BY <2>4, <3>5, <3>6 DEF Good
  <2>. QED  BY <2>13, <2>14
<1>3. Good(S)
  BY <1>2
<1>4. S \cap up = up /\ up \in SUBSET S /\ S \in SUBSET S /\ S \ up \in SUBSET S
  OBVIOUS
<1>. QED  BY <1>1, <1>3, <1>4 DEF Parted

----------------------------------------------------------------------------
(* Mid-ranks.                                                              *)

LEMMA DownSet ==
  ASSUME NEW m \in Nat, NEW A \in SUBSET (1 .. m), \A r \in A : \A q \in 1 .. m : q <= r => q \in A
  PROVE  IsFiniteSet(A) /\ Cardinality(A) \in Nat /\ A = 1 .. Cardinality(A)
<1>1. IsFiniteSet(A) /\ Cardinality(A) \in Nat
  <2>1. 1 \in Int /\ m \in Int
    OBVIOUS
  <2>2. IsFiniteSet(1 .. m)
    BY <2>1, FS_Interval
  <2>3. IsFiniteSet(A)
    BY <2>2, FS_Subset
  <2>. QED  BY <2>3, FS_CardinalityType
<1>2. CASE A = {}
  <2>1. Cardinality(A) = 0
    BY <1>2, FS_EmptySet
  <2>. QED  BY <1>1, <1>2, <2>1
<1>3. CASE A # {}
  <2>. DEFINE x == Max(A)
  <2>1. A \in SUBSET (0 .. m)
    OBVIOUS
  <2>2. x \in A /\ \A y \in A : y <= x
    BY <1>3, <2>1, MaxExists
  <2>. HIDE DEF x
  <2>3. x \in 1 .. m /\ \A y \in A : y \in 1 .. m
    BY <2>2
  <2>4. A = 1 .. x
    <3>1. \A y \in A : y \in 1 .. x
      BY <2>2, <2>3
    <3>2. \A y \in 1 .. x : y \in 1 .. m /\ y <= x
      BY <2>3
    <3>3. \A y \in 1 .. x : y \in A
      BY <2>2, <3>2
    <3>. QED  BY <3>1, <3>3
  <2>5. Cardinality(1 .. x) = x
    <3>1. 1 \in Int /\ x \in Int /\ x >= 1
      BY <2>3
    <3>. QED  BY <3>1, FS_Interval
  <2>. QED  BY <1>1, <2>4, <2>5
<1>. QED  BY <1>2, <1>3

\* Where the numbers of a sequence are in a set of them.
Hits(v, m, X) == {i \in 1 .. m : v[i] \in X}

\* A sort keeps the numbers and puts them in order.
LEMMA SortedKeeps ==
  ASSUME NEW m \in Nat, NEW v \in [1 .. m -> Int], NEW X
  PROVE  /\ Sorted(v) \in [1 .. m -> Int]
         /\ \A j, k \in 1 .. m : j <= k => Sorted(v)[j] <= Sorted(v)[k]
         /\ Cardinality(Hits(Sorted(v), m, X)) = Cardinality(Hits(v, m, X))
<1>. DEFINE elem(r) == Indexed(v)[r]
            A == Hits(v, m, X)
            B == Hits(Sorted(v), m, X)
            f == [r \in B |-> elem(r)]
<1>1. Sorted(v) = [r \in 1 .. m |-> v[elem(r)]]
  BY DEF Sorted
<1>2. \A r \in 1 .. m : elem(r) \in 1 .. m /\ Place(v, elem(r)) = r
  BY Places
<1>3. \A i, j \in 1 .. m : Place(v, i) <= Place(v, j) => v[i] <= v[j]
  BY Places
<1>4. \A i, j \in 1 .. m : Place(v, i) = Place(v, j) => i = j
  BY Places
<1>5. \A i \in 1 .. m : Place(v, i) \in 1 .. m
  BY Places
<1>. HIDE DEF elem
<1>6. Sorted(v) \in [1 .. m -> Int] /\ \A r \in 1 .. m : Sorted(v)[r] = v[elem(r)]
  BY <1>1, <1>2
<1>7. \A j, k \in 1 .. m : j <= k => Sorted(v)[j] <= Sorted(v)[k]
  BY <1>2, <1>3, <1>6
<1>8. \A r \in B : r \in 1 .. m /\ elem(r) \in A
  BY <1>2, <1>6 DEF Hits
<1>9. \A r, s \in B : elem(r) = elem(s) => r = s
  BY <1>2, <1>8
<1>10. \A i \in A : \E r \in B : elem(r) = i
  <2>. SUFFICES ASSUME NEW i \in A PROVE \E r \in B : elem(r) = i
    OBVIOUS
  <2>. DEFINE r == Place(v, i)
  <2>1. i \in 1 .. m /\ v[i] \in X
    BY DEF Hits
  <2>2. r \in 1 .. m /\ elem(r) \in 1 .. m /\ Place(v, elem(r)) = Place(v, i)
    BY <1>2, <1>5, <2>1
  <2>3. elem(r) = i
    BY <1>4, <2>1, <2>2
  <2>4. r \in B
    BY <1>6, <2>1, <2>2, <2>3 DEF Hits
  <2>. QED  BY <2>3, <2>4
<1>11. IsFiniteSet(B)
  <2>1. 1 \in Int /\ m \in Int
    OBVIOUS
  <2>2. IsFiniteSet(1 .. m) /\ B \in SUBSET (1 .. m)
    BY <1>8, <2>1, FS_Interval
  <2>. QED  BY <2>2, FS_Subset
<1>. HIDE DEF A, B
<1>12. f \in [B -> A] /\ (\A r, s \in B : f[r] = f[s] => r = s) /\ \A i \in A : \E r \in B : f[r] = i
  BY <1>8, <1>9, <1>10
<1>. HIDE DEF f
<1>13. Cardinality(B) = Cardinality(A)
  BY <1>11, <1>12, Matched
<1>. QED  BY <1>6, <1>7, <1>13 DEF A, B

Equal(v, m, x) == {j \in 1 .. m : v[j] = x}
Below(v, m, x) == {j \in 1 .. m : v[j] < x}

\* _rank_average gives every number the mean of the places of its equals.
LEMMA AverageIs ==
  ASSUME NEW m \in Nat, NEW v \in [1 .. m -> Int], NEW i \in 1 .. m
  PROVE  /\ Cardinality(Equal(v, m, v[i])) \in Nat /\ Cardinality(Below(v, m, v[i])) \in Nat
         /\ RankAverage(v)[i] = 1 + Cardinality(Equal(v, m, v[i])) + 2 * Cardinality(Below(v, m, v[i]))
<1>. DEFINE s == Sorted(v)
            x == v[i]
            lower == {y \in Int : y < x}
            upto == {y \in Int : y <= x}
            P == Hits(s, m, {x})
            L == Cardinality(Below(v, m, x))
            E == Cardinality(Equal(v, m, x))
<1>1. x \in Int /\ DOMAIN v = 1 .. m
  OBVIOUS
<1>2. s \in [1 .. m -> Int] /\ \A j, k \in 1 .. m : j <= k => s[j] <= s[k]
  BY SortedKeeps
<1>3. \A X : Cardinality(Hits(s, m, X)) = Cardinality(Hits(v, m, X))
  BY SortedKeeps
<1>. HIDE DEF s, x
<1>4. Hits(v, m, lower) = Below(v, m, x) /\ Hits(v, m, {x}) = Equal(v, m, x)
  BY DEF Hits, Below, Equal
<1>5. /\ Hits(s, m, lower) \in SUBSET (1 .. m) /\ Hits(s, m, upto) \in SUBSET (1 .. m)
      /\ \A r \in Hits(s, m, lower) : \A q \in 1 .. m : q <= r => q \in Hits(s, m, lower)
      /\ \A r \in Hits(s, m, upto) : \A q \in 1 .. m : q <= r => q \in Hits(s, m, upto)
  <2>1. ASSUME NEW r \in 1 .. m, NEW q \in 1 .. m, q <= r PROVE s[q] \in Int /\ s[r] \in Int /\ s[q] <= s[r]
    BY <1>2, <2>1
  <2>2. ASSUME NEW r \in 1 .. m, s[r] < x, NEW q \in 1 .. m, q <= r PROVE s[q] < x /\ s[q] \in Int
    BY <1>1, <2>1, <2>2
  <2>3. ASSUME NEW r \in 1 .. m, s[r] <= x, NEW q \in 1 .. m, q <= r PROVE s[q] <= x /\ s[q] \in Int
    BY <1>1, <2>1, <2>3
  <2>. QED  BY <2>2, <2>3 DEF Hits
<1>6. Hits(s, m, lower) = 1 .. L /\ L \in Nat
  <2>1. Cardinality(Hits(s, m, lower)) = L
    BY <1>3, <1>4
  <2>. HIDE DEF lower
  <2>. QED  BY <1>5, <2>1, DownSet
<1>. DEFINE U == Cardinality(Hits(s, m, upto))
<1>7. Hits(s, m, upto) = 1 .. U /\ U \in Nat
  <2>. HIDE DEF upto
  <2>. QED  BY <1>5, DownSet
<1>8. P = {r \in 1 .. U : r \notin 1 .. L}
  <2>1. \A r \in 1 .. m : s[r] \in Int
    BY <1>2
  <2>2. \A y \in Int : y \in {x} <=> (y \in upto /\ y \notin lower)
    BY <1>1
  <2>3. P = {r \in Hits(s, m, upto) : r \notin Hits(s, m, lower)}
    <3>. HIDE DEF upto, lower
    <3>. QED  BY <2>1, <2>2 DEF Hits
  <2>. HIDE DEF P, U, L, upto, lower
  <2>. QED  BY <1>6, <1>7, <2>3
<1>9. Cardinality(P) = E
  BY <1>3, <1>4
<1>10. E # 0 /\ E \in Nat
  <2>1. i \in Equal(v, m, x)
    BY DEF Equal, x
  <2>2. IsFiniteSet(Equal(v, m, x))
    <3>1. 1 \in Int /\ m \in Int
      OBVIOUS
    <3>2. IsFiniteSet(1 .. m) /\ Equal(v, m, x) \in SUBSET (1 .. m)
      BY <3>1, FS_Interval DEF Equal
    <3>. QED  BY <3>2, FS_Subset
  <2>. QED  BY <2>1, <2>2, FS_EmptySet, FS_CardinalityType
<1>. HIDE DEF P, E, L, U, lower, upto
<1>11. P = L + 1 .. U
  <2>1. \A r \in 1 .. U : r \notin 1 .. L <=> r \in L + 1 .. U
    BY <1>6, <1>7
  <2>2. \A r \in L + 1 .. U : r \in 1 .. U
    BY <1>6, <1>7
  <2>. HIDE DEF P
  <2>. QED  BY <1>8, <2>1, <2>2
<1>12. U = L + E
  <2>1. L + 1 \in Int /\ U \in Int
    BY <1>6, <1>7
  <2>2. Cardinality(L + 1 .. U) = IF L + 1 > U THEN 0 ELSE U - (L + 1) + 1
    BY <2>1, FS_Interval
  <2>. QED  BY <1>6, <1>7, <1>9, <1>10, <1>11, <2>2
<1>13. Min(P) = L + 1 /\ Max(P) = U
  <2>1. L + 1 \in P /\ U \in P /\ \A y \in P : L + 1 <= y /\ y <= U
    BY <1>6, <1>7, <1>10, <1>11, <1>12
  <2>2. P \in SUBSET Nat /\ P # {} /\ P \in SUBSET (0 .. U)
    <3>1. \A y \in L + 1 .. U : y \in Nat /\ y \in 0 .. U
      BY <1>6, <1>7
    <3>2. \A y \in P : y \in Nat /\ y \in 0 .. U
      BY <1>11, <3>1
    <3>3. P # {}
      BY <2>1
    <3>. HIDE DEF P
    <3>. QED  BY <3>2, <3>3
  <2>3. Min(P) \in P /\ \A y \in P : Min(P) <= y
    BY <2>2, MinExists
  <2>4. Max(P) \in P /\ \A y \in P : y <= Max(P)
    BY <1>7, <2>2, MaxExists
  <2>5. \A y \in P : y \in Int
    BY <2>2
  <2>6. Min(P) <= L + 1 /\ L + 1 <= Min(P) /\ Min(P) \in Int
    BY <2>1, <2>3, <2>5
  <2>7. Max(P) <= U /\ U <= Max(P) /\ Max(P) \in Int
    BY <2>1, <2>4, <2>5
  <2>. QED  BY <1>6, <1>7, <2>6, <2>7
<1>14. RankAverage(v)[i] = Min(P) + Max(P)
  <2>1. DOMAIN s = 1 .. m
    BY <1>2
  <2>2. {r \in DOMAIN s : s[r] = v[i]} = P
    BY <2>1 DEF P, Hits, x
  <2>3. RankAverage(v)[i] = Min({r \in DOMAIN s : s[r] = v[i]}) + Max({r \in DOMAIN s : s[r] = v[i]})
    BY <1>1 DEF RankAverage, s
  <2>. QED  BY <2>2, <2>3
<1>15. RankAverage(v)[i] = 1 + E + 2 * L
  BY <1>6, <1>10, <1>12, <1>13, <1>14
<1>. QED  BY <1>6, <1>10, <1>15 DEF E, L, x

\* The chosen indices up to i.
Ahead(chosen, i) == {j \in chosen : j <= i}

\* The chosen elements in order.
LEMMA NthOf ==
  ASSUME NEW chosen \in SUBSET Int, IsFiniteSet(chosen), NEW k \in 1 .. Cardinality(chosen)
  PROVE  Nth(chosen, k) \in chosen /\ Cardinality(Ahead(chosen, Nth(chosen, k))) = k
<1>. DEFINE c == Cardinality(chosen)
            f == [i \in chosen |-> Cardinality(Ahead(chosen, i))]
<1>1. c \in Nat /\ IsFiniteSet(1 .. c) /\ Cardinality(1 .. c) = c
  BY FS_CardinalityType, FS_Interval
<1>2. ASSUME NEW i \in chosen PROVE IsFiniteSet(Ahead(chosen, i)) /\ i \in Ahead(chosen, i) /\ Cardinality(Ahead(chosen, i)) \in 1 .. c
  <2>1. i \in Ahead(chosen, i) /\ Ahead(chosen, i) \in SUBSET chosen
    BY DEF Ahead
  <2>2. IsFiniteSet(Ahead(chosen, i)) /\ Cardinality(Ahead(chosen, i)) <= c
    BY <2>1, FS_Subset
  <2>3. Cardinality(Ahead(chosen, i)) \in Nat /\ Cardinality(Ahead(chosen, i)) # 0
    BY <2>1, <2>2, FS_CardinalityType, FS_EmptySet
  <2>. QED  BY <1>1, <2>1, <2>2, <2>3
<1>3. ASSUME NEW i \in chosen, NEW j \in chosen, i < j PROVE Cardinality(Ahead(chosen, i)) # Cardinality(Ahead(chosen, j))
  <2>1. Ahead(chosen, i) \in SUBSET Ahead(chosen, j) /\ j \in Ahead(chosen, j) /\ j \notin Ahead(chosen, i)
    <3>1. i \in Int /\ j \in Int /\ \A y \in chosen : y \in Int
      OBVIOUS
    <3>2. \A y \in chosen : y <= i => y <= j
      BY <1>3, <3>1
    <3>3. Ahead(chosen, i) \in SUBSET Ahead(chosen, j)
      BY <3>2 DEF Ahead
    <3>4. ~ (j <= i) /\ j <= j
      BY <1>3, <3>1
    <3>. QED  BY <3>3, <3>4 DEF Ahead
  <2>2. IsFiniteSet(Ahead(chosen, j))
    BY <1>2
  <2>. QED  BY <2>1, <2>2, FS_Subset
<1>4. \A i, j \in chosen : f[i] = f[j] => i = j
  <2>. SUFFICES ASSUME NEW i \in chosen, NEW j \in chosen, f[i] = f[j] PROVE i = j
    OBVIOUS
  <2>1. i \in Int /\ j \in Int /\ Cardinality(Ahead(chosen, i)) = Cardinality(Ahead(chosen, j))
    OBVIOUS
  <2>2. ~ (i < j) /\ ~ (j < i)
    BY <1>3, <2>1
  <2>. QED  BY <2>1, <2>2
<1>5. f \in [chosen -> 1 .. c]
  BY <1>2
<1>. HIDE DEF f
<1>6. f \in Injection(chosen, 1 .. c)
  BY <1>4, <1>5 DEF Injection, IsInjective
<1>7. f \in Surjection(chosen, 1 .. c)
  BY <1>1, <1>6, FS_Injection
<1>8. PICK i \in chosen : f[i] = k
  BY <1>7 DEF Surjection
<1>9. Cardinality(Ahead(chosen, i)) = k
  BY <1>8 DEF f
<1>10. Nth(chosen, k) = CHOOSE j \in chosen : Cardinality(Ahead(chosen, j)) = k
  BY DEF Nth, Ahead
<1>. QED  BY <1>9, <1>10

LEMMA NthNumbers ==
  ASSUME NEW chosen \in SUBSET Int, IsFiniteSet(chosen)
  PROVE  /\ Cardinality(chosen) \in Nat
         /\ \A k \in 1 .. Cardinality(chosen) : Nth(chosen, k) \in chosen
         /\ \A k, l \in 1 .. Cardinality(chosen) : Nth(chosen, k) = Nth(chosen, l) => k = l
         /\ \A i \in chosen : \E k \in 1 .. Cardinality(chosen) : Nth(chosen, k) = i
<1>. DEFINE c == Cardinality(chosen)
            f == [k \in 1 .. c |-> Nth(chosen, k)]
<1>1. c \in Nat
  BY FS_CardinalityType
<1>2. IsFiniteSet(1 .. c) /\ Cardinality(1 .. c) = c
  <2>1. 1 \in Int /\ c \in Int
    BY <1>1
  <2>. QED  BY <1>1, <2>1, FS_Interval
<1>3. \A k \in 1 .. c : Nth(chosen, k) \in chosen /\ Cardinality(Ahead(chosen, Nth(chosen, k))) = k
  BY NthOf
<1>4. \A k, l \in 1 .. c : Nth(chosen, k) = Nth(chosen, l) => k = l
  BY <1>3
<1>5. f \in [1 .. c -> chosen] /\ \A k, l \in 1 .. c : f[k] = f[l] => k = l
  BY <1>3, <1>4
<1>. HIDE DEF f
<1>6. f \in Injection(1 .. c, chosen)
  BY <1>5 DEF Injection, IsInjective
<1>7. f \in Surjection(1 .. c, chosen)
  <2>. HIDE DEF c
  <2>1. Cardinality(1 .. c) = Cardinality(chosen)
    BY <1>2 DEF c
  <2>. QED  BY <1>6, <2>1, FS_Injection
<1>8. \A i \in chosen : \E k \in 1 .. c : f[k] = i
  BY <1>7 DEF Surjection
<1>. QED  BY <1>1, <1>3, <1>4, <1>8 DEF f

LEMMA NthOfAll ==
  ASSUME NEW m \in Nat, NEW k \in 1 .. m
  PROVE  Nth(1 .. m, k) = k
<1>. DEFINE i == Nth(1 .. m, k)
<1>1. IsFiniteSet(1 .. m) /\ Cardinality(1 .. m) = m
  <2>1. 1 \in Int /\ m \in Int
    OBVIOUS
  <2>. QED  BY <2>1, FS_Interval
<1>2. 1 .. m \in SUBSET Int
  OBVIOUS
<1>3. i \in 1 .. m /\ Cardinality(Ahead(1 .. m, i)) = k
  BY <1>1, <1>2, NthOf
<1>. HIDE DEF i
<1>4. Ahead(1 .. m, i) = 1 .. i
  BY <1>3 DEF Ahead
<1>5. 1 \in Int /\ i \in Int /\ i >= 1
  BY <1>3
<1>6. Cardinality(1 .. i) = i
  BY <1>5, FS_Interval
<1>. QED  BY <1>3, <1>4, <1>6 DEF i

\* Of the chosen elements, those in a set are as many as their numbers.
LEMMA Numbered ==
  ASSUME NEW chosen \in SUBSET Int, IsFiniteSet(chosen), NEW X
  PROVE  Cardinality({k \in 1 .. Cardinality(chosen) : Nth(chosen, k) \in X}) = Cardinality(chosen \cap X)
<1>. DEFINE c == Cardinality(chosen)
            S == {k \in 1 .. c : Nth(chosen, k) \in X}
            f == [k \in S |-> Nth(chosen, k)]
<1>1. c \in Nat /\ \A k \in 1 .. c : Nth(chosen, k) \in chosen
  BY NthNumbers
<1>2. \A k, l \in 1 .. c : Nth(chosen, k) = Nth(chosen, l) => k = l
  BY NthNumbers
<1>3. \A i \in chosen : \E k \in 1 .. c : Nth(chosen, k) = i
  BY NthNumbers
<1>4. IsFiniteSet(S)
  <2>1. 1 \in Int /\ c \in Int
    BY <1>1
  <2>2. IsFiniteSet(1 .. c) /\ S \in SUBSET (1 .. c)
    BY <2>1, FS_Interval
  <2>. QED  BY <2>2, FS_Subset
<1>. HIDE DEF c
<1>5. f \in [S -> chosen \cap X]
  BY <1>1
<1>6. \A k, l \in S : f[k] = f[l] => k = l
  BY <1>2
<1>7. \A i \in chosen \cap X : \E k \in S : f[k] = i
  BY <1>3
<1>. HIDE DEF S, f
<1>8. Cardinality(S) = Cardinality(chosen \cap X)
  BY <1>4, <1>5, <1>6, <1>7, Matched
<1>. QED  BY <1>8 DEF S, c

\* An array without nulls is loaded as it is.
LEMMA LoadedWhole ==
  ASSUME NEW n \in Nat, NEW array \in [1 .. n -> Value]
  PROVE  Loaded(array) = array
<1>1. {i \in DOMAIN array : array[i] # Null} = 1 .. n
  BY ValueAssumption
<1>2. Cardinality(1 .. n) = n
  <2>1. 1 \in Int /\ n \in Int
    OBVIOUS
  <2>. QED  BY <2>1, FS_Interval
<1>3. Loaded(array) = [k \in 1 .. n |-> array[Nth(1 .. n, k)]]
  BY <1>1, <1>2 DEF Loaded, At
<1>4. Loaded(array) = [k \in 1 .. n |-> array[k]]
  BY <1>3, NthOfAll
<1>. QED  BY <1>4

\* The sum over a finite set is one number.
LEMMA SumUnique ==
  ASSUME NEW S, IsFiniteSet(S), NEW w, NEW g, IsSum(g, S, w), NEW h, IsSum(h, S, w)
  PROVE  g[S] = h[S]
<1>. DEFINE Bad == {s \in SUBSET S : g[s] # h[s]}
            R == {Cardinality(s) : s \in Bad}
<1>. SUFFICES ASSUME Bad # {} PROVE FALSE
  OBVIOUS
<1>1. \A s \in SUBSET S : IsFiniteSet(s) /\ Cardinality(s) \in Nat
  BY FS_Subset, FS_CardinalityType
<1>2. R \in SUBSET Nat /\ R # {}
  BY <1>1
<1>3. PICK k \in R : \A q \in R : k <= q
  BY <1>2, LeastOf
<1>4. PICK s \in Bad : k = Cardinality(s)
  OBVIOUS
<1>5. s \in SUBSET S /\ g[s] # h[s] /\ IsFiniteSet(s) /\ Cardinality(s) \in Nat
  BY <1>1, <1>4
<1>6. /\ g[s] = IF s = {} THEN 0 ELSE w[Pick(s)] + g[s \ {Pick(s)}]
      /\ h[s] = IF s = {} THEN 0 ELSE w[Pick(s)] + h[s \ {Pick(s)}]
  <2>. HIDE DEF Bad
  <2>. QED  BY <1>5 DEF IsSum
<1>. DEFINE t == s \ {Pick(s)}
<1>7. s # {} /\ g[t] # h[t]
  BY <1>5, <1>6
<1>8. Cardinality(t) = Cardinality(s) - 1
  BY <1>5, <1>7, Smaller
<1>9. t \in Bad
  BY <1>5, <1>7
<1>10. Cardinality(t) \in R
  BY <1>9
<1>. HIDE DEF t, Bad, R
<1>11. k <= Cardinality(t)
  BY <1>3, <1>10
<1>. QED  BY <1>4, <1>5, <1>8, <1>11

LEMMA TotalAdds ==
  ASSUME NEW S, IsFiniteSet(S), NEW w \in [S -> Int]
  PROVE  \E g : Additive(g, S, w) /\ Total(w) = g[S]
<1>. DEFINE P(g) == g = [s \in SUBSET S |-> IF s = {} THEN 0
                            ELSE w[CHOOSE x \in s : TRUE] + g[s \ {CHOOSE x \in s : TRUE}]]
            G == CHOOSE g : P(g)
<1>1. DOMAIN w = S
  OBVIOUS
<1>2. Total(w) = G[S]
  BY <1>1 DEF Total, FoldFunction, FoldFunctionOnSet, MapThenFoldSet
<1>3. \A g : P(g) <=> IsSum(g, S, w)
  BY DEF IsSum, Pick
<1>. HIDE DEF P
<1>4. PICK g \in [SUBSET S -> Int] : IsSum(g, S, w)
  BY SumExists
<1>5. \E h : P(h)
  BY <1>3, <1>4
<1>6. IsSum(G, S, w)
  BY <1>3, <1>5
<1>7. Additive(g, S, w)
  BY <1>4, SumIsAdditive
<1>8. G[S] = g[S]
  BY <1>4, <1>6, SumUnique
<1>. QED  BY <1>2, <1>7, <1>8

\* The total of some of the weights.
LEMMA SubTotal ==
  ASSUME NEW S, IsFiniteSet(S), NEW r \in [S -> Int], NEW h, Additive(h, S, r), NEW s \in SUBSET S
  PROVE  Total([i \in s |-> r[i]]) = h[s]
<1>. DEFINE w == [i \in s |-> r[i]]
            f == [i \in s |-> i]
<1>1. IsFiniteSet(s) /\ w \in [s -> Int] /\ \A i \in s : w[i] = r[i]
  BY FS_Subset
<1>. HIDE DEF w
<1>2. PICK g : Additive(g, s, w) /\ Total(w) = g[s]
  BY <1>1, TotalAdds
<1>3. f \in [s -> S] /\ (\A i, j \in s : f[i] = f[j] => i = j) /\ \A i \in s : r[f[i]] = w[i]
  BY <1>1
<1>4. {f[i] : i \in s} = s
  OBVIOUS
<1>. HIDE DEF f
<1>5. \A t \in SUBSET s : {f[i] : i \in t} \in SUBSET S /\ g[t] = h[{f[i] : i \in t}]
  BY <1>1, <1>2, <1>3, Renamed
<1>6. g[s] = h[s]
  <2>1. s \in SUBSET s
    OBVIOUS
  <2>. QED  BY <1>4, <1>5, <2>1, Zenon
<1>. QED  BY <1>2, <1>6 DEF w

SignedWhole(K, q, sign) == Total([k \in K |-> sign[k] * q[k]])
Chosen(S, f, sign, up) == \A i \in S : i \in up <=> sign[f[i]] = 1
Numbers(S, f, K) == f \in [S -> K] /\ (\A i, j \in S : f[i] = f[j] => i = j) /\ \A k \in K : \E i \in S : f[i] = k
Split(S, h, up, K, q, sign) ==
  /\ h[up] \in Int /\ h[S] \in Int /\ h[S \ up] \in Int /\ h[S] = h[up] + h[S \ up]
  /\ SignedWhole(K, q, sign) = h[up] + h[up] - h[S]

\* A signed total is twice what counts as positive, less the whole.
LEMMA SignedTotal ==
  ASSUME NEW S, IsFiniteSet(S), NEW K, NEW f, Numbers(S, f, K),
         NEW q \in [K -> Int], NEW r \in [S -> Int], \A i \in S : r[i] = q[f[i]],
         NEW h, Additive(h, S, r), NEW sign \in [K -> {1, -1}], NEW up \in SUBSET S, Chosen(S, f, sign, up)
  PROVE  Split(S, h, up, K, q, sign)
<1>. DEFINE w == [k \in K |-> sign[k] * q[k]]
            v == [i \in S |-> IF i \in up THEN r[i] ELSE 0 - r[i]]
<1>0. f \in [S -> K] /\ (\A i, j \in S : f[i] = f[j] => i = j) /\ \A k \in K : \E i \in S : f[i] = k
  BY DEF Numbers
<1>1. IsFiniteSet(K)
  BY <1>0, Matched
<1>2. w \in [K -> Int] /\ v \in [S -> Int] /\ up \in SUBSET S
  OBVIOUS
<1>3. \A i \in S : w[f[i]] = v[i]
  <2>. SUFFICES ASSUME NEW i \in S PROVE w[f[i]] = v[i]
    OBVIOUS
  <2>1. f[i] \in K /\ q[f[i]] \in Int /\ sign[f[i]] \in {1, -1} /\ w[f[i]] = sign[f[i]] * q[f[i]]
    BY <1>0
  <2>2. i \in up <=> sign[f[i]] = 1
    BY DEF Chosen
  <2>3. 1 * q[f[i]] = q[f[i]] /\ (-1) * q[f[i]] = 0 - q[f[i]]
    BY <2>1
  <2>. HIDE DEF w
  <2>4. v[i] = IF i \in up THEN q[f[i]] ELSE 0 - q[f[i]]
    OBVIOUS
  <2>. QED  BY <2>1, <2>2, <2>3, <2>4
<1>4. Flipped(v, r, S, up)
  BY DEF Flipped
<1>. HIDE DEF w, v
<1>5. PICK g : Additive(g, K, w) /\ Total(w) = g[K]
  BY <1>1, <1>2, TotalAdds
<1>6. PICK e : Additive(e, S, v)
  BY <1>2, TotalAdds
<1>7. \A t \in SUBSET S : {f[i] : i \in t} \in SUBSET K /\ e[t] = g[{f[i] : i \in t}]
  BY <1>0, <1>3, <1>5, <1>6, Renamed
<1>8. {f[i] : i \in S} = K
  BY <1>0
<1>9. e[S] = g[K]
  <2>1. S \in SUBSET S
    OBVIOUS
  <2>. QED  BY <1>7, <1>8, <2>1, Zenon
<1>10. Parted(e, h, S, up)
  BY <1>2, <1>4, <1>6, Signed
<1>11. /\ h[up] \in Int /\ h[S] \in Int /\ h[S \ up] \in Int
       /\ e[S] = h[up] + h[up] - h[S] /\ h[S] = h[up] + h[S \ up]
  BY <1>10 DEF Parted
<1>. QED  BY <1>5, <1>9, <1>11 DEF w, SignedWhole, Split

PairsOf(d) == {i \in DOMAIN d : d[i] # 0}
Alike(d, i) == {j \in PairsOf(d) : Abs(d[j]) = Abs(d[i])}
Closer(d, i) == {j \in PairsOf(d) : Abs(d[j]) < Abs(d[i])}
RankOf(d, i) == 1 + Cardinality(Alike(d, i)) + 2 * Cardinality(Closer(d, i))
Sizes(d) == LET nonzero == At(d, PairsOf(d)) IN [i \in DOMAIN nonzero |-> Abs(nonzero[i])]

\* The ranks of the differences that are not 0.
LEMMA RanksOf ==
  ASSUME NEW n \in Nat, NEW d \in [1 .. n -> Int]
  PROVE  LET K == PairsOf(d)
             m == Cardinality(K)
         IN /\ K \in SUBSET Int /\ IsFiniteSet(K) /\ m \in Nat
            /\ At(d, K) \in [1 .. m -> Int] /\ \A k \in 1 .. m : At(d, K)[k] = d[Nth(K, k)]
            /\ RankAverage(Sizes(d)) \in [1 .. m -> Int]
            /\ \A i \in K : RankOf(d, i) \in Int
            /\ \A k \in 1 .. m : RankAverage(Sizes(d))[k] = RankOf(d, Nth(K, k))
<1>. DEFINE K == PairsOf(d)
            m == Cardinality(K)
            a == Sizes(d)
<1>1. K \in SUBSET Int /\ K \in SUBSET (1 .. n) /\ IsFiniteSet(K) /\ m \in Nat
  <2>1. K \in SUBSET (1 .. n)
    BY DEF PairsOf
  <2>2. 1 \in Int /\ n \in Int
    OBVIOUS
  <2>3. IsFiniteSet(1 .. n)
    BY <2>2, FS_Interval
  <2>4. IsFiniteSet(K)
    BY <2>1, <2>3, FS_Subset
  <2>. HIDE DEF K
  <2>. QED  BY <2>1, <2>4, FS_CardinalityType
<1>. HIDE DEF K
<1>2. \A k \in 1 .. m : Nth(K, k) \in K
  BY <1>1, NthNumbers
<1>3. At(d, K) = [k \in 1 .. m |-> d[Nth(K, k)]]
  BY DEF At
<1>4. At(d, K) \in [1 .. m -> Int] /\ \A k \in 1 .. m : At(d, K)[k] = d[Nth(K, k)]
  BY <1>1, <1>2, <1>3
<1>5. a \in [1 .. m -> Int] /\ \A k \in 1 .. m : a[k] = Abs(d[Nth(K, k)])
  <2>1. a = [i \in DOMAIN At(d, K) |-> Abs(At(d, K)[i])]
    BY DEF Sizes, K
  <2>2. \A x \in Int : Abs(x) \in Int
    BY DEF Abs
  <2>. HIDE DEF a
  <2>. QED  BY <1>4, <2>1, <2>2
<1>. HIDE DEF a
<1>6. ASSUME NEW k \in 1 .. m PROVE RankOf(d, Nth(K, k)) \in Int /\ RankAverage(a)[k] = RankOf(d, Nth(K, k))
  <2>. DEFINE i == Nth(K, k)
              X == Alike(d, i)
              Y == Closer(d, i)
  <2>1. X = K \cap X /\ Y = K \cap Y
    BY DEF Alike, Closer, K
  <2>2. \A j \in 1 .. m : (Nth(K, j) \in X <=> a[j] = a[k]) /\ (Nth(K, j) \in Y <=> a[j] < a[k])
    BY <1>2, <1>5 DEF Alike, Closer, K
  <2>. HIDE DEF X, Y, m
  <2>3. Equal(a, m, a[k]) = {j \in 1 .. m : Nth(K, j) \in X} /\ Below(a, m, a[k]) = {j \in 1 .. m : Nth(K, j) \in Y}
    BY <2>2 DEF Equal, Below
  <2>4. \A Z : Cardinality({j \in 1 .. m : Nth(K, j) \in Z}) = Cardinality(K \cap Z)
    BY <1>1, Numbered DEF m
  <2>5. Cardinality(Equal(a, m, a[k])) = Cardinality(X) /\ Cardinality(Below(a, m, a[k])) = Cardinality(Y)
    BY <2>1, <2>3, <2>4, Zenon
  <2>6. /\ Cardinality(Equal(a, m, a[k])) \in Nat /\ Cardinality(Below(a, m, a[k])) \in Nat
        /\ RankAverage(a)[k] = 1 + Cardinality(Equal(a, m, a[k])) + 2 * Cardinality(Below(a, m, a[k]))
    BY <1>1, <1>5, AverageIs
  <2>7. RankOf(d, i) = 1 + Cardinality(X) + 2 * Cardinality(Y)
    BY DEF RankOf, X, Y
  <2>. HIDE DEF i
  <2>8. RankOf(d, i) \in Int /\ RankAverage(a)[k] = RankOf(d, i)
    BY <2>5, <2>6, <2>7
  <2>. QED  BY <2>8 DEF i
<1>7. \A i \in K : RankOf(d, i) \in Int
  <2>1. \A i \in K : \E k \in 1 .. m : Nth(K, k) = i
    BY <1>1, NthNumbers
  <2>. QED  BY <1>6, <2>1
<1>8. RankAverage(a) \in [1 .. m -> Int]
  <2>1. DOMAIN a = 1 .. m
    BY <1>5
  <2>2. RankAverage(a) = [k \in 1 .. m |-> RankAverage(a)[k]]
    BY <2>1 DEF RankAverage
  <2>3. \A k \in 1 .. m : RankAverage(a)[k] \in Int
    BY <1>6
  <2>. QED  BY <2>2, <2>3
<1>. QED  BY <1>1, <1>4, <1>6, <1>7, <1>8 DEF K, a

Tails(S, h, w, whole) == {s \in SUBSET S : h[s] <= w \/ h[s] >= whole - w}
SignsOf(K) == [K -> {1, -1}]
Farther(K, q, o) == {sign \in SignsOf(K) : Abs(SignedWhole(K, q, sign)) >= Abs(SignedWhole(K, q, o))}

LEMMA InTails ==
  ASSUME NEW S, NEW h, NEW w, NEW whole, NEW s \in SUBSET S
  PROVE  s \in Tails(S, h, w, whole) <=> (h[s] <= w \/ h[s] >= whole - w)
BY DEF Tails

LEMMA Extremes ==
  ASSUME NEW p \in Int, NEW c \in Int, NEW x \in Int
  PROVE  (x <= Min({p, c}) \/ x >= (p + c) - Min({p, c})) <=> Abs(x + x - (p + c)) >= Abs(p + p - (p + c))
<1>1. Min({p, c}) = IF p <= c THEN p ELSE c
  <2>. DEFINE w == IF p <= c THEN p ELSE c
              Is(y) == y \in {p, c} /\ \A z \in {p, c} : y <= z
  <2>1. Is(w) /\ \A y : Is(y) => y = w
    OBVIOUS
  <2>2. Min({p, c}) = CHOOSE y : Is(y)
    BY DEF Min
  <2>. HIDE DEF Is, w
  <2>3. Is(CHOOSE y : Is(y))
    BY <2>1
  <2>4. Min({p, c}) = w
    BY <2>1, <2>2, <2>3
  <2>. QED  BY <2>4 DEF w
<1>. QED  BY <1>1 DEF Abs

Even(S, h, pos, K, q, o) ==
  Cardinality(Tails(S, h, Min({h[pos], h[S \ pos]}), h[pos] + h[S \ pos])) = Cardinality(Farther(K, q, o))

\* The assignments of signs as far out are as many as the sets in the tails.
LEMMA Assigned ==
  ASSUME NEW S, IsFiniteSet(S), NEW K, NEW f, Numbers(S, f, K),
         NEW q \in [K -> Int], NEW r \in [S -> Int], \A i \in S : r[i] = q[f[i]],
         NEW h, Additive(h, S, r), NEW pos \in SUBSET S, NEW o \in SignsOf(K), Chosen(S, f, o, pos)
  PROVE  Even(S, h, pos, K, q, o)
<1>. DEFINE w == Min({h[pos], h[S \ pos]})
            A == Tails(S, h, w, h[pos] + h[S \ pos])
            B == Farther(K, q, o)
            g == [s \in A |-> [k \in K |-> IF \E i \in s : f[i] = k THEN 1 ELSE -1]]
<1>0. \A sign \in SignsOf(K), s \in SUBSET S : Chosen(S, f, sign, s) =>
        /\ h[s] \in Int /\ h[S] \in Int /\ h[S \ s] \in Int /\ h[S] = h[s] + h[S \ s]
        /\ SignedWhole(K, q, sign) = h[s] + h[s] - h[S]
  <2>. SUFFICES ASSUME NEW sign \in SignsOf(K), NEW s \in SUBSET S, Chosen(S, f, sign, s)
                PROVE  /\ h[s] \in Int /\ h[S] \in Int /\ h[S \ s] \in Int /\ h[S] = h[s] + h[S \ s]
                       /\ SignedWhole(K, q, sign) = h[s] + h[s] - h[S]
    OBVIOUS
  <2>1. sign \in [K -> {1, -1}]
    BY DEF SignsOf
  <2>2. Split(S, h, s, K, q, sign)
    BY <2>1, SignedTotal
  <2>. QED  BY <2>2 DEF Split
<1>1. h[pos] \in Int /\ h[S \ pos] \in Int /\ h[S] = h[pos] + h[S \ pos] /\ SignedWhole(K, q, o) = h[pos] + h[pos] - h[S]
  BY <1>0
<1>2. ASSUME NEW sign \in SignsOf(K), NEW s \in SUBSET S, Chosen(S, f, sign, s) PROVE s \in A <=> sign \in B
  <2>1. h[s] \in Int /\ SignedWhole(K, q, sign) = h[s] + h[s] - h[S]
    BY <1>0, <1>2
  <2>2. (h[s] <= w \/ h[s] >= (h[pos] + h[S \ pos]) - w)
          <=> Abs(h[s] + h[s] - (h[pos] + h[S \ pos])) >= Abs(h[pos] + h[pos] - (h[pos] + h[S \ pos]))
    BY <1>1, <2>1, Extremes
  <2>. HIDE DEF w
  <2>. DEFINE whole == h[pos] + h[S \ pos]
  <2>3. s \in A <=> (h[s] <= w \/ h[s] >= whole - w)
    <3>1. A = Tails(S, h, w, whole)
      OBVIOUS
    <3>. HIDE DEF A, whole
    <3>2. s \in Tails(S, h, w, whole) <=> (h[s] <= w \/ h[s] >= whole - w)
      BY InTails
    <3>. QED  BY <3>1, <3>2, Zenon
  <2>4. sign \in B <=> Abs(SignedWhole(K, q, sign)) >= Abs(SignedWhole(K, q, o))
    BY DEF Farther
  <2>5. /\ h[s] + h[s] - (h[pos] + h[S \ pos]) = SignedWhole(K, q, sign)
        /\ h[pos] + h[pos] - (h[pos] + h[S \ pos]) = SignedWhole(K, q, o)
    BY <1>1, <2>1
  <2>6. (h[s] <= w \/ h[s] >= whole - w) <=> Abs(SignedWhole(K, q, sign)) >= Abs(SignedWhole(K, q, o))
    <3>. DEFINE u == h[s] + h[s] - (h[pos] + h[S \ pos])
                v == h[pos] + h[pos] - (h[pos] + h[S \ pos])
                P == h[s] <= w \/ h[s] >= whole - w
    <3>1. P <=> Abs(u) >= Abs(v)
      BY <2>2
    <3>2. u = SignedWhole(K, q, sign) /\ v = SignedWhole(K, q, o)
      BY <2>5
    <3>. HIDE DEF u, v, P
    <3>3. P <=> Abs(SignedWhole(K, q, sign)) >= Abs(SignedWhole(K, q, o))
      BY <3>1, <3>2
    <3>. QED  BY <3>3 DEF P
  <2>. HIDE DEF A, B, whole
  <2>. QED  BY <2>3, <2>4, <2>6
<1>3. A \in SUBSET SUBSET S
  BY DEF Tails
<1>4. IsFiniteSet(A)
  <2>1. IsFiniteSet(SUBSET S)
    BY FS_SUBSET
  <2>. HIDE DEF A
  <2>. QED  BY <1>3, <2>1, FS_Subset
<1>. HIDE DEF A
<1>5. \A s \in A : g[s] \in SignsOf(K) /\ Chosen(S, f, g[s], s)
  <2>. SUFFICES ASSUME NEW s \in A PROVE g[s] \in SignsOf(K) /\ Chosen(S, f, g[s], s)
    OBVIOUS
  <2>1. g[s] = [k \in K |-> IF \E i \in s : f[i] = k THEN 1 ELSE -1]
    OBVIOUS
  <2>. HIDE DEF g
  <2>2. g[s] \in SignsOf(K)
    BY <2>1 DEF SignsOf
  <2>3. \A i \in S : i \in s <=> \E j \in s : f[j] = f[i]
    BY <1>3 DEF Numbers
  <2>4. \A i \in S : g[s][f[i]] = IF \E j \in s : f[j] = f[i] THEN 1 ELSE -1
    BY <2>1 DEF Numbers
  <2>. QED  BY <2>2, <2>3, <2>4 DEF Chosen
<1>6. \A s \in A : g[s] \in B
  BY <1>2, <1>3, <1>5
<1>7. g \in [A -> B]
  <2>. DEFINE G(s) == [k \in K |-> IF \E i \in s : f[i] = k THEN 1 ELSE -1]
  <2>1. g = [s \in A |-> G(s)]
    OBVIOUS
  <2>2. \A s \in A : g[s] = G(s)
    OBVIOUS
  <2>. HIDE DEF G, g
  <2>. QED  BY <1>6, <2>1, <2>2
<1>. HIDE DEF g
<1>8. \A s, t \in A : g[s] = g[t] => s = t
  <2>. SUFFICES ASSUME NEW s \in A, NEW t \in A, g[s] = g[t] PROVE s = t
    OBVIOUS
  <2>1. \A i \in S : i \in s <=> i \in t
    BY <1>5 DEF Chosen
  <2>2. s \in SUBSET S /\ t \in SUBSET S
    BY <1>3
  <2>. QED  BY <2>1, <2>2
<1>9. \A sign \in B : \E s \in A : g[s] = sign
  <2>. SUFFICES ASSUME NEW sign \in B PROVE \E s \in A : g[s] = sign
    OBVIOUS
  <2>. DEFINE s == {i \in S : sign[f[i]] = 1}
  <2>1. sign \in SignsOf(K)
    BY DEF Farther
  <2>2. s \in SUBSET S /\ Chosen(S, f, sign, s)
    BY DEF Chosen
  <2>. HIDE DEF s, B
  <2>3. s \in A
    BY <1>2, <2>1, <2>2
  <2>4. g[s] \in SignsOf(K) /\ Chosen(S, f, g[s], s)
    BY <1>5, <2>3
  <2>5. \A k \in K : g[s][k] = sign[k]
    <3>. SUFFICES ASSUME NEW k \in K PROVE g[s][k] = sign[k]
      OBVIOUS
    <3>1. PICK i \in S : f[i] = k
      BY DEF Numbers
    <3>2. g[s][k] = 1 <=> sign[k] = 1
      BY <2>2, <2>4, <3>1 DEF Chosen
    <3>3. g[s][k] \in {1, -1} /\ sign[k] \in {1, -1}
      BY <2>1, <2>4 DEF SignsOf
    <3>. QED  BY <3>2, <3>3
  <2>6. g[s] = sign
    BY <2>1, <2>4, <2>5 DEF SignsOf
  <2>. QED  BY <2>3, <2>6
<1>. HIDE DEF B
<1>10. Cardinality(A) = Cardinality(B)
  BY <1>4, <1>7, <1>8, <1>9, Matched
<1>. QED  BY <1>10 DEF A, B, Even

RanksIn(d) == [i \in PairsOf(d) |-> RankOf(d, i)]
Observed(d) == [i \in PairsOf(d) |-> IF d[i] > 0 THEN 1 ELSE -1]
AsFar(d) == Farther(PairsOf(d), RanksIn(d), Observed(d))
Positive(v) == {i \in DOMAIN v : v[i] > 0}
Negative(v) == {i \in DOMAIN v : v[i] < 0}

LEMMA HandrolledIs ==
  ASSUME NEW d, Len(At(d, PairsOf(d))) <= MaxCounted
  PROVE  LET v == At(d, PairsOf(d))
             r == RankAverage(Sizes(d))
             p == SignedSum(r, Positive(v))
             c == SignedSum(r, Negative(v))
         IN WilcoxonHandrolled(d) = CountedTail(r, Min({p, c}), p + c)
BY DEF WilcoxonHandrolled, Nonzero, Positive, Negative, Sizes, PairsOf

LEMMA CountedIs ==
  ASSUME NEW r, NEW w, NEW total
  PROVE  CountedTail(r, w, total).tail =
           Cardinality({s \in SUBSET DOMAIN r : SignedSum(r, s) <= w \/ SignedSum(r, s) >= total - w})
<1>. DEFINE T == Cardinality({s \in SUBSET DOMAIN r : SignedSum(r, s) <= w \/ SignedSum(r, s) >= total - w})
<1>1. CountedTail(r, w, total) = [by |-> "count", of |-> 2 ^ Len(r), tail |-> T]
  BY DEF CountedTail
<1>. HIDE DEF T
<1>2. CountedTail(r, w, total).tail = T
  BY <1>1
<1>. QED  BY <1>2 DEF T

LEMMA LengthOf ==
  ASSUME NEW n \in Nat, NEW V, NEW v \in [1 .. n -> V]
  PROVE  Len(v) = n
<1>1. v \in Seq(V)
  BY SeqDef
<1>2. DOMAIN v = 1 .. Len(v) /\ Len(v) \in Nat
  BY <1>1, LenProperties
<1>3. DOMAIN v = 1 .. n
  OBVIOUS
<1>. QED  BY <1>2, <1>3

\* The hand-rolled test counts the assignments of signs as far out.
LEMMA TailOf ==
  ASSUME NEW n \in Nat, NEW d \in [1 .. n -> Int], Cardinality(PairsOf(d)) <= MaxCounted
  PROVE  WilcoxonHandrolled(d).tail * 2 ^ Cardinality(PairsOf(d)) = Cardinality(AsFar(d)) * WilcoxonHandrolled(d).of
<1>. DEFINE K == PairsOf(d)
            m == Cardinality(K)
            S == 1 .. m
            v == At(d, K)
            r == RankAverage(Sizes(d))
            q == RanksIn(d)
            o == Observed(d)
            f == [k \in S |-> Nth(K, k)]
            pos == Positive(v)
            p == SignedSum(r, pos)
            c == SignedSum(r, Negative(v))
            w == Min({p, c})
<1>1. /\ K \in SUBSET Int /\ IsFiniteSet(K) /\ m \in Nat
      /\ v \in [S -> Int] /\ (\A k \in S : v[k] = d[Nth(K, k)])
      /\ r \in [S -> Int] /\ (\A i \in K : RankOf(d, i) \in Int)
      /\ \A k \in S : r[k] = RankOf(d, Nth(K, k))
  BY RanksOf
<1>2. WilcoxonHandrolled(d) = CountedTail(r, w, p + c)
  <2>1. Len(v) = m
    BY <1>1, LengthOf
  <2>. QED  BY <2>1, HandrolledIs
<1>3. \A i \in K : d[i] \in Int /\ d[i] # 0
  BY DEF PairsOf
<1>4. q \in [K -> Int] /\ \A i \in K : q[i] = RankOf(d, i)
  BY <1>1 DEF RanksIn
<1>5. o \in SignsOf(K) /\ \A i \in K : o[i] = 1 <=> d[i] > 0
  BY DEF Observed, SignsOf
<1>. HIDE DEF K, v, r, q, o
<1>6. \A k \in S : Nth(K, k) \in K
  BY <1>1, NthNumbers
<1>7. Numbers(S, f, K)
  <2>1. f \in [S -> K] /\ \A k \in S : f[k] = Nth(K, k)
    BY <1>6
  <2>2. /\ \A k, l \in S : Nth(K, k) = Nth(K, l) => k = l
        /\ \A i \in K : \E k \in S : Nth(K, k) = i
    BY <1>1, NthNumbers
  <2>. HIDE DEF f, S
  <2>. QED  BY <2>1, <2>2 DEF Numbers
<1>8. IsFiniteSet(S) /\ 1 \in Int /\ m \in Int
  <2>1. 1 \in Int /\ m \in Int
    BY <1>1
  <2>. QED  BY <2>1, FS_Interval
<1>9. pos \in SUBSET S /\ Negative(v) = S \ pos
  <2>1. \A k \in S : v[k] \in Int /\ v[k] # 0
    BY <1>1, <1>3, <1>6
  <2>2. DOMAIN v = S
    BY <1>1
  <2>. HIDE DEF S
  <2>. QED  BY <2>1, <2>2 DEF Positive, Negative
<1>10. Chosen(S, f, o, pos)
  <2>1. \A k \in S : k \in pos <=> v[k] > 0
    <3>1. DOMAIN v = S
      BY <1>1
    <3>. HIDE DEF S
    <3>. QED  BY <3>1 DEF Positive
  <2>2. \A k \in S : f[k] = Nth(K, k) /\ (o[Nth(K, k)] = 1 <=> v[k] > 0)
    BY <1>1, <1>5, <1>6
  <2>. HIDE DEF S, f, pos
  <2>. QED  BY <2>1, <2>2 DEF Chosen
<1>11. \A k \in S : r[k] = q[f[k]]
  BY <1>1, <1>4, <1>6
<1>12. PICK h : Additive(h, S, r)
  BY <1>1, <1>8, TotalAdds
<1>. HIDE DEF S, f, pos
<1>13. \A s \in SUBSET S : h[s] \in Int /\ SignedSum(r, s) = h[s]
  <2>1. ASSUME NEW s \in SUBSET S PROVE Total([i \in s |-> r[i]]) = h[s]
    <3>1. r \in [S -> Int] /\ IsFiniteSet(S)
      BY <1>1, <1>8
    <3>. QED  BY <1>12, <3>1, SubTotal
  <2>2. \A s \in SUBSET S : h[s] \in Int
    BY <1>12 DEF Additive
  <2>. QED  BY <2>1, <2>2 DEF SignedSum
<1>14. p = h[pos] /\ c = h[S \ pos] /\ h[pos] \in Int /\ h[S \ pos] \in Int
  <2>1. pos \in SUBSET S /\ S \ pos \in SUBSET S
    BY <1>9
  <2>. QED  BY <1>9, <1>13, <2>1
<1>15. Cardinality(Tails(S, h, Min({h[pos], h[S \ pos]}), h[pos] + h[S \ pos])) = Cardinality(Farther(K, q, o))
  <2>1. r \in [S -> Int] /\ IsFiniteSet(S) /\ q \in [K -> Int] /\ o \in SignsOf(K) /\ pos \in SUBSET S
    BY <1>1, <1>4, <1>5, <1>8, <1>9
  <2>2. Even(S, h, pos, K, q, o)
    BY <1>7, <1>10, <1>11, <1>12, <2>1, Assigned
  <2>. QED  BY <2>2 DEF Even
<1>. DEFINE T == {s \in SUBSET S : SignedSum(r, s) <= w \/ SignedSum(r, s) >= (p + c) - w}
<1>16. T = Tails(S, h, w, p + c)
  <2>. HIDE DEF w, p, c
  <2>1. \A s \in SUBSET S : SignedSum(r, s) = h[s]
    BY <1>13
  <2>. QED  BY <2>1 DEF Tails
<1>17. Tails(S, h, w, p + c) = Tails(S, h, Min({h[pos], h[S \ pos]}), h[pos] + h[S \ pos])
  <2>. HIDE DEF p, c
  <2>. QED  BY <1>14, Zenon
<1>18. Len(r) = m
  <2>1. m \in Nat /\ r \in [1 .. m -> Int]
    BY <1>1 DEF S
  <2>. HIDE DEF m
  <2>. QED  BY <2>1, LengthOf
<1>19. DOMAIN r = S
  BY <1>1
<1>. HIDE DEF w, p, c, T, m
<1>20. CountedTail(r, w, p + c).tail = Cardinality(T) /\ CountedTail(r, w, p + c).of = 2 ^ m
  <2>1. CountedTail(r, w, p + c).of = 2 ^ m
    BY <1>18 DEF CountedTail
  <2>2. CountedTail(r, w, p + c).tail =
          Cardinality({s \in SUBSET DOMAIN r : SignedSum(r, s) <= w \/ SignedSum(r, s) >= (p + c) - w})
    BY CountedIs, Zenon
  <2>3. {s \in SUBSET DOMAIN r : SignedSum(r, s) <= w \/ SignedSum(r, s) >= (p + c) - w} = T
    BY <1>19, Zenon DEF T
  <2>. QED  BY <2>1, <2>2, <2>3
<1>21. AsFar(d) = Farther(K, q, o)
  BY DEF AsFar, K, q, o
<1>22. Cardinality(T) = Cardinality(AsFar(d))
  BY <1>15, <1>16, <1>17, <1>21, Zenon
<1>23. WilcoxonHandrolled(d).tail = Cardinality(AsFar(d)) /\ WilcoxonHandrolled(d).of = 2 ^ Cardinality(PairsOf(d))
  BY <1>2, <1>20, <1>22, Zenon DEF m, K
<1>. QED  BY <1>23, Zenon

\* The p-value of a sample without nulls is the exact one.
LEMMA TailIsExact == ScriptInv => ExactTail
<1>. SUFFICES ASSUME ScriptInv, PrintedByHand, Cardinality(Differing) <= MaxCounted PROVE ExactTail
  BY DEF ExactTail
<1>. USE DEF PrintedByHand
<1>0. PICK n \in 1 .. MaxPairs : \E t, b \in Sample(n) : script.input = <<t, b>>
  BY DEF ScriptInv
<1>1. PICK t \in Sample(n), b \in Sample(n) : script.input = <<t, b>>
  BY <1>0
<1>2. script.input[1] = t /\ script.input[2] = b
  BY <1>1
<1>3. n \in Nat
  BY UnitAssumption
<1>4. t \in [1 .. n -> Value] /\ b \in [1 .. n -> Value]
  <2>1. t \in [1 .. n -> Value \cup {Null}] /\ b \in [1 .. n -> Value \cup {Null}]
    BY DEF Sample
  <2>2. \A i \in 1 .. n : t[i] # Null /\ b[i] # Null
    BY <1>2, <2>1 DEF Range
  <2>. QED  BY <2>1, <2>2
<1>5. Loaded(t) = t /\ Loaded(b) = b
  BY <1>3, <1>4, LoadedWhole
<1>6. Len(t) = n /\ Len(b) = n
  BY <1>3, <1>4, LengthOf
<1>. DEFINE d == [i \in 1 .. n |-> t[i] - b[i]]
<1>7. d \in [1 .. n -> Int] /\ DOMAIN t = 1 .. n /\ \A i \in 1 .. n : d[i] = t[i] - b[i]
  <2>1. \A i \in 1 .. n : t[i] \in Int /\ b[i] \in Int
    BY <1>4, ValueAssumption
  <2>. QED  BY <1>4, <2>1
<1>8. script.output = WilcoxonHandrolled(d)
  <2>1. script.output = WilcoxonPaired(t, b, FALSE)
    BY <1>2, <1>5 DEF ScriptInv, WilcoxonPaired
  <2>2. WilcoxonPaired(t, b, FALSE) = WilcoxonHandrolled([i \in DOMAIN t |-> t[i] - b[i]])
    BY <1>6 DEF WilcoxonPaired
  <2>. QED  BY <1>7, <2>1, <2>2
<1>. HIDE DEF d
<1>9. \A i \in 1 .. n : Delta(i) = d[i]
  BY <1>2, <1>7 DEF Delta
<1>10. Differing = PairsOf(d) /\ Differing \in SUBSET (1 .. n)
  <2>1. DOMAIN d = 1 .. n /\ DOMAIN script.input[1] = 1 .. n
    BY <1>2, <1>7
  <2>. QED  BY <1>9, <2>1 DEF PairsOf, Differing
<1>11. script.output.tail * 2 ^ Cardinality(PairsOf(d)) = Cardinality(AsFar(d)) * script.output.of
  BY <1>3, <1>7, <1>8, <1>10, TailOf
<1>. DEFINE statistic(sign) == Abs(Total([i \in Differing |-> sign[i] * MidRank(i)]))
            observed == [i \in Differing |-> IF Delta(i) > 0 THEN 1 ELSE -1]
            asFar == {sign \in [Differing -> {1, -1}] : statistic(sign) >= statistic(observed)}
<1>12. \A i \in Differing : Delta(i) = d[i]
  BY <1>9, <1>10
<1>13. \A i \in Differing : MidRank(i) = RankOf(d, i)
  <2>. SUFFICES ASSUME NEW i \in Differing PROVE MidRank(i) = RankOf(d, i)
    OBVIOUS
  <2>1. {j \in Differing : Abs(Delta(j)) = Abs(Delta(i))} = Alike(d, i)
    BY <1>10, <1>12 DEF Alike
  <2>2. {j \in Differing : Abs(Delta(j)) < Abs(Delta(i))} = Closer(d, i)
    BY <1>10, <1>12 DEF Closer
  <2>. QED  BY <2>1, <2>2 DEF RankOf, MidRank
<1>14. observed = Observed(d)
  BY <1>10, <1>12 DEF Observed
<1>. HIDE DEF observed
<1>15. \A sign : statistic(sign) = Abs(SignedWhole(PairsOf(d), RanksIn(d), sign))
  <2>. SUFFICES ASSUME NEW sign PROVE statistic(sign) = Abs(SignedWhole(PairsOf(d), RanksIn(d), sign))
    OBVIOUS
  <2>1. \A i \in Differing : RanksIn(d)[i] = MidRank(i)
    BY <1>10, <1>13 DEF RanksIn
  <2>2. [i \in Differing |-> sign[i] * MidRank(i)] = [i \in PairsOf(d) |-> sign[i] * RanksIn(d)[i]]
    BY <1>10, <2>1
  <2>. QED  BY <2>2 DEF SignedWhole
<1>. HIDE DEF statistic
<1>16. asFar = AsFar(d)
  <2>1. asFar = {sign \in SignsOf(PairsOf(d)) : statistic(sign) >= statistic(Observed(d))}
    BY <1>10, <1>14 DEF SignsOf
  <2>. QED  BY <1>15, <2>1 DEF AsFar, Farther
<1>. HIDE DEF asFar
<1>17. script.output.tail * 2 ^ Cardinality(Differing) = Cardinality(asFar) * script.output.of
  BY <1>10, <1>11, <1>16, Zenon
<1>. QED  BY <1>17 DEF ExactTail, asFar, observed, statistic

\* The aggregation pairs what two arms measured on one query, replicate and
\* seed: with all arms written no pair is missing, and its two counts are of
\* the same rows, whatever the suite, the tables, the plan of warm-ups and
\* refits, and whatever the arms made of their estimates.
THEOREM PairsAreComplete == AblationSpec => []PairedCells
<1>1. AblationInv => PairedCells
  BY CellsPair
<1>. QED  BY <1>1, AblationStates, PTL

\* A corrector is asked with the priors of its own training, and less than
\* one refit behind what its arm has stored.
THEOREM CorrectorsAreCurrent == AblationSpec => []TrainedAsUsed
<1>1. AblationInv => TrainedAsUsed
  BY PriorsAreCurrent
<1>. QED  BY <1>1, AblationStates, PTL

\* benjamini_hochberg.py rejects the union of the consistent sets, whatever
\* the number, the order and the ties of the p-values, and the adjusted ones
\* say the same.
THEOREM ControlsDiscoveries == AblationSpec => []StepUp
<1>1. AblationInv => StepUp
  BY RejectsTheUnion
<1>. QED  BY <1>1, AblationStates, PTL

\* Without SciPy, and as long as it enumerates the assignments of signs to
\* the ranks, wilcoxon_paired.py counts those whose sum is as far out as the
\* observed one: its p-value is exact, with any ties and zeros, of arrays
\* without nulls.
THEOREM TailsAreExact == AblationSpec => []ExactTail
<1>1. AblationInv => ExactTail
  BY TailIsExact DEF AblationInv
<1>. QED  BY <1>1, AblationStates, PTL

============================================================================
