-------------------------- MODULE InferenceServer --------------------------
(***************************************************************************)
(* The inference servers that ship in samkhya-gpudb/scripts: the language  *)
(* model server in Python and in TypeScript, their two stand-alone dummies *)
(* and the TabPFN server, each behind the wire contract of the correctors. *)
(*                                                                         *)
(* A connection carries one request, as the correctors make an agent for   *)
(* every call.  The upstream model is external: it answers a number, words *)
(* or an error, in any number of pieces, or never.  Time passes in Tick;   *)
(* what the server computes by itself takes none.                          *)
(***************************************************************************)
EXTENDS Integers, Sequences, FiniteSetsExt

CONSTANTS
  Conn,        \* connections
  Server,      \* [impl, backend, template]: the servers a deployment may choose, and their user prompts
  Request,     \* the requests made of them
  FeatureLen,  \* FEATURE_LEN
  MaxBatches,  \* MAX_INFER_BATCHES
  MaxU64,      \* U64_MAX
  Reply,       \* numbers an upstream may answer
  Hard, Idle,  \* HARD_DEADLINE_MS and IDLE_DEADLINE_MS
  Grace,       \* time between a signal and the forced exit
  MaxTimeout,  \* MAX_TIMEOUT_MS of the corrector
  Patience,    \* timeouts the correctors are configured with
  MaxParts,    \* bound: pieces of an upstream's answer are counted up to here
  Words,       \* an answer without digits, or no finite number
  Failed,      \* an error instead of an answer
  Pending, None

U64 == 0 .. MaxU64
Fate == Reply \cup {Words, Failed, Pending, None}

RequestType ==
  [path : {"health", "infer", "missing"}, framed : BOOLEAN, large : BOOLEAN, form : {"broken", "value", "object"},
   count : Nat, features : {"finite", "word", "huge"}, baseline : Int]

ASSUME ServerAssumption ==
  Server \subseteq [impl : {"python", "node"}, backend : {"dummy", "sdk", "local"}, template : {"plain", "braces"}]
                    \cup [impl : {"dummy", "nodeDummy"}, backend : {"dummy"}, template : {"plain"}]
                    \cup [impl : {"tabpfn"}, backend : {"model"}, template : {"plain"}]
ASSUME RequestAssumption == Request \subseteq RequestType
ASSUME NumberAssumption ==
  /\ MaxU64 \in Nat /\ Reply \subseteq Nat /\ {Words, Failed, Pending, None} \cap Int = {}
  /\ None \notin {Words, Failed, Pending}
  /\ FeatureLen \in Nat \ {0} /\ MaxBatches \in Nat \ {0} /\ MaxParts \in Nat \ {0}
\* The local backend gives up before the most patient corrector does.
ASSUME TimeAssumption ==
  /\ {Hard, Idle, Grace, MaxTimeout} \subseteq Nat \ {0} /\ Idle < Hard /\ Hard < MaxTimeout
  /\ Patience \subseteq 0 .. MaxTimeout

VARIABLES
  server,   \* the server that was started
  process,  \* starting, serving, closing or exited
  exit,     \* how it exited: none, clean, forced, failed or killed
  grace,    \* time since the signal
  conn      \* each connection: its client, and the server's task for it

vars == <<server, process, exit, grace, conn>>

NoConn ==
  [request |-> None, client |-> "idle", patience |-> 0, waited |-> 0, answer |-> None,
   task |-> "none", age |-> 0, quiet |-> 0, parts |-> 0, upstream |-> None, status |-> 0, estimate |-> None]

Up == process \in {"serving", "closing"}
Waiting(c) == conn[c].client = "waiting"
Calling(c) == conn[c].task = "calling"

----------------------------------------------------------------------------
(* What a request is answered before any model is asked: what each check   *)
(* answers, in the order of the code, where 200 lets the request pass.     *)

Require(holds, status) == IF holds THEN 200 ELSE status

\* The body, read under a cap.
BodyChecks(r) == <<Require(r.framed, 400), Require(~ r.large, 413)>>

\* What it cannot frame, Node answers by itself.
NodeBodyChecks(r) == BodyChecks(r)

Batches(r) == r.count \div FeatureLen

\* The JSON in it, where `finite` are the features that pass for numbers.
Checks(r, finite) ==
  <<Require(r.form # "broken", 400), Require(r.form = "object", 400), Require(r.count # 0, 400),
    Require(r.features \in finite, 400), Require(r.baseline \in U64, 400),
    Require(r.count % FeatureLen = 0, 400), Require(Batches(r) <= MaxBatches, 413)>>

\* An integer beyond f64 is finite in Python, until the prompt is rendered;
\* and a configured prompt with braces of its own cannot be.
PythonChecks(r) == Checks(r, {"finite", "huge"})
Rendered(r) == <<Require(r.features # "huge" /\ server.template = "plain", 500)>>

\* JSON.parse makes an infinity of it.
NodeChecks(r) == Checks(r, {"finite"})
DummyChecks(r) == Checks(r, {"finite", "huge"})
NodeDummyChecks(r) == Checks(r, {"finite"})

\* No caps; a value without get() is an internal error; no upper end to the
\* baseline; the conversion to an array rejects what is no number.
TabPfnChecks(r) ==
  <<Require(r.framed, 400), Require(r.form # "broken", 400), Require(r.form = "object", 500), Require(r.count # 0, 400),
    Require(r.baseline >= 0, 400), Require(r.count % FeatureLen = 0, 400), Require(r.features = "finite", 400)>>

InferChecks(r) ==
  CASE server.impl = "python" -> BodyChecks(r) \o PythonChecks(r) \o Rendered(r)
    [] server.impl = "node" -> NodeBodyChecks(r) \o NodeChecks(r)
    [] server.impl = "dummy" -> BodyChecks(r) \o DummyChecks(r)
    [] server.impl = "nodeDummy" -> NodeBodyChecks(r) \o NodeDummyChecks(r)
    [] server.impl = "tabpfn" -> TabPfnChecks(r)

\* The status of the first check that fails, or 200.
Verdict(r) ==
  LET checks == InferChecks(r)
      failed == {i \in DOMAIN checks : checks[i] # 200}
  IN CASE r.path = "missing" -> 404
       [] r.path = "infer" /\ failed # {} -> checks[Min(failed)]
       [] OTHER -> 200

----------------------------------------------------------------------------
(* What the answer of an upstream becomes.                                 *)

\* The first run of digits, capped; the baseline when there is none.
FirstInteger(x, baseline) == IF x = Words THEN baseline ELSE IF x > MaxU64 THEN MaxU64 ELSE x

\* baseline * exp(prediction), where x stands for the product.
Headline(x, baseline) ==
  IF x = Words THEN baseline ELSE IF baseline = 0 THEN 0 ELSE IF x >= MaxU64 THEN MaxU64 - 1 ELSE x

Estimate(c, x) ==
  LET baseline == conn[c].request.baseline
  IN IF server.backend = "model" THEN Headline(x, baseline) ELSE FirstInteger(x, baseline)

----------------------------------------------------------------------------

Init ==
  /\ server \in Server
  /\ process = "starting" /\ exit = "none" /\ grace = 0
  /\ conn = [c \in Conn |-> NoConn]

\* What each server looks for before it serves.
Address == {"arguments", "port"}
Prompts == {"system prompt", "user prompt"}  \* under PROMPT_MAX_BYTES
Sdk == IF server.backend = "sdk" THEN {"package", "key"} ELSE {}

PythonNeeds == Address \cup Prompts \cup Sdk
NodeNeeds == Address \cup Prompts \cup Sdk
DummyNeeds == Address
TabPfnNeeds == Address \cup {"package", "weights"}

Needs ==
  CASE server.impl = "python" -> PythonNeeds
    [] server.impl = "node" -> NodeNeeds
    [] server.impl \in {"dummy", "nodeDummy"} -> DummyNeeds
    [] server.impl = "tabpfn" -> TabPfnNeeds

\* The backend is loaded before the socket is bound; with anything amiss the
\* process ends instead.
Load ==
  /\ process = "starting"
  /\ \E amiss \in SUBSET Needs :
       IF amiss = {} THEN process' = "serving" /\ UNCHANGED exit ELSE process' = "exited" /\ exit' = "failed"
  /\ UNCHANGED <<server, grace, conn>>

\* A corrector sends its request and waits.
Send(c, r, patience) ==
  /\ process = "serving" /\ conn[c].client = "idle"
  /\ conn' = [conn EXCEPT ![c] = [NoConn EXCEPT !.request = r, !.client = "waiting", !.patience = patience, !.task = "queued"]]
  /\ UNCHANGED <<server, process, exit, grace>>

\* The event loop, or the only thread, is inside a call to the model.
Blocked == server.impl \in {"python", "dummy", "tabpfn"} /\ \E c \in Conn : Calling(c)

Ready(c) == Up /\ conn[c].task = "queued" /\ ~ Blocked

Respond(c, status, estimate, upstream) ==
  /\ conn' = [conn EXCEPT ![c].task = "replied", ![c].status = status, ![c].estimate = estimate,
                          ![c].upstream = upstream, ![c].age = 0, ![c].quiet = 0]
  /\ UNCHANGED <<server, process, exit, grace>>

\* The handlers of /infer and of the other routes, up to the model.
Refuse(c) == Ready(c) /\ Verdict(conn[c].request) # 200 /\ Respond(c, Verdict(conn[c].request), None, None)
Health(c) == Ready(c) /\ conn[c].request.path = "health" /\ Respond(c, 200, None, None)

Accepted(c) == Ready(c) /\ conn[c].request.path = "infer" /\ Verdict(conn[c].request) = 200

Echo(c) == Accepted(c) /\ server.backend = "dummy" /\ Respond(c, 200, conn[c].request.baseline, None)

Ask(c) ==
  /\ Accepted(c) /\ server.backend # "dummy"
  /\ conn' = [conn EXCEPT ![c].task = "calling", ![c].upstream = Pending]
  /\ UNCHANGED <<server, process, exit, grace>>

Least(x, y) == IF x < y THEN x ELSE y

\* Something of the answer has come, or in Python the connection is made:
\* the idle timer, or the limit of the next read, starts again.
Part(c) ==
  /\ Up /\ Calling(c) /\ server.backend = "local"
  /\ conn' = [conn EXCEPT ![c].parts = Least(@ + 1, MaxParts), ![c].quiet = 0]
  /\ UNCHANGED <<server, process, exit, grace>>

Answered(c, x) == Up /\ Calling(c) /\ x \in Reply \cup {Words} /\ Respond(c, 200, Estimate(c, x), x)

\* Mutant: what the head of the server file says of a failing backend.
Unavailable(c) == Respond(c, 503, None, Failed)

\* An exception that a backend catches becomes the baseline.
Neutral(c) == Respond(c, 200, conn[c].request.baseline, Failed)

Crash(c) == Respond(c, 500, None, Failed)

\* An error of the upstream: a status, a broken connection, a body that is
\* too large or does not parse.  An exception of TabPFN is not caught.
Fails(c) == Up /\ Calling(c) /\ IF server.backend = "model" THEN Crash(c) ELSE Neutral(c)

\* A response that is no text, which only Node parses where it catches.
Misshapen(c) ==
  /\ Up /\ Calling(c) /\ server.backend = "local"
  /\ IF server.impl = "node" THEN Neutral(c) ELSE Crash(c)

\* Mutant: the hard deadline is re-armed with the idle one.
NodeExpiredIdle(c) == conn[c].quiet = Idle

\* Mutant: the timers are cleared once the headers are in.
NodeExpiredHead(c) == conn[c].parts = 0 /\ (conn[c].age = Hard \/ conn[c].quiet = Idle)

\* Two timers abort the fetch.
NodeExpired(c) == conn[c].age = Hard \/ conn[c].quiet = Idle

\* urlopen's timeout is one of each operation of the socket.
PythonExpired(c) == conn[c].quiet = Hard

Expired(c) ==
  /\ Up /\ Calling(c) /\ server.backend = "local"
  /\ IF server.impl = "node" THEN NodeExpired(c) ELSE PythonExpired(c)

Abort(c) == Expired(c) /\ Neutral(c)

----------------------------------------------------------------------------
(* The corrector's end of a connection.                                    *)

\* A status that is no success, or an estimate that is no u64, is None.
Deliver(c) ==
  /\ Waiting(c) /\ conn[c].task = "replied"
  /\ conn' = [conn EXCEPT ![c].client = "answered",
                          ![c].answer = IF conn[c].status = 200 /\ conn[c].estimate \in U64 THEN conn[c].estimate ELSE None]
  /\ UNCHANGED <<server, process, exit, grace>>

\* The server is not told, and goes on.
GiveUp(c) ==
  /\ Waiting(c) /\ conn[c].waited = conn[c].patience
  /\ conn' = [conn EXCEPT ![c].client = "gone"]
  /\ UNCHANGED <<server, process, exit, grace>>

----------------------------------------------------------------------------
(* The end of the process.                                                 *)

Exit(how) ==
  /\ process' = "exited" /\ exit' = how
  /\ conn' = [c \in Conn |-> [conn[c] EXCEPT !.client = IF @ = "waiting" THEN "cut" ELSE @,
                                             !.task = IF @ = "replied" THEN @ ELSE "none"]]
  /\ UNCHANGED <<server, grace>>

\* server.close() on a signal: no new connections.  What uvicorn and the
\* Python dummy do with one is left out.
Shutdown ==
  /\ process = "serving" /\ server.impl \in {"node", "nodeDummy"}
  /\ process' = "closing"
  /\ UNCHANGED <<server, exit, grace, conn>>

\* Every connection has ended.
Drained == \A c \in Conn : ~ Waiting(c)

Close == process = "closing" /\ Drained /\ Exit("clean")
ForcedExit == process = "closing" /\ grace = Grace /\ Exit("forced")
Kill == Up /\ Exit("killed")

----------------------------------------------------------------------------

\* Whatever is due comes before more time passes.
Due(c) ==
  \/ Ready(c) \/ Expired(c) \/ (Waiting(c) /\ conn[c].task = "replied")
  \/ Waiting(c) /\ conn[c].waited = conn[c].patience

Tick ==
  /\ \A c \in Conn : ~ Due(c)
  /\ ~ (process = "closing" /\ (grace = Grace \/ Drained))
  /\ grace' = IF process = "closing" THEN grace + 1 ELSE grace
  /\ conn' = [c \in Conn |-> [conn[c] EXCEPT !.waited = IF Waiting(c) THEN @ + 1 ELSE @,
                                             !.age = IF Calling(c) THEN Least(@ + 1, Hard) ELSE @,
                                             !.quiet = IF Calling(c) THEN Least(@ + 1, Hard) ELSE @]]
  /\ UNCHANGED <<server, process, exit>>

Own(c) == Refuse(c) \/ Health(c) \/ Echo(c) \/ Ask(c) \/ Abort(c) \/ Deliver(c) \/ GiveUp(c)
Upstream(c) == Part(c) \/ Fails(c) \/ Misshapen(c) \/ \E x \in Reply \cup {Words} : Answered(c, x)

Next ==
  \/ Load \/ Shutdown \/ Close \/ ForcedExit \/ Kill \/ Tick
  \/ \E c \in Conn : Own(c) \/ Upstream(c) \/ \E r \in Request, p \in Patience : Send(c, r, p)

Spec == Init /\ [][Next]_vars

\* The process runs and time passes; an upstream need never answer.
FairSpec ==
  /\ Spec /\ WF_vars(Tick) /\ WF_vars(Close) /\ WF_vars(ForcedExit)
  /\ \A c \in Conn : WF_vars(Own(c))

----------------------------------------------------------------------------
(* Properties.                                                             *)

\* A request as the correctors build it.
Ours(r) ==
  /\ r.path = "infer" /\ r.framed /\ ~ r.large /\ r.form = "object" /\ r.features = "finite"
  /\ r.count = FeatureLen /\ r.baseline \in U64

\* What the Python server does not catch: a prompt that cannot be rendered,
\* and a local model's response that is no text.
Uncaught(c) ==
  /\ server.impl = "python" /\ conn[c].status = 500 /\ conn[c].estimate = None
  /\ server.template = "braces" \/ (server.backend = "local" /\ conn[c].upstream = Failed)

\* A language model that fails is no part of what can go wrong: a reply to a
\* corrector's request is a row count, which is the request's own baseline
\* unless an upstream answered a number to this very request; or else it is
\* an error of the two kinds above, from which the corrector takes nothing.
\* And a request that a check refused cost no call.
NeutralUnlessAnswered ==
  server.backend # "model" => \A c \in Conn :
    /\ conn[c].task = "replied" /\ Ours(conn[c].request) =>
         \/ Uncaught(c)
         \/ /\ conn[c].status = 200 /\ conn[c].estimate \in U64
            /\ conn[c].estimate = conn[c].request.baseline \/ conn[c].upstream \in Reply
    /\ conn[c].upstream # None => Verdict(conn[c].request) = 200

\* The most patient corrector, at the cap of 60 s, outlasts the 55 s of the
\* local backend, however the upstream stalls or dribbles and whoever else
\* asks, and a health probe is answered at once; except that the Python
\* server serves one call at a time and limits the connection and each read,
\* not the call.
OutlastsBackend ==
  \A c \in Conn : conn[c].client = "gone" =>
    \/ server.impl = "python" /\ (conn[c].parts > 0 \/ \E d \in Conn \ {c} : conn[d].upstream # None)
    \/ server.impl = "tabpfn"
    \/ conn[c].request.path # "health" /\ (server.backend = "sdk" \/ conn[c].patience < MaxTimeout)
    \/ conn[c].patience = 0

\* The backends that limit a whole call.  Python's local one does not: its
\* limit is one of each read, and a model that dribbles holds it for ever.
Limited == server.backend = "dummy" \/ (server.backend = "local" /\ server.impl = "node")

\* There every request is served or its server gone, although an upstream
\* never answers, or never ends its answer; and a signalled server exits.
EveryRequestEnds ==
  /\ \A c \in Conn : (conn[c].task \in {"queued", "calling"} /\ Limited) ~> (conn[c].task \in {"replied", "none"})
  /\ (process = "closing") ~> (process = "exited")
=============================================================================
