------------------------- MODULE AccessPipelineProofs -------------------------
(***************************************************************************)
(* Proofs about AccessPipeline, for any workflows, roles, groups, users    *)
(* and requests.                                                           *)
(***************************************************************************)
EXTENDS AccessPipeline, TLAPS

(***************************************************************************)
(* The engine's decision and the documentation's permission.               *)
(***************************************************************************)
\* The first one, two, three or four segments of a path, by their places.
LEMMA Begins1 ==
  ASSUME NEW S, NEW p \in Seq(S), NEW a
  PROVE  IsPrefix(<<a>>, p) <=> Len(p) >= 1 /\ p[1] = a
  BY DEF IsPrefix

LEMMA Begins2 ==
  ASSUME NEW S, NEW p \in Seq(S), NEW a, NEW b
  PROVE  IsPrefix(<<a, b>>, p) <=> Len(p) >= 2 /\ p[1] = a /\ p[2] = b
  BY DEF IsPrefix

LEMMA Begins3 ==
  ASSUME NEW S, NEW p \in Seq(S), NEW a, NEW b, NEW c
  PROVE  IsPrefix(<<a, b, c>>, p) <=> Len(p) >= 3 /\ p[1] = a /\ p[2] = b /\ p[3] = c
  BY DEF IsPrefix

LEMMA Begins4 ==
  ASSUME NEW S, NEW p \in Seq(S), NEW a, NEW b, NEW c, NEW d
  PROVE  IsPrefix(<<a, b, c, d>>, p) <=>
           Len(p) >= 4 /\ p[1] = a /\ p[2] = b /\ p[3] = c /\ p[4] = d
  BY DEF IsPrefix

LEMMA Lengths ==
  ASSUME NEW S, NEW p \in Seq(S)
  PROVE  /\ Len(p) \in Nat
         /\ Len(p) >= 2 => Len(p) = 2 \/ Len(p) >= 3
         /\ Len(p) >= 3 <=> Len(p) = 3 \/ Len(p) >= 4
         /\ ~(Len(p) = 2 /\ Len(p) >= 3) /\ ~(Len(p) = 3 /\ Len(p) >= 4)
<1>1. Len(p) \in Nat
  OBVIOUS
<1>2. \A n \in Nat : /\ n >= 2 => n = 2 \/ n >= 3
                     /\ n >= 3 <=> n = 3 \/ n >= 4
                     /\ ~(n = 2 /\ n >= 3) /\ ~(n = 3 /\ n >= 4)
  OBVIOUS
<1> QED BY <1>1, <1>2, Zenon

\* The two paths whose workflow is named in the body.
NamedInBody(p) ==
  \/ Len(p) = 3 /\ p[1] = "rest" /\ p[2] = "workflows" /\ p[3] = "run"
  \/ Len(p) = 2 /\ p[1] = "rest" /\ p[2] = "executions"

LEMMA BodyPaths ==
  ASSUME NEW S, NEW p \in Seq(S)
  PROVE  /\ p \in {ManualRun, <<"rest", "executions">>} <=> NamedInBody(p)
         /\ p = ManualRun <=>
              Len(p) = 3 /\ p[1] = "rest" /\ p[2] = "workflows" /\ p[3] = "run"
<1>1. p = ManualRun <=> Len(p) = 3 /\ p[1] = "rest" /\ p[2] = "workflows" /\ p[3] = "run"
  BY DEF ManualRun
<1>2. p = <<"rest", "executions">> <=> Len(p) = 2 /\ p[1] = "rest" /\ p[2] = "executions"
  OBVIOUS
<1> QED BY <1>1, <1>2 DEF NamedInBody

\* A request runs a workflow by its path, or by its body.
RunsByPath(p, w) ==
  /\ Len(p) >= 4 /\ p[1] = "rest"
  /\ \/ p[2] = "workflows" /\ p[3] = w /\ p[4] \in {"run", "test"}
     \/ p[2] = "executions" /\ p[3] \in Executions /\ WorkflowOf[p[3]] = w /\ p[4] = "retry"

LEMMA RunsBy ==
  ASSUME NEW r, NEW S, NEW p \in Seq(S), r.path = p, NEW w
  PROVE  Runs(r, w) <=> RunsByPath(p, w) \/ (NamedInBody(p) /\ Named(r) = w)
<1>1. (\E v \in {"run", "test"} : IsPrefix(<<"rest", "workflows", w, v>>, p)) <=>
        Len(p) >= 4 /\ p[1] = "rest" /\ p[2] = "workflows" /\ p[3] = w
        /\ p[4] \in {"run", "test"}
  BY Begins4
<1>2. (\E e \in Executions :
         WorkflowOf[e] = w /\ IsPrefix(<<"rest", "executions", e, "retry">>, p)) <=>
        Len(p) >= 4 /\ p[1] = "rest" /\ p[2] = "executions" /\ p[3] \in Executions
        /\ WorkflowOf[p[3]] = w /\ p[4] = "retry"
  <2>1. \A e : IsPrefix(<<"rest", "executions", e, "retry">>, p) <=>
                Len(p) >= 4 /\ p[1] = "rest" /\ p[2] = "executions" /\ p[3] = e
                /\ p[4] = "retry"
    BY Begins4
  <2> QED BY <2>1, Zenon
<1> QED BY <1>1, <1>2, BodyPaths DEF Runs, RunsByPath

\* What a request edits or handles is in its path.
LEMMA EditsBy ==
  ASSUME NEW r, NEW S, NEW p \in Seq(S), r.path = p, NEW w
  PROVE  Edits(r, w) <=>
           /\ Len(p) >= 3 /\ p[1] = "rest" /\ p[2] = "workflows"
           /\ p[3] = w
           /\ ~NamedInBody(p) /\ ~(Len(p) >= 4 /\ p[4] \in {"run", "test"})
<1>1. IsPrefix(<<"rest", "workflows", w>>, p) <=>
        Len(p) >= 3 /\ p[1] = "rest" /\ p[2] = "workflows" /\ p[3] = w
  BY Begins3
<1> QED BY <1>1, RunsBy, BodyPaths DEF Edits, RunsByPath, NamedInBody

LEMMA HandlesBy ==
  ASSUME NEW r, NEW S, NEW p \in Seq(S), r.path = p, NEW w
  PROVE  Handles(r, w) <=>
           /\ Len(p) >= 3 /\ p[1] = "rest" /\ p[2] = "executions"
           /\ p[3] \in Executions /\ WorkflowOf[p[3]] = w
           /\ ~(Len(p) >= 4 /\ p[4] = "retry")
<1>1. (\E e \in Executions :
         WorkflowOf[e] = w /\ IsPrefix(<<"rest", "executions", e>>, p)) <=>
        Len(p) >= 3 /\ p[1] = "rest" /\ p[2] = "executions" /\ p[3] \in Executions
        /\ WorkflowOf[p[3]] = w
  <2>1. \A e : IsPrefix(<<"rest", "executions", e>>, p) <=>
                Len(p) >= 3 /\ p[1] = "rest" /\ p[2] = "executions" /\ p[3] = e
    BY Begins3
  <2> QED BY <2>1, Zenon
<1>2. Runs(r, w) <=> RunsByPath(p, w) \/ (NamedInBody(p) /\ Named(r) = w)
  BY RunsBy
<1>3. Len(p) >= 3 /\ p[2] = "executions" => ~NamedInBody(p)
  BY Lengths DEF NamedInBody
<1>4. Len(p) >= 4 => Len(p) >= 3
  BY Lengths
<1>5. Handles(r, w) <=>
        /\ Len(p) >= 3 /\ p[1] = "rest" /\ p[2] = "executions" /\ p[3] \in Executions
        /\ WorkflowOf[p[3]] = w /\ ~Runs(r, w)
  BY <1>1 DEF Handles
<1>6. p[2] = "executions" => p[2] # "workflows"
  OBVIOUS
<1>7. Handles(r, w) <=>
        /\ Len(p) >= 3 /\ p[1] = "rest" /\ p[2] = "executions" /\ p[3] \in Executions
        /\ WorkflowOf[p[3]] = w /\ ~(Len(p) >= 4 /\ p[4] = "retry")
  BY <1>2, <1>3, <1>4, <1>5, <1>6, Zenon DEF RunsByPath
<1> QED BY <1>7

\* A granted role is a role held, and the other way round.
LEMMA GrantedHolds ==
  ASSUME NEW R, NEW a, NEW i
  PROVE  Granted(R, a, i) <=> i \in Workflows /\ Holds(R, a, i)
  BY DEF Granted, Holds

\* Whoever holds a role has one.
LEMMA HoldsSome ==
  ASSUME NEW R, NEW a, NEW w, Holds(R, a, w)
  PROVE  R # {}
  BY DEF Holds

\* Of a mutation below /rest the engine, given the whole body, allows what is
\* permitted and, about executions, what it tolerates.
LEMMA RestDecided ==
  ASSUME NEW r, NEW S, NEW p \in Seq(S), r.path = p, NEW R,
         Len(p) >= 2, p[1] = "rest", ToUpper(r.method) \notin ReadMethods
  PROVE  evaluateMutation(p, r.body, R) <=> Permitted(r, R) \/ AnyRoleWillDo(r, R)
<1>a. isAPIPath(p)
  BY DEF isAPIPath
<1>h. Harmless(r) <=> p[2] \in {"telemetry", "ph"}
  <2>1. \A s : IsPrefix(<<"rest", s>>, p) <=> p[2] = s
    BY Begins2
  <2> QED BY <1>a, <2>1 DEF Harmless
<1>t. AnyRoleWillDo(r, R) <=> R # {} /\ Len(p) >= 3 /\ p[2] = "executions"
  BY Begins2 DEF AnyRoleWillDo
<1>r. \A w : Runs(r, w) <=> RunsByPath(p, w) \/ (NamedInBody(p) /\ Named(r) = w)
  BY RunsBy
<1>e. \A w : Edits(r, w) <=>
        /\ Len(p) >= 3 /\ p[2] = "workflows" /\ p[3] = w
        /\ ~NamedInBody(p) /\ ~(Len(p) >= 4 /\ p[4] \in {"run", "test"})
  BY EditsBy
<1>d. \A w : Handles(r, w) =>  Len(p) >= 3 /\ p[2] = "executions"
  BY HandlesBy
<1>g. \A a, i : Granted(R, a, i) <=> i \in Workflows /\ Holds(R, a, i)
  BY GrantedHolds
<1>n. extractWorkflowIDFromBody(r.body) = Named(r)
  BY DEF extractWorkflowIDFromBody, Named
<1>l. /\ Len(p) \in Nat
      /\ Len(p) = 2 \/ Len(p) = 3 \/ Len(p) >= 4
      /\ Len(p) = 2 \/ Len(p) >= 3
      /\ ~(Len(p) = 2 /\ Len(p) >= 3)
  BY Lengths
<1>1. CASE p[2] \in {"telemetry", "ph"}
  BY <1>1, <1>h DEF evaluateMutation, Permitted
<1>2. CASE p[2] = "executions" /\ Len(p) >= 3
  <2>1. evaluateMutation(p, r.body, R) <=> R # {}
    BY <1>2, <1>l, Zenon DEF evaluateMutation
  <2>2. Permitted(r, R) => R # {}
    BY <1>2, <1>h, HoldsSome DEF Permitted
  <2> QED BY <1>2, <1>t, <2>1, <2>2
<1>3. CASE p[2] = "executions" /\ Len(p) = 2
  <2>1. evaluateMutation(p, r.body, R) <=> Granted(R, "run", Named(r))
    BY <1>3, <1>n DEF evaluateMutation
  <2>2. \A w : (Runs(r, w) <=> Named(r) = w) /\ ~Edits(r, w) /\ ~Handles(r, w)
    BY <1>3, <1>r, <1>e, <1>d DEF NamedInBody, RunsByPath
  <2>3. Permitted(r, R) <=> Named(r) \in Workflows /\ Holds(R, "run", Named(r))
    BY <1>3, <1>h, <2>2 DEF Permitted
  <2> QED BY <1>3, <1>t, <1>g, <2>1, <2>3
<1>4. CASE p[2] = "workflows"
  <2>0. /\ evaluateMutation(p, r.body, R) <=> evaluateWorkflowPath(p, r.body, R)
        /\ ~Harmless(r) /\ ~AnyRoleWillDo(r, R) /\ \A w : ~Handles(r, w)
    BY <1>4, <1>h, <1>t, <1>d DEF evaluateMutation
  <2>1. CASE Len(p) = 2
    <3>1. ~evaluateWorkflowPath(p, r.body, R)
      BY <2>1 DEF evaluateWorkflowPath
    <3>2. \A w : ~Runs(r, w) /\ ~Edits(r, w)
      BY <1>4, <2>1, <1>r, <1>e DEF NamedInBody, RunsByPath
    <3> QED BY <2>0, <3>1, <3>2 DEF Permitted
  <2>2. CASE Len(p) = 3 /\ p[3] = "run"
    <3>1. evaluateWorkflowPath(p, r.body, R) <=> Granted(R, "run", Named(r))
      BY <2>2, <1>n DEF evaluateWorkflowPath
    <3>2. \A w : (Runs(r, w) <=> Named(r) = w) /\ ~Edits(r, w)
      BY <1>4, <2>2, <1>r, <1>e DEF NamedInBody, RunsByPath
    <3>3. Permitted(r, R) <=> Named(r) \in Workflows /\ Holds(R, "run", Named(r))
      BY <2>0, <3>2 DEF Permitted
    <3> QED BY <1>g, <2>0, <3>1, <3>3
  <2>3. CASE Len(p) = 3 /\ p[3] # "run"
    <3>1. evaluateWorkflowPath(p, r.body, R) <=> Granted(R, "edit", p[3])
      BY <2>3 DEF evaluateWorkflowPath
    <3>2. \A w : ~Runs(r, w) /\ (Edits(r, w) <=> p[3] = w)
      BY <1>4, <2>3, <1>r, <1>e DEF NamedInBody, RunsByPath
    <3>3. Permitted(r, R) <=> p[3] \in Workflows /\ Holds(R, "edit", p[3])
      BY <2>0, <3>2 DEF Permitted
    <3> QED BY <1>g, <2>0, <3>1, <3>3
  <2>4. CASE Len(p) >= 4 /\ p[4] \in {"run", "test"}
    <3>1. evaluateWorkflowPath(p, r.body, R) <=> Granted(R, "run", p[3])
      BY <2>4, <1>l DEF evaluateWorkflowPath
    <3>2. \A w : (Runs(r, w) <=> p[3] = w) /\ ~Edits(r, w)
      BY <1>4, <1>l, <2>4, <1>r, <1>e DEF NamedInBody, RunsByPath
    <3>3. Permitted(r, R) <=> p[3] \in Workflows /\ Holds(R, "run", p[3])
      BY <2>0, <3>2 DEF Permitted
    <3> QED BY <1>g, <2>0, <3>1, <3>3
  <2>5. CASE Len(p) >= 4 /\ p[4] \notin {"run", "test"}
    <3>1. evaluateWorkflowPath(p, r.body, R) <=> Granted(R, "edit", p[3])
      BY <2>5, <1>l DEF evaluateWorkflowPath
    <3>2. \A w : ~Runs(r, w) /\ (Edits(r, w) <=> p[3] = w)
      BY <1>4, <1>l, <2>5, <1>r, <1>e DEF NamedInBody, RunsByPath
    <3>3. Permitted(r, R) <=> p[3] \in Workflows /\ Holds(R, "edit", p[3])
      BY <2>0, <3>2 DEF Permitted
    <3> QED BY <1>g, <2>0, <3>1, <3>3
  <2> QED BY <1>l, <2>1, <2>2, <2>3, <2>4, <2>5, Zenon
<1>5. CASE p[2] \notin {"telemetry", "ph", "executions", "workflows"}
  <2>1. ~evaluateMutation(p, r.body, R) /\ ~Harmless(r) /\ ~AnyRoleWillDo(r, R)
    BY <1>5, <1>h, <1>t DEF evaluateMutation
  <2>2. \A w : ~Runs(r, w) /\ ~Edits(r, w) /\ ~Handles(r, w)
    BY <1>5, <1>r, <1>e, <1>d DEF NamedInBody, RunsByPath
  <2> QED BY <2>1, <2>2 DEF Permitted
<1> QED BY <1>l, <1>1, <1>2, <1>3, <1>4, <1>5, Zenon

\* A request as the engine knows it: without the body, where it is not read.
AsRead(r) == [r EXCEPT !.body = BodyRead(r)]

LEMMA AsReadFields ==
  ASSUME NEW r \in Request
  PROVE  /\ AsRead(r).path = r.path /\ AsRead(r).method = r.method
         /\ AsRead(r).body = BodyRead(r)
         /\ r.path \in Seq(Segments) /\ r.method \in Method
  BY DEF AsRead, Request

\* What the roles permit of a request as the engine knows it they permit of the
\* request; with a method KNOX knows, the other way round too.
LEMMA ReadingIsEnough ==
  ASSUME NEW r \in Request, NEW R
  PROVE  /\ Permitted(AsRead(r), R) => Permitted(r, R)
         /\ Known(r.method) /\ Permitted(r, R) => Permitted(AsRead(r), R)
<1> DEFINE p == r.path
           k == AsRead(r)
<1>1. k.path = p /\ k.method = r.method /\ k.body = BodyRead(r) /\ p \in Seq(Segments)
      /\ r.method \in Method
  BY AsReadFields
<1> HIDE DEF k, p
<1>2. Harmless(k) <=> Harmless(r)
  BY <1>1 DEF Harmless, p
<1>3. \A w : (Edits(k, w) <=> Edits(r, w)) /\ (Handles(k, w) <=> Handles(r, w))
  BY <1>1, EditsBy, HandlesBy DEF p
<1>4. \A w : Runs(r, w) <=> RunsByPath(p, w) \/ (NamedInBody(p) /\ Named(r) = w)
  BY <1>1, RunsBy DEF p
<1>5. \A w : Runs(k, w) <=> RunsByPath(p, w) \/ (NamedInBody(p) /\ Named(k) = w)
  BY <1>1, RunsBy
<1>6. Named(k) \in Workflows => Named(k) = Named(r)
  <2>1. CASE ReadsBody(r)
    BY <1>1, <2>1 DEF BodyRead, Named
  <2>2. CASE ~ReadsBody(r)
    BY <1>1, <2>2, PolicyAssumption DEF BodyRead, NoBody, Named
  <2> QED BY <2>1, <2>2
<1>7. ASSUME Known(r.method), ~Harmless(r), NamedInBody(p)
      PROVE  Named(k) = Named(r)
  <2>1. r.method \in MutationMethods
    <3>1. r.method \notin ReadMethods
      <4>1. r.method \in ReadMethods => ToUpper(r.method) = r.method
        BY <1>1 DEF ReadMethods, ToUpper
      <4> QED BY <1>7, <4>1 DEF Harmless
    <3> QED BY <1>7, <3>1 DEF Known
  <2>2. isWorkflowPath(p) \/ isExecutionPath(p)
    <3>1. /\ isWorkflowPath(p) <=> Len(p) >= 2 /\ p[1] = "rest" /\ p[2] = "workflows"
          /\ isExecutionPath(p) <=> Len(p) >= 2 /\ p[1] = "rest" /\ p[2] = "executions"
      BY <1>1, Begins2 DEF isWorkflowPath, isExecutionPath
    <3>2. Len(p) = 3 \/ Len(p) = 2 => Len(p) >= 2
      BY <1>1, Lengths
    <3> QED BY <1>7, <3>1, <3>2 DEF NamedInBody
  <2>3. ReadsBody(r)
    BY <2>1, <2>2 DEF ReadsBody, p
  <2> QED BY <1>1, <2>3 DEF BodyRead, Named
<1>8. ASSUME Permitted(k, R)
      PROVE  Permitted(r, R)
  <2>1. \A w \in Workflows : Runs(k, w) => Runs(r, w)
    BY <1>4, <1>5, <1>6
  <2> QED BY <1>2, <1>3, <1>8, <2>1 DEF Permitted
<1>9. ASSUME Known(r.method), Permitted(r, R)
      PROVE  Permitted(k, R)
  <2>1. CASE Harmless(r)
    BY <1>2, <2>1 DEF Permitted
  <2>2. CASE ~Harmless(r)
    <3>1. \A w : Runs(r, w) => Runs(k, w)
      BY <1>4, <1>5, <1>7, <1>9, <2>2
    <3> QED BY <1>3, <1>9, <2>2, <3>1 DEF Permitted
  <2> QED BY <2>1, <2>2
<1> QED BY <1>8, <1>9 DEF k

\* A mutation below /api, of which no body is read, is decided as the same below
\* /rest.
LEMMA ApiDecided ==
  ASSUME NEW r \in Request, NEW R,
         Len(r.path) >= 2, r.path[1] = "api", ToUpper(r.method) \notin ReadMethods
  PROVE  evaluateMutation(r.path, NoBody, R) <=> JudgedAsRest(r, R)
<1> DEFINE p == r.path
           q == <<"rest">> \o Tail(p)
           S == Segments \cup {"rest"}
           u == UnderRest(r)
<1>1. p \in Seq(Segments) /\ Len(p) >= 2 /\ p[1] = "api"
  BY DEF Request
<1>2. u.path = q /\ u.method = r.method /\ u.body = NoBody
  BY DEF UnderRest, Request
<1> HIDE DEF p, u
<1>3. /\ q \in Seq(S) /\ Len(q) = Len(p) /\ Len(q) >= 2 /\ q[1] = "rest"
      /\ \A n \in 2 .. Len(p) : q[n] = p[n]
  BY <1>1
<1> HIDE DEF q, S
<1>4. p[2] = q[2] /\ (Len(p) >= 3 => p[3] = q[3]) /\ (Len(p) >= 4 => p[4] = q[4])
  BY <1>1, <1>3
<1>5. evaluateMutation(p, NoBody, R) <=> evaluateMutation(q, NoBody, R)
  BY <1>1, <1>3, <1>4 DEF evaluateMutation, evaluateWorkflowPath
<1>6. evaluateMutation(q, NoBody, R) <=> Permitted(u, R) \/ AnyRoleWillDo(u, R)
  BY <1>2, <1>3, RestDecided
<1>7. IsPrefix(<<"api">>, p)
  BY <1>1, Begins1
<1> QED BY <1>5, <1>6, <1>7 DEF JudgedAsRest, p, u

\* Evaluate, on the body the middleware reads for it, allows nothing that the
\* documentation does not permit to the roles, but for the two things named in
\* Tolerated; and of a request with a method KNOX knows it allows all of that
\* (policy/engine.go, middleware/chain.go:203).
THEOREM AllowsWhatIsPermittedOrTolerated ==
  ASSUME NEW r \in Request, NEW R
  PROVE  LET allowed == Evaluate(r.method, r.path, BodyRead(r), R) IN
         /\ allowed => Permitted(r, R) \/ Tolerated(r, R)
         /\ Known(r.method) /\ (Permitted(r, R) \/ Tolerated(r, R)) => allowed
<1> DEFINE p == r.path
           k == AsRead(r)
           allowed == Evaluate(r.method, p, BodyRead(r), R)
<1>1. k.path = p /\ k.method = r.method /\ k.body = BodyRead(r) /\ p \in Seq(Segments)
  BY AsReadFields
<1> HIDE DEF k, p
<1>2. CASE ToUpper(r.method) \in ReadMethods \/ ~isAPIPath(p)
  BY <1>2 DEF Evaluate, Permitted, Harmless, p
<1>3. CASE ToUpper(r.method) \notin ReadMethods /\ isAPIPath(p)
  <2>0. /\ Len(p) >= 2 /\ p[1] \in {"rest", "api"}
        /\ allowed <=> evaluateMutation(p, BodyRead(r), R)
    BY <1>3 DEF isAPIPath, Evaluate
  <2> HIDE DEF allowed
  <2>1. CASE p[1] = "rest"
    <3>1. allowed <=> Permitted(k, R) \/ AnyRoleWillDo(k, R)
      BY <1>1, <1>3, <2>0, <2>1, RestDecided
    <3>2. AnyRoleWillDo(k, R) <=> AnyRoleWillDo(r, R)
      BY <1>1 DEF AnyRoleWillDo, p
    <3>3. ~JudgedAsRest(r, R)
      BY <1>1, <2>1, Begins1 DEF JudgedAsRest, p
    <3> QED BY <3>1, <3>2, <3>3, ReadingIsEnough DEF Tolerated, allowed, p, k
  <2>2. CASE p[1] = "api"
    <3>1. BodyRead(r) = NoBody
      BY <1>1, <2>2, Begins2 DEF BodyRead, ReadsBody, isWorkflowPath, isExecutionPath, p
    <3>2. allowed <=> JudgedAsRest(r, R)
      BY <1>3, <2>0, <2>2, <3>1, ApiDecided DEF p
    <3>3. ~AnyRoleWillDo(r, R)
      BY <1>1, <2>2, Begins2 DEF AnyRoleWillDo, p
    <3>4. ~Permitted(r, R)
      <4>1. \A s : ~IsPrefix(<<"rest", s>>, p)
        BY <1>1, <2>2, Begins2
      <4>2. ~Harmless(r)
        BY <1>3, <4>1 DEF Harmless, p
      <4>3. \A w : ~Runs(r, w) /\ ~Edits(r, w) /\ ~Handles(r, w)
        BY <1>1, <2>2, RunsBy, EditsBy, HandlesBy DEF RunsByPath, NamedInBody, p
      <4> QED BY <4>2, <4>3 DEF Permitted
    <3> QED BY <3>2, <3>3, <3>4 DEF Tolerated, allowed, p
  <2> QED BY <2>0, <2>1, <2>2
<1> QED BY <1>2, <1>3

(***************************************************************************)
(* Types.                                                                  *)
(***************************************************************************)
\* Behind Auth a request has a user, behind ResolveTeam a team.
Progress(q) ==
  /\ q.pc # "idle" => q.from # NoUser /\ q.request # NoRequest
  /\ q.pc \in {"policy", "proxy", "buffer", "sent"} => q.user # NoLogin
  /\ q.pc \in {"buffer", "sent"} => q.team \in Accounts

LEMMA IdleTyped == IdleHandler \in Handling /\ Progress(IdleHandler)
  BY DEF IdleHandler, Handling, Progress

\* A step that changes one request keeps types if the new record has its own.
LEMMA OneTyped ==
  ASSUME TypeOK, NEW h \in Handlers, NEW q \in Handling, Progress(q),
         req' = [req EXCEPT ![h] = q], UNCHANGED <<roles, login, logins>>
  PROVE  TypeOK'
<1>1. req' \in [Handlers -> Handling]
  BY DEF TypeOK
<1>2. \A k \in Handlers : req'[k] = IF k = h THEN q ELSE req[k]
  BY DEF TypeOK
<1>3. \A k \in Handlers : Progress(req'[k])
  BY <1>2 DEF TypeOK, Progress
<1> QED BY <1>1, <1>3 DEF TypeOK, Progress

\* Initial states are typed.
LEMMA InitTyped == Init => TypeOK
<1> SUFFICES ASSUME Init PROVE TypeOK
  OBVIOUS
<1>1. \A h \in Handlers : req[h] = IdleHandler
  BY DEF Init
<1>2. req \in [Handlers -> Handling]
  BY IdleTyped DEF Init
<1>3. \A h \in Handlers : Progress(req[h])
  BY <1>1, IdleTyped
<1> QED BY <1>2, <1>3, PipelineAssumption DEF Init, TypeOK, Progress

\* Every step keeps types.
LEMMA StepTyped == TypeOK /\ [Next]_vars => TypeOK'
<1> SUFFICES ASSUME TypeOK, [Next]_vars PROVE TypeOK'
  OBVIOUS
<1>t. \A h \in Handlers : req[h] \in Handling /\ Progress(req[h])
  BY DEF TypeOK, Progress
<1>1. ASSUME NEW u \in Users, NEW r \in Grantable, Grant(u, r) \/ Revoke(u, r)
      PROVE  TypeOK'
  BY <1>1 DEF Grant, Revoke, TypeOK
<1>2. ASSUME NEW u \in Users, NEW g \in GroupLists, SignOn(u, g)
      PROVE  TypeOK'
  <2> DEFINE l == [roles |-> roles[u], groups |-> g]
             after(h) == IF req[h].from = u THEN [req[h] EXCEPT !.seen = @ \cup {l}]
                                            ELSE req[h]
  <2>1. l \in Login
    BY DEF Login, TypeOK
  <2> HIDE DEF l
  <2>2. \A h \in Handlers : after(h) \in Handling /\ Progress(after(h))
    BY <1>t, <2>1 DEF Handling, Progress
  <2>3. req' = [h \in Handlers |-> after(h)] /\ login' = [login EXCEPT ![u] = l]
        /\ roles' = roles /\ logins' = logins + 1 /\ logins < MaxLogins
    BY <1>2 DEF SignOn, l
  <2> HIDE DEF after
  <2>4. req' \in [Handlers -> Handling] /\ \A h \in Handlers : Progress(req'[h])
    BY <2>2, <2>3
  <2>5. login' \in [Users -> Login \cup {NoLogin}] /\ logins' \in 0 .. MaxLogins
    BY <2>1, <2>3, PipelineAssumption DEF TypeOK
  <2> QED BY <2>3, <2>4, <2>5 DEF TypeOK, Progress
<1>3. ASSUME NEW u \in Users, SignOff(u)
      PROVE  TypeOK'
  BY <1>3 DEF SignOff, TypeOK
<1>4. ASSUME NEW h \in Handlers, NEW u \in Users, NEW r \in Arrivals, Arrive(h, u, r)
      PROVE  TypeOK'
  <2> DEFINE q == [IdleHandler EXCEPT
                     !.pc = "auth", !.from = u, !.request = r,
                     !.seen = IF login[u] = NoLogin THEN {} ELSE {login[u]}]
  <2>1. r \in Request /\ r # NoRequest /\ u # NoUser /\ login[u] \in Login \cup {NoLogin}
    BY PipelineAssumption DEF TypeOK
  <2>3. q \in Handling /\ Progress(q)
    BY <2>1 DEF IdleHandler, Handling, Progress
  <2> QED BY <1>4, <2>3, OneTyped DEF Arrive
<1>5. ASSUME NEW h \in Handlers, Step(h)
      PROVE  TypeOK'
  <2>t. req[h] \in Handling /\ Progress(req[h])
    BY <1>t
  <2>1. CASE Auth(h)
    <3> DEFINE q == [req[h] EXCEPT !.pc = "policy", !.user = login[req[h].from]]
    <3>1. login[req[h].from] \in Login
      BY <2>1, <2>t DEF Auth, TypeOK, Handling, Progress
    <3>2. q \in Handling /\ Progress(q)
      BY <2>1, <2>t, <3>1 DEF Auth, Handling, Progress
    <3>3. req' = [req EXCEPT ![h] = q] /\ UNCHANGED <<roles, login, logins>>
      BY <2>1 DEF Auth, TypeOK
    <3> QED BY <3>2, <3>3, OneTyped
  <2>2. CASE AuthFails(h) \/ PolicyFails(h) \/ BufferFails(h)
    <3> DEFINE q == [req[h] EXCEPT !.pc = "failed"]
    <3>1. q \in Handling /\ Progress(q)
      BY <2>2, <2>t DEF AuthFails, PolicyFails, BufferFails, Handling, Progress
    <3>2. req' = [req EXCEPT ![h] = q] /\ UNCHANGED <<roles, login, logins>>
      BY <2>2 DEF AuthFails, PolicyFails, BufferFails, TypeOK
    <3> QED BY <3>1, <3>2, OneTyped
  <2>3. CASE Policy(h)
    <3>1. PICK pc \in {"refused", "failed", "proxy"} : req' = [req EXCEPT ![h].pc = pc]
      BY <2>3 DEF Policy
    <3> DEFINE q == [req[h] EXCEPT !.pc = pc]
    <3>2. q \in Handling /\ Progress(q)
      BY <2>3, <2>t DEF Policy, Handling, Progress
    <3>3. req' = [req EXCEPT ![h] = q] /\ UNCHANGED <<roles, login, logins>>
      BY <2>3, <3>1 DEF Policy, TypeOK
    <3> QED BY <3>2, <3>3, OneTyped
  <2>4. CASE ResolveTeam(h)
    <3> DEFINE t == resolveTeam(req[h].user.groups)
    <3> HIDE DEF t
    <3>1. CASE t \in Accounts
      <4>1. PICK pc \in {"sent", "buffer"} : req' = [req EXCEPT ![h].team = t, ![h].pc = pc]
        BY <2>4, <3>1 DEF ResolveTeam, t
      <4> DEFINE q == [req[h] EXCEPT !.team = t, !.pc = pc]
      <4>2. q \in Handling /\ Progress(q)
        BY <2>4, <2>t, <3>1, PipelineAssumption DEF ResolveTeam, Handling, Progress
      <4>3. req' = [req EXCEPT ![h] = q] /\ UNCHANGED <<roles, login, logins>>
        BY <2>4, <4>1 DEF ResolveTeam, TypeOK
      <4> QED BY <4>2, <4>3, OneTyped
    <3>2. CASE t \notin Accounts
      <4> DEFINE q == [req[h] EXCEPT !.pc = "failed"]
      <4>1. q \in Handling /\ Progress(q)
        BY <2>4, <2>t DEF ResolveTeam, Handling, Progress
      <4>2. req' = [req EXCEPT ![h] = q] /\ UNCHANGED <<roles, login, logins>>
        BY <2>4, <3>2 DEF ResolveTeam, TypeOK, t
      <4> QED BY <4>1, <4>2, OneTyped
    <3> QED BY <3>1, <3>2
  <2>5. CASE BufferBody(h)
    <3> DEFINE q == [req[h] EXCEPT !.pc = "sent"]
    <3>1. q \in Handling /\ Progress(q)
      BY <2>5, <2>t DEF BufferBody, Handling, Progress
    <3>2. req' = [req EXCEPT ![h] = q] /\ UNCHANGED <<roles, login, logins>>
      BY <2>5 DEF BufferBody, TypeOK
    <3> QED BY <3>1, <3>2, OneTyped
  <2>6. CASE Done(h)
    BY <2>6, IdleTyped, OneTyped DEF Done
  <2> QED BY <1>5, <2>1, <2>2, <2>3, <2>4, <2>5, <2>6 DEF Step
<1>6. CASE UNCHANGED vars
  BY <1>6 DEF vars, TypeOK
<1> QED BY <1>1, <1>2, <1>3, <1>4, <1>5, <1>6 DEF Next

\* Every variable keeps its type, a request has a user behind Auth and a team
\* with credentials behind ResolveTeam.
THEOREM TypeCorrect == Spec => []TypeOK
  BY InitTyped, StepTyped, PTL DEF Spec

(***************************************************************************)
(* Decisions.                                                              *)
(***************************************************************************)
\* What KNOX knows of a request.  User, team and decision belong to one
\* login, which was good after the request had arrived.
Decided(q) ==
  /\ q.pc \in {"policy", "proxy", "buffer", "sent", "refused"} => q.user \in q.seen
  /\ q.pc \in {"proxy", "buffer", "sent"} =>
       /\ Permitted(q.request, q.user.roles) \/ Tolerated(q.request, q.user.roles)
       /\ Sanitized(q.request)
  /\ q.pc = "refused" /\ Known(q.request.method) => ~Permitted(q.request, q.user.roles)
  /\ q.pc \in {"buffer", "sent"} => q.team = resolveTeam(q.user.groups)

\* The session that Auth will find is one the request has seen.
Watched(q) == q.pc = "auth" /\ login[q.from] # NoLogin => login[q.from] \in q.seen

DecisionInv ==
  /\ TypeOK
  /\ \A h \in Handlers : Decided(req[h]) /\ Watched(req[h])

\* A step that changes one request keeps the invariant if the new record does.
LEMMA OneDecided ==
  ASSUME DecisionInv, TypeOK', NEW h \in Handlers, NEW q, Decided(q), q.pc # "auth",
         req' = [req EXCEPT ![h] = q], UNCHANGED <<roles, login, logins>>
  PROVE  DecisionInv'
<1>1. \A k \in Handlers : req'[k] = IF k = h THEN q ELSE req[k]
  BY DEF DecisionInv, TypeOK
<1>2. \A k \in Handlers : Decided(req'[k])
  BY <1>1 DEF DecisionInv
<1>3. \A k \in Handlers : Watched(req[k])'
  BY <1>1 DEF DecisionInv, Watched
<1> QED BY <1>2, <1>3 DEF DecisionInv, Decided, Watched

\* Initial states satisfy the invariant.
LEMMA InitDecided == Init => DecisionInv
<1> SUFFICES ASSUME Init PROVE DecisionInv
  OBVIOUS
<1>1. \A h \in Handlers : req[h].pc = "idle"
  BY DEF Init, IdleHandler
<1> QED BY <1>1, InitTyped DEF DecisionInv, Decided, Watched

\* Every step keeps the invariant.
LEMMA StepDecided == DecisionInv /\ [Next]_vars => DecisionInv'
<1> SUFFICES ASSUME DecisionInv, [Next]_vars PROVE DecisionInv'
  OBVIOUS
<1>t. TypeOK /\ TypeOK'
  BY StepTyped DEF DecisionInv
<1>1. ASSUME NEW u \in Users, NEW r \in Grantable, Grant(u, r) \/ Revoke(u, r)
      PROVE  DecisionInv'
  BY <1>1, <1>t DEF Grant, Revoke, DecisionInv, Decided, Watched
<1>2. ASSUME NEW u \in Users, NEW g \in GroupLists, SignOn(u, g)
      PROVE  DecisionInv'
  <2> DEFINE l == [roles |-> roles[u], groups |-> g]
  <2>1. \A h \in Handlers :
          /\ req'[h].pc = req[h].pc /\ req'[h].from = req[h].from
          /\ req'[h].request = req[h].request /\ req'[h].user = req[h].user
          /\ req'[h].team = req[h].team
          /\ req'[h].seen = IF req[h].from = u THEN req[h].seen \cup {l} ELSE req[h].seen
    BY <1>2, <1>t DEF SignOn, TypeOK, Handling
  <2>2. \A v : login'[v] = IF v = u THEN l ELSE login[v]
    BY <1>2, <1>t DEF SignOn, TypeOK
  <2> HIDE DEF l
  <2>3. ASSUME NEW h \in Handlers
        PROVE  Decided(req'[h]) /\ Watched(req[h])'
    <3>1. Decided(req[h]) /\ Watched(req[h])
      BY DEF DecisionInv
    <3>2. Decided(req'[h])
      BY <2>1, <3>1 DEF Decided
    <3>3. Watched(req[h])'
      BY <2>1, <2>2, <3>1 DEF Watched
    <3> QED BY <3>2, <3>3
  <2> QED BY <1>t, <2>3 DEF DecisionInv, Decided, Watched
<1>3. ASSUME NEW u \in Users, SignOff(u)
      PROVE  DecisionInv'
  <2>1. \A h \in Handlers : req'[h] = req[h]
    BY <1>3 DEF SignOff
  <2>2. \A v : login'[v] = IF v = u THEN NoLogin ELSE login[v]
    BY <1>3, <1>t DEF SignOff, TypeOK
  <2> QED BY <1>t, <2>1, <2>2 DEF DecisionInv, Decided, Watched
<1>4. ASSUME NEW h \in Handlers, NEW u \in Users, NEW r \in Arrivals, Arrive(h, u, r)
      PROVE  DecisionInv'
  <2>1. /\ req'[h].pc = "auth" /\ req'[h].from = u
        /\ req'[h].seen = IF login[u] = NoLogin THEN {} ELSE {login[u]}
    BY <1>4, <1>t DEF Arrive, TypeOK, IdleHandler
  <2>2. \A k \in Handlers : k # h => req'[k] = req[k]
    BY <1>4, <1>t DEF Arrive, TypeOK
  <2>3. login' = login
    BY <1>4 DEF Arrive
  <2> QED BY <1>t, <2>1, <2>2, <2>3 DEF DecisionInv, Decided, Watched
<1>5. ASSUME NEW h \in Handlers, Step(h)
      PROVE  DecisionInv'
  <2>t. req[h] \in Handling /\ Progress(req[h]) /\ Decided(req[h]) /\ Watched(req[h])
    BY <1>t DEF DecisionInv, TypeOK, Progress
  <2>1. CASE Auth(h)
    <3> DEFINE q == [req[h] EXCEPT !.pc = "policy", !.user = login[req[h].from]]
    <3>1. Decided(q) /\ q.pc # "auth"
      BY <2>1, <2>t DEF Auth, Handling, Decided, Watched
    <3>2. req' = [req EXCEPT ![h] = q] /\ UNCHANGED <<roles, login, logins>>
      BY <2>1, <1>t DEF Auth, TypeOK
    <3> QED BY <1>t, <3>1, <3>2, OneDecided
  <2>2. CASE AuthFails(h) \/ PolicyFails(h) \/ BufferFails(h)
    <3> DEFINE q == [req[h] EXCEPT !.pc = "failed"]
    <3>1. Decided(q) /\ q.pc # "auth"
      BY <2>t DEF Handling, Decided
    <3>2. req' = [req EXCEPT ![h] = q] /\ UNCHANGED <<roles, login, logins>>
      BY <2>2, <1>t DEF AuthFails, PolicyFails, BufferFails, TypeOK
    <3> QED BY <1>t, <3>1, <3>2, OneDecided
  <2>3. CASE Policy(h)
    <3> DEFINE r == req[h].request
               allowed == Evaluate(r.method, r.path, BodyRead(r), req[h].user.roles)
               pc == CASE ~allowed                 -> "refused"
                       [] allowed /\ ~Sanitized(r) -> "failed"
                       [] allowed /\ Sanitized(r)  -> "proxy"
               q == [req[h] EXCEPT !.pc = pc]
    <3>1. r \in Request /\ req[h].user \in req[h].seen
      BY <2>3, <2>t DEF Policy, Handling, Progress, Decided
    <3>2. /\ allowed => Permitted(r, req[h].user.roles) \/ Tolerated(r, req[h].user.roles)
          /\ ~allowed /\ Known(r.method) => ~Permitted(r, req[h].user.roles)
      BY <3>1, AllowsWhatIsPermittedOrTolerated
    <3>3. req' = [req EXCEPT ![h] = q] /\ UNCHANGED <<roles, login, logins>>
      BY <2>3, <1>t DEF Policy, TypeOK
    <3> HIDE DEF allowed
    <3>4. /\ pc \in {"refused", "failed", "proxy"}
          /\ pc = "refused" => ~allowed
          /\ pc = "proxy" => allowed /\ Sanitized(r)
      OBVIOUS
    <3> HIDE DEF pc
    <3>5. q.pc = pc /\ q.user = req[h].user /\ q.seen = req[h].seen /\ q.request = r
      BY <2>t DEF Handling
    <3>6. Decided(q) /\ q.pc # "auth"
      BY <3>1, <3>2, <3>4, <3>5 DEF Decided
    <3> QED BY <1>t, <3>3, <3>6, OneDecided
  <2>4. CASE ResolveTeam(h)
    <3> DEFINE t == resolveTeam(req[h].user.groups)
    <3>1. CASE t \in Accounts
      <4>1. PICK pc \in {"sent", "buffer"} : req' = [req EXCEPT ![h].team = t, ![h].pc = pc]
        BY <2>4, <3>1 DEF ResolveTeam
      <4> DEFINE q == [req[h] EXCEPT !.team = t, !.pc = pc]
      <4>2. Decided(q) /\ q.pc # "auth"
        BY <2>4, <2>t DEF ResolveTeam, Handling, Decided
      <4>3. req' = [req EXCEPT ![h] = q] /\ UNCHANGED <<roles, login, logins>>
        BY <1>t, <2>4, <4>1 DEF ResolveTeam, TypeOK
      <4> QED BY <1>t, <4>2, <4>3, OneDecided
    <3>2. CASE t \notin Accounts
      <4> DEFINE q == [req[h] EXCEPT !.pc = "failed"]
      <4>1. Decided(q) /\ q.pc # "auth"
        BY <2>t DEF Handling, Decided
      <4>2. req' = [req EXCEPT ![h] = q] /\ UNCHANGED <<roles, login, logins>>
        BY <1>t, <2>4, <3>2 DEF ResolveTeam, TypeOK
      <4> QED BY <1>t, <4>1, <4>2, OneDecided
    <3> QED BY <3>1, <3>2
  <2>5. CASE BufferBody(h)
    <3> DEFINE q == [req[h] EXCEPT !.pc = "sent"]
    <3>1. Decided(q) /\ q.pc # "auth"
      BY <2>5, <2>t DEF BufferBody, Handling, Decided
    <3>2. req' = [req EXCEPT ![h] = q] /\ UNCHANGED <<roles, login, logins>>
      BY <2>5, <1>t DEF BufferBody, TypeOK
    <3> QED BY <1>t, <3>1, <3>2, OneDecided
  <2>6. CASE Done(h)
    <3>1. Decided(IdleHandler) /\ IdleHandler.pc # "auth"
      BY DEF IdleHandler, Decided
    <3> QED BY <1>t, <2>6, <3>1, OneDecided DEF Done
  <2> QED BY <1>5, <2>1, <2>2, <2>3, <2>4, <2>5, <2>6 DEF Step
<1>6. CASE UNCHANGED vars
  BY <1>6, <1>t DEF vars, DecisionInv, Decided, Watched
<1> QED BY <1>1, <1>2, <1>3, <1>4, <1>5, <1>6 DEF Next

\* The invariant implies the three properties.
LEMMA DecisionsRight ==
  DecisionInv => SentUnderALogin /\ RefusedForALogin /\ SavesAreClean
<1> SUFFICES ASSUME DecisionInv, NEW h \in Handlers
             PROVE  /\ req[h].pc = "sent" =>
                         \E l \in req[h].seen :
                           /\ \/ Permitted(req[h].request, l.roles)
                              \/ Tolerated(req[h].request, l.roles)
                           /\ req[h].team = resolveTeam(l.groups)
                    /\ req[h].pc = "refused" /\ Known(req[h].request.method) =>
                         \E l \in req[h].seen : ~Permitted(req[h].request, l.roles)
                    /\ req[h].pc = "sent" /\ Saves(req[h].request) =>
                         \/ req[h].request.body.nodes \cap Dangerous = {}
                         \/ req[h].request.method \notin MutationMethods
  BY DEF SentUnderALogin, RefusedForALogin, SavesAreClean
<1>1. Decided(req[h]) /\ req[h] \in Handling /\ Progress(req[h])
  BY DEF DecisionInv, TypeOK, Progress
<1>2. ASSUME req[h].pc = "sent", Saves(req[h].request),
             req[h].request.method \in MutationMethods
      PROVE  req[h].request.body.nodes \cap Dangerous = {}
  <2> DEFINE r == req[h].request
  <2>1. r \in Request /\ Sanitized(r)
    BY <1>1, <1>2 DEF Decided, Handling, Progress
  <2>2. PICK w \in Workflows : Edits(r, w)
    BY <1>2 DEF Saves
  <2>3. isWorkflowPath(r.path)
    <3>1. r.path \in Seq(Segments)
      BY <2>1 DEF Request
    <3>2. Len(r.path) >= 3 /\ r.path[1] = "rest" /\ r.path[2] = "workflows"
      BY <2>2, <3>1, EditsBy
    <3> QED BY <3>1, <3>2, Begins2, Lengths DEF isWorkflowPath
  <2>4. r.method \in MutationMethods
    BY <1>2
  <2> HIDE DEF r
  <2>5. r.body.kind = "none" => r.body.nodes = {}
    BY <2>1 DEF Request, Body, NoBody, Garbled
  <2>6. r.body.nodes \cap Dangerous = {}
    BY <2>1, <2>3, <2>4, <2>5 DEF Sanitized, SanitizeWorkflowBody
  <2> QED BY <2>6 DEF r
<1> QED BY <1>1, <1>2 DEF Decided

\* What reaches n8n is permitted by, or tolerated for, the roles of one login of
\* its user that was good after the request had arrived, and goes to the team of
\* that login (middleware/chain.go Auth and Policy, proxy/handler.go ServeHTTP).
THEOREM RequestsAreEntitled == Spec => []SentUnderALogin
  BY InitDecided, StepDecided, DecisionsRight, PTL DEF Spec

\* Nothing is refused that came with a method KNOX knows and is permitted to all
\* its user's logins.
THEOREM RefusalsAreRight == Spec => []RefusedForALogin
  BY InitDecided, StepDecided, DecisionsRight, PTL DEF Spec

\* No definition with a dangerous node is saved through KNOX with one of the
\* methods POST, PATCH, PUT and DELETE in capitals, which are the ones the
\* middleware has sanitized (middleware/chain.go:250).
THEOREM DangerousSavesAreCaught == Spec => []SavesAreClean
  BY InitDecided, StepDecided, DecisionsRight, PTL DEF Spec
================================================================================
