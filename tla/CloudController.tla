-------------------------- MODULE CloudController --------------------------
(***************************************************************************)
(* The cloud controller manager: the load balancer of one Service over the  *)
(* Nodes whose lifetime the same manager decides.                           *)
(***************************************************************************)
EXTENDS NodeLifecycle, StandardNLB

CONSTANT Plans      \* the environments of a run

ASSUME PlansAssumption == \A p \in Plans : p.nodes \subseteq Targets /\ p.brownouts \in Nat

vars == <<node, vm, plan, lifecycle, svc, cloud, age, run, history>>
nlb == <<svc, cloud, age, run, history>>

NoService == [life |-> "gone", pub |-> FALSE, rule |-> 0, rel |-> "none", drop |-> FALSE,
              empty |-> FALSE, fence |-> NoFence]
NewService == [NoService EXCEPT !.life = "live", !.pub = TRUE, !.rule = First(Rules)]
Absent == [up |-> FALSE, made |-> FALSE, tg |-> {}, ru |-> {}, col |-> FALSE]
NoAddress == [up |-> FALSE, made |-> FALSE, to |-> 0]

(* A plan starts with its Nodes and, when it says so, with a finished load balancer. *)
Init ==
    /\ plan \in Plans
    /\ node = [t \in Targets |-> IF t \in plan.nodes THEN "ready" ELSE "none"]
    /\ vm = plan.nodes
    /\ anomaly = NoAnomaly /\ unlisted = {} /\ leased = plan.nodes /\ ext = plan.nodes
    /\ memory = Empty /\ old = NotOld /\ brownouts = plan.brownouts /\ misled = NotMisled
    /\ svc = IF plan.service THEN NewService ELSE NoService
    /\ lbs = [i \in LBIds |-> IF plan.built /\ i = 1
                THEN [Absent EXCEPT !.up = TRUE, !.made = TRUE, !.tg = plan.nodes, !.ru = {<<First(Rules), 1>>}]
                ELSE Absent]
    /\ fips = [a \in FIPIds |-> IF plan.built /\ a = 1 THEN [up |-> TRUE, made |-> TRUE, to |-> 1] ELSE NoAddress]
    /\ wire = {} /\ hidden = {} /\ age = {}
    /\ run = [p \in Procs |-> Idle]
    /\ sent = FALSE /\ posts = [lb |-> 0, fip |-> 0]

-----------------------------------------------------------------------------
(* Time: the delay of a recorded time passes.  Unless the plan lets requests
   commit later than that, the retirement delay of a receipt covers the
   requests sent under it. *)
Settled(n) == /\ \A w \in wire : w.n # n
              /\ \A p \in Procs : ~(run[p].raw.n = n /\ run[p].l \in {"auth", "send"})
RetireDelayPasses ==
    /\ svc.fence.ph = "issued" /\ svc.fence.m.op \in Additive /\ "issued" \notin age
    /\ plan.late \/ Settled(svc.fence.n)
    /\ age' = age \cup {"issued"}
    /\ UNCHANGED <<svc, cloud, run, history, plan>>
RemovalDelayPasses ==
    /\ svc.fence.seen /\ "seen" \notin age /\ hidden = {}
    /\ age' = age \cup {"seen"}
    /\ UNCHANGED <<svc, cloud, run, history, plan>>
EmptyGracePasses ==
    /\ svc.empty /\ "empty" \notin age
    /\ age' = age \cup {"empty"}
    /\ UNCHANGED <<svc, cloud, run, history, plan>>

(* A replica stops, or loses its lease, in the middle of a pass. *)
Crash(p) ==
    /\ run[p] # Idle /\ plan.faults > 0
    /\ plan' = [plan EXCEPT !.faults = @ - 1]
    /\ run' = [run EXCEPT ![p] = Idle]
    /\ UNCHANGED <<svc, cloud, age, history>>

(* For less than the removal delay every read leaves a resource out. *)
Flap ==
    /\ plan.flaky /\ plan.faults > 0 /\ hidden = {}
    /\ plan' = [plan EXCEPT !.faults = @ - 1]
    /\ \E x \in {<<"lb", i>> : i \in SeenLBs} \cup {<<"fip", a>> : a \in SeenFIPs} : hidden' = {x}
    /\ UNCHANGED <<svc, lbs, fips, wire, age, run, history>>
FlapEnds ==
    /\ hidden # {} /\ hidden' = {}
    /\ UNCHANGED <<svc, lbs, fips, wire, age, run, history, plan>>

(* The owner edits the Service. *)
Edit(kind, new) ==
    /\ svc.life = "live" /\ kind \in plan.may /\ plan.edits > 0
    /\ plan' = [plan EXCEPT !.edits = @ - 1]
    /\ svc' = new
    /\ UNCHANGED <<cloud, age, run, history>>
DropMarkers == Edit("mark", [svc EXCEPT !.pub = FALSE]) /\ svc.pub
RestoreMarkers == Edit("mark", [svc EXCEPT !.pub = TRUE]) /\ ~svc.pub
Release == Edit("release", [svc EXCEPT !.rel = IF svc.drop THEN "after" ELSE "before"])
ChangeRule(r) == Edit("rule", [svc EXCEPT !.rule = r]) /\ r # svc.rule
Delete == Edit("delete", [svc EXCEPT !.life = "deleting"])

Pass(p) ==
    \/ EnsureLoadBalancer(p) \/ UpdateLoadBalancer(p)
    \/ BeginDeletion(p) \/ RemoveFinalizer(p)
    \/ EnsureStandardNLBLoadBalancer(p) \/ EnsureStandardNLBPublicFloatingIP(p)
    \/ EnsureStandardNLBFloatingIPAssignment(p)
    \/ AddStandardNLBTarget(p) \/ AddStandardNLBRule(p)
    \/ RemoveStandardNLBTarget(p) \/ RemoveStandardNLBRule(p)
    \/ RemoveFloatingIP(p) \/ RemoveLoadBalancer(p)
    \/ ReconcileLoadBalancer(p) \/ EnsurePublicFloatingIP(p) \/ CleanupOwnedLoadBalancer(p)

Steady == UNCHANGED <<node, vm, lifecycle>>
Step(A) == A /\ Steady
Next ==
    \/ \E p \in plan.team : Step(Crash(p))
    \/ \E p \in plan.team : Step(EnsureLoadBalancer(p))
    \/ \E p \in plan.team : Step(UpdateLoadBalancer(p))
    \/ \E p \in plan.team : Step(BeginDeletion(p))
    \/ \E p \in plan.team : Step(RemoveFinalizer(p))
    \/ \E p \in plan.team : Step(EnsureStandardNLBLoadBalancer(p))
    \/ \E p \in plan.team : Step(EnsureStandardNLBPublicFloatingIP(p))
    \/ \E p \in plan.team : Step(EnsureStandardNLBFloatingIPAssignment(p))
    \/ \E p \in plan.team : Step(AddStandardNLBTarget(p))
    \/ \E p \in plan.team : Step(AddStandardNLBRule(p))
    \/ \E p \in plan.team : Step(RemoveStandardNLBTarget(p))
    \/ \E p \in plan.team : Step(RemoveStandardNLBRule(p))
    \/ \E p \in plan.team : Step(RemoveFloatingIP(p))
    \/ \E p \in plan.team : Step(RemoveLoadBalancer(p))
    \/ \E p \in plan.team : Step(ReconcileLoadBalancer(p))
    \/ \E p \in plan.team : Step(EnsurePublicFloatingIP(p))
    \/ \E p \in plan.team : Step(CleanupOwnedLoadBalancer(p))
    \/ \E w \in wire : Step(Commit(w))
    \/ \E w \in wire : Step(Lose(w))
    \/ Step(RetireDelayPasses) \/ Step(RemovalDelayPasses) \/ Step(EmptyGracePasses)
    \/ Step(Flap) \/ Step(FlapEnds)
    \/ Step(DropMarkers) \/ Step(RestoreMarkers) \/ Step(Release) \/ Step(Delete)
    \/ \E r \in Rules : Step(ChangeRule(r))
    \/ \E t \in Targets : InstanceExists(t) /\ UNCHANGED nlb
    \/ \E t \in Targets : InstanceMetadata(t) /\ UNCHANGED nlb
    \/ Environment /\ UNCHANGED nlb

Spec == Init /\ [][Next]_vars

(* A replica goes on with its pass and starts another one, requests are
   answered, and time passes. *)
PassStep(p) == p \in plan.team /\ Pass(p) /\ Steady
CommitStep == (\E w \in wire : Commit(w)) /\ Steady
TimeStep == (RemovalDelayPasses \/ RetireDelayPasses) /\ Steady
FairSpec == /\ Spec
            /\ \A p \in Procs : WF_vars(PassStep(p))
            /\ WF_vars(CommitStep) /\ WF_vars(TimeStep)

-----------------------------------------------------------------------------
(* Requests commit before the retirement delay and reads leave nothing out. *)
Orderly == ~plan.late /\ ~plan.flaky
Up(S) == {x \in DOMAIN S : S[x].up}

(* No second paid resource: when requests commit before the retirement delay,
   there is never more than one NLB and one floating IP of the Service. *)
OnePaidOfEach == Orderly => Cardinality(Up(lbs)) <= 1 /\ Cardinality(Up(fips)) <= 1

(* Once the finalizer is gone, so are the paid resources, and no request is on
   its way that could bring one back, as long as one replica leads. *)
NoPaidOrphan ==
    svc.life = "gone" /\ plan.service /\ Orderly /\ Cardinality(plan.team) = 1
    => Up(lbs) = {} /\ Up(fips) = {} /\ wire = {}

(* A rollout never takes the last target away: a target leaves an NLB only when
   another one stays, when its VM is gone, or when GetVM has answered that it is
   (emptyTargetSetMayRemove asks nothing else). *)
NeverWithoutTarget ==
    [][\A i \in LBIds : lbs[i].tg # {} /\ lbs'[i].up /\ lbs'[i].tg = {}
                        => lbs[i].tg \cap vm \subseteq misled.exact]_vars

(* A removal that was sent is over only when its object is gone. *)
RemovalProven ==
    [][svc.fence.ph = "issued" /\ svc.fence.m.op \in Removals /\ sent /\ svc'.fence = NoFence
       => LET m == svc.fence.m
          IN CASE m.op = "delLB" -> ~lbs[m.lb].up
               [] m.op = "delF" -> ~fips[m.fip].up
               [] m.op = "unassign" -> fips[m.fip].to = 0
               [] m.op = "remT" -> m.t \notin lbs[m.lb].tg
               [] m.op = "remR" -> m.row \notin lbs[m.lb].ru]_vars

(* What wrong answers of the API can cost.  InstanceExists gives the Node of an
   existing VM up only while exact read and lists leave the VM out, and only when
   the lists show other VMs or when empty lists outlasted the delay or came back
   before the VM was read alive.  A leased ExternalIP goes only when the empty
   address list outlasted the grace period or came back likewise. *)
BrownoutHarmless ==
    [][/\ \A t \in vm : node[t] # "none" /\ node'[t] = "none" =>
             t \in anomaly.exact \cap anomaly.lists /\ (Listed # {} \/ t \in misled.evid)
       /\ (ext \ ext') \cap leased \subseteq unlisted \cap misled.shrink]_vars

(* guardMassAbsence: of three or more Nodes at most half are given up within one
   window of one process, whatever the API answers and however the verdicts
   leave the window.  (Of two Nodes both are: the guard ignores the last one.) *)
HalfSurvive ==
    Cardinality(Nodes \cup memory.verdict) >= 3 => Cardinality(memory.verdict) <= Cardinality(Nodes)

(* A Service that is deleted gives up its NLB and its address, when requests are
   answered and the replica keeps running. *)
DeletionEnds == svc.life = "deleting" /\ plan.calm ~> svc.life = "gone"

(* retireAbsentStandardNLBAdditive: "one re-create is allowed, a second one is
   refused so a slow paid resource can never be duplicated more than once". *)
OneRecreate == posts.lb <= 2 /\ posts.fip <= 2
=============================================================================
