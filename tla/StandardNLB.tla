---------------------------- MODULE StandardNLB ----------------------------
(***************************************************************************)
(* The passes of the Service controller and of the target controller over   *)
(* the paid network load balancer of one Service.                           *)
(***************************************************************************)
EXTENDS NlbReceipt

-----------------------------------------------------------------------------
(* Control of a pass. *)

At(p, l) == svc.life # "gone" /\ run[p].l = l
Op(p) == run[p].m.op
Go(p, l) == run' = [run EXCEPT ![p].l = l]
End(p) == run' = [run EXCEPT ![p] = Idle]
Do(p, m) == run' = [run EXCEPT ![p].l = "stage", ![p].m = m]
Seek(p, m, fip) == run' = [run EXCEPT ![p].l = "head", ![p].m = m, ![p].fip = fip,
                                      ![p].raw = NoFence, ![p].out = ""]
Resume(p, l, lb, fip) ==
    run' = [run EXCEPT ![p] = [@ EXCEPT !.l = l, !.m = Mut("none"), !.raw = NoFence, !.out = "",
                                        !.lb = lb, !.fip = fip]]

(* reconcileLoadBalancer remembers a failed target addition and goes on; any
   other error ends the pass. *)
Fail(p) ==
    IF Op(p) = "addT"
    THEN run' = [run EXCEPT ![p] = [@ EXCEPT !.l = "removes", !.bad = TRUE, !.m = Mut("none"),
                                             !.raw = NoFence, !.out = ""]]
    ELSE End(p)

(* The pass continues as A when the receipt was still the one it holds. *)
Swap(p, held, f, A) == IF Holds(held) THEN Put(f) /\ A ELSE Keep /\ Fail(p)

-----------------------------------------------------------------------------
(* The start of a pass. *)

Started(p, kind, l, m) ==
    run' = [run EXCEPT ![p] = [Idle EXCEPT !.l = l, !.kind = kind, !.sv = View, !.m = m,
                                           !.lb = FoundLB, !.fip = FoundFIP]]

(* The controllers hand over the Service of their cache, which may still be live
   after the deletion began. *)
Cached == svc.life = "live" \/ (svc.life = "deleting" /\ ~plan.calm)

(* clearUnpublishedMark: a release written for the old drop no longer counts. *)
Republished == [svc EXCEPT !.drop = FALSE, !.rel = IF svc.drop /\ @ = "after" THEN "before" ELSE @]

(* EnsureLoadBalancer ("ensure"), updateLoadBalancer ("update"): a Service with
   the public markers. *)
BeginPublic(p, kind) ==
    /\ run[p] = Idle /\ Cached /\ svc.pub
    /\ LBUnique /\ FIPUnique
    /\ svc' = Republished
    /\ LET lb == FoundLB
           want == CreateLB(Eligible, svc.rule)
       IN \/ /\ FoundFIP.to \in {0, lb.id} /\ Collides(lb.id)
             /\ Started(p, "collide", "cleanup", Mut("none"))
          \/ /\ FoundFIP.to \in {0, lb.id} /\ ~Collides(lb.id) /\ TargetsProven
             /\ IF kind = "ensure" THEN Started(p, kind, "head", want)
                ELSE lb.id # 0 /\ Started(p, kind, "resolve", Mut("none"))
          \/ /\ svc.drop
             /\ \/ FoundFIP.to \notin {0, lb.id}
                \/ ~Collides(lb.id) /\ (~TargetsProven \/ (kind = "update" /\ lb.id = 0))
             /\ UNCHANGED run
    /\ UNCHANGED <<age, history, cloud, plan>>

(* standardNLBReleaseAuthorized *)
Released == svc.drop /\ svc.rel = "after"

(* The same for a live Service without the markers.  holdUnpublishedStandardNLB
   keeps the NLB and the address until the owner releases them or a cleanup
   that already began has to finish. *)
BeginUnpublished(p, kind) ==
    /\ run[p] = Idle /\ Cached /\ ~svc.pub
    /\ LBUnique /\ FIPUnique
    /\ LET none == FoundLB.id = 0 /\ FoundFIP.id = 0
           clean == none \/ Released \/ svc.fence.m.op \in Cleanups
       IN /\ none => svc.fence # NoFence
          /\ svc' = IF clean THEN svc ELSE [svc EXCEPT !.drop = TRUE]
          /\ IF clean THEN Started(p, "release", "cleanup", Mut("none"))
             ELSE IF FoundLB.id = 0 \/ ~TargetsProven THEN UNCHANGED run
             ELSE run' = [run EXCEPT ![p] = [Idle EXCEPT !.l = "resolve", !.kind = kind, !.sv = View,
                                                        !.lb = FoundLB, !.held = TRUE]]
    /\ UNCHANGED <<age, cloud, history, plan>>

(* Mutant: the receipt of a deleting Service is not read. *)
NeverPending == FALSE

(* standardNLBDeletionReceiptPending *)
ReceiptPending == svc.fence # NoFence
EnsureLoadBalancer(p) == BeginPublic(p, "ensure") \/ BeginUnpublished(p, "ensure")
UpdateLoadBalancer(p) == BeginPublic(p, "update") \/ BeginUnpublished(p, "update")

(* GetLoadBalancer for a deleting Service, as the stock controller calls it
   before EnsureLoadBalancerDeleted; without a resource and a receipt the
   controller drops its finalizer. *)
BeginDeletion(p) ==
    /\ run[p] = Idle /\ svc.life = "deleting"
    /\ LBUnique /\ FIPUnique
    /\ FoundFIP.to \in {0, FoundLB.id}
    /\ IF FoundLB.id # 0 \/ FoundFIP.id # 0 \/ ReceiptPending
       THEN Started(p, "delete", "cleanup", Mut("none")) /\ UNCHANGED svc
       ELSE svc' = [svc EXCEPT !.life = "gone"] /\ UNCHANGED run
    /\ UNCHANGED <<age, cloud, history, plan>>

(* External: the stock controller drops its finalizer once
   EnsureLoadBalancerDeleted returned without an error. *)
RemoveFinalizer(p) ==
    /\ At(p, "finalize")
    /\ svc' = [svc EXCEPT !.life = "gone"]
    /\ End(p)
    /\ UNCHANGED <<age, cloud, history, plan>>

-----------------------------------------------------------------------------
(* One mutation: find what the receipt says, stage, issue, authorize, send,
   read back.  The heads differ by operation. *)

Retiring(p, ok) ==
    LET r == Retire(svc.fence)
    IN /\ Put(r.f)
       /\ IF r.ok THEN ok ELSE End(p)

(* ensureStandardNLBLoadBalancer up to the staging of a create *)
HeadLB(p) ==
    LET f == svc.fence
        m == run[p].m
        lb == run[p].lb
        ours == f.m.op = "createLB"
        adopted == f.m # m /\ f.m = [m EXCEPT !.tg = lb.tg]
    IN IF lb.id # 0
       THEN IF ~ours THEN Keep /\ Resume(p, "resolve", lb, run[p].fip)
            ELSE IF (f.m = m \/ adopted) /\ Policy(lb, f.m.tg, m.r)
            THEN Put(NoFence) /\ Resume(p, IF adopted THEN "resolve" ELSE "fip", lb, run[p].fip)
            ELSE Keep /\ End(p)
       ELSE IF f # NoFence /\ ~ours THEN Keep /\ End(p)
       ELSE IF f.ph = "issued" THEN Retiring(p, Go(p, "stage"))
       ELSE Keep /\ Go(p, "stage")

Assignment(lb, fip) == [Mut("assign") EXCEPT !.fip = fip.id, !.lb = lb.id]

(* ensureStandardNLBPublicFloatingIP up to the staging of a create *)
HeadFIP(p) ==
    LET f == svc.fence
        fip == run[p].fip
        ours == f.m.op = "createFIP"
    IN IF fip.id # 0
       THEN IF f = NoFence \/ f.m.op = "assign"
            THEN Keep /\ Seek(p, Assignment(run[p].lb, fip), fip)
            ELSE IF ours THEN Put(NoFence) /\ Seek(p, Assignment(run[p].lb, fip), fip)
            ELSE Keep /\ End(p)
       ELSE IF f # NoFence /\ ~ours THEN Keep /\ End(p)
       ELSE IF f.ph = "issued" THEN Retiring(p, Go(p, "stage"))
       ELSE Keep /\ Go(p, "stage")

(* ensureStandardNLBFloatingIPAssignment up to the staging *)
HeadAssign(p) ==
    LET f == svc.fence
        m == run[p].m
    IN IF f # NoFence /\ f.m # m THEN Keep /\ End(p)
       ELSE IF run[p].fip.to # 0
       THEN IF run[p].fip.to = m.lb THEN Put(NoFence) /\ End(p) ELSE Keep /\ End(p)
       ELSE IF f.ph = "issued" THEN Retiring(p, Go(p, "stage"))
       ELSE Keep /\ Go(p, "stage")

Head(p) ==
    /\ At(p, "head")
    /\ CASE Op(p) = "createLB" -> HeadLB(p)
         [] Op(p) = "createFIP" -> HeadFIP(p)
         [] Op(p) = "assign" -> HeadAssign(p)
    /\ posts' = [posts EXCEPT !.lb = IF Op(p) = "createLB" /\ run[p].lb.id # 0 THEN 0 ELSE @,
                              !.fip = IF Op(p) = "createFIP" /\ run[p].fip.id # 0 THEN 0 ELSE @]
    /\ UNCHANGED <<cloud, plan>>

(* stageStandardNLBMutation: an issued receipt of another mutation is an error,
   one of the same mutation is not sent again; an intent is replaced, and only
   a create of the same name keeps its count. *)
Stage(p) ==
    /\ At(p, "stage")
    /\ LET f == svc.fence
           m == run[p].m
           new == [NoFence EXCEPT !.m = m, !.ph = "intent", !.att = IF f.m.op = m.op THEN f.att ELSE 0]
           held == IF f # NoFence /\ f.m = m THEN f ELSE new
       IN IF f.ph = "issued" THEN Keep /\ Fail(p)
          ELSE /\ Put(held)
               /\ run' = [run EXCEPT ![p].l = "issue", ![p].raw = held]
    /\ UNCHANGED <<cloud, posts, plan>>

(* issueStandardNLBMutation *)
Issue(p) ==
    /\ At(p, "issue")
    /\ LET f == [run[p].raw EXCEPT !.ph = "issued", !.n = NewIssue]
       IN Swap(p, run[p].raw, f, run' = [run EXCEPT ![p].l = "auth", ![p].raw = f])
    /\ UNCHANGED <<cloud, posts, plan>>

-----------------------------------------------------------------------------
(* The last checks before a request, all against fresh reads. *)

(* standardNLBUnpublishHeld, readStandardNLBLiveDesiredState: the live Service
   must still carry exactly this issued receipt. *)
UnpublishHeld == svc.life = "live" /\ ~svc.pub /\ ~Released
LivePublic(p) == svc.life = "live" /\ (svc.pub \/ (run[p].held /\ UnpublishHeld))
LiveCleanup(p) == ~LivePublic(p)
LiveCreate == svc.life = "live" /\ svc.pub

(* authorizeStandardNLBLoadBalancerPreDispatch: nothing changed since the snapshot *)
SameLB(p) == LBPresent(run[p].lb.id) /\ LBView(run[p].lb.id) = run[p].lb
(* authorizeStandardNLBLoadBalancerIdentityPreDispatch *)
SameLBIdentity(p) == run[p].lb.id # 0 /\ LBPresent(run[p].lb.id)
(* authorizeStandardNLBFloatingIPPreDispatch *)
SameFIP(p) == FIPPresent(run[p].fip.id) /\ FIPView(run[p].fip.id) = run[p].fip
(* authorizeStandardNLBTopology *)
Topology == LBUnique /\ FoundLB.id # 0 /\ Policy(FoundLB, Eligible, svc.rule)
(* authorizeStandardNLBCleanup *)
CleanupAuthority(p, i) == LiveCleanup(p) \/ (LBUnique /\ FoundLB.id = i /\ Collides(i))

AuthorizeCreateLB(p) == /\ LiveCreate /\ TargetsProven
                        /\ run[p].m = CreateLB(Eligible, svc.rule)
AuthorizeCreateFIP(p) == LiveCreate /\ TargetsProven /\ Topology
AuthorizeAssign(p) == /\ SameLBIdentity(p) /\ SameFIP(p) /\ run[p].fip.to = 0
                      /\ LiveCreate /\ TargetsProven /\ Topology /\ FoundLB.id = run[p].m.lb
AuthorizeAddTarget(p) ==
    LET t == run[p].m.t
    IN SameLB(p) /\ t \notin run[p].lb.tg /\ LivePublic(p) /\ TargetsProven /\ t \in Eligible
AuthorizeAddRule(p) ==
    /\ SameLB(p) /\ run[p].lb.ru = {}
    /\ LivePublic(p) /\ TargetsProven /\ run[p].m.r = svc.rule
AuthorizeRemoveTarget(p) ==
    LET t == run[p].m.t
    IN /\ SameLB(p) /\ t \in run[p].lb.tg
       /\ LivePublic(p) => TargetsProven /\ t \notin Eligible
AuthorizeRemoveRule(p) ==
    LET row == run[p].m.row
    IN /\ SameLB(p) /\ row \in run[p].lb.ru
       /\ LivePublic(p) => TargetsProven /\ row[1] # svc.rule
AuthorizeUnassign(p) ==
    /\ SameLBIdentity(p) /\ SameFIP(p) /\ run[p].fip.to = run[p].lb.id
    /\ CleanupAuthority(p, run[p].m.lb)
AuthorizeDeleteFIP(p) == /\ SameFIP(p) /\ run[p].fip.to = 0
                         /\ CleanupAuthority(p, FoundLB.id)
AuthorizeDeleteLB(p) == SameLBIdentity(p) /\ CleanupAuthority(p, run[p].m.lb)

(* authorizeStandardNLBMutationPreDispatch with the checks before it *)
Authorized(p) ==
    /\ Holds(run[p].raw)
    /\ CASE Op(p) = "createLB" -> AuthorizeCreateLB(p)
         [] Op(p) = "createFIP" -> AuthorizeCreateFIP(p)
         [] Op(p) = "assign" -> AuthorizeAssign(p)
         [] Op(p) = "addT" -> AuthorizeAddTarget(p)
         [] Op(p) = "addR" -> AuthorizeAddRule(p)
         [] Op(p) = "remT" -> AuthorizeRemoveTarget(p)
         [] Op(p) = "remR" -> AuthorizeRemoveRule(p)
         [] Op(p) = "unassign" -> AuthorizeUnassign(p)
         [] Op(p) = "delF" -> AuthorizeDeleteFIP(p)
         [] Op(p) = "delLB" -> AuthorizeDeleteLB(p)

(* Mutant: the inventory is not read again after the issue. *)
NeverAppeared(p) == FALSE

(* The resource of a create is there already. *)
Appeared(p) == \/ Op(p) = "createLB" /\ FoundLB.id # 0
               \/ Op(p) = "createFIP" /\ FoundFIP.id # 0
ReadsWork(p) == /\ Op(p) \in {"createLB"} => LBUnique
                /\ Op(p) \in {"createFIP"} => FIPUnique
AsRequested(p, lb, fip) == IF Op(p) = "createLB" THEN Policy(lb, run[p].m.tg, run[p].m.r)
                           ELSE fip.to = 0

(* After a create or an assignment became visible. *)
Visible(p, lb, fip) ==
    CASE Op(p) = "createLB" -> IF Collides(lb.id)
                               THEN run' = [run EXCEPT ![p] = [Idle EXCEPT !.l = "cleanup",
                                                                 !.kind = "collide", !.lb = lb]]
                               ELSE Resume(p, "fip", lb, NoFIP)
      [] Op(p) = "createFIP" -> Seek(p, Assignment(run[p].lb, fip), fip)
      [] Op(p) = "assign" -> End(p)
      [] Op(p) = "addT" -> Resume(p, "adds", lb, NoFIP)
      [] Op(p) = "addR" -> Resume(p, "rules", lb, NoFIP)

SeenNow(p) == posts' = [posts EXCEPT !.lb = IF Op(p) = "createLB" THEN 0 ELSE @,
                                     !.fip = IF Op(p) = "createFIP" THEN 0 ELSE @]

(* A refused request leaves no receipt behind: nothing was sent.  A failing
   read refuses it as well. *)
Authorize(p) ==
    /\ At(p, "auth")
    /\ \/ /\ ReadsWork(p) /\ Appeared(p) /\ AsRequested(p, FoundLB, FoundFIP)
          /\ Swap(p, run[p].raw, NoFence, Visible(p, FoundLB, FoundFIP))
          /\ SeenNow(p) /\ UNCHANGED plan
       \/ /\ ReadsWork(p) /\ ~Appeared(p) /\ Authorized(p)
          /\ Keep /\ Go(p, "send")
          /\ UNCHANGED <<posts, plan>>
       \/ /\ \/ ~ReadsWork(p) /\ UNCHANGED plan
             \/ ReadsWork(p) /\ Appeared(p) /\ ~AsRequested(p, FoundLB, FoundFIP) /\ UNCHANGED plan
             \/ ~Appeared(p) /\ ~Authorized(p) /\ UNCHANGED plan
             \/ ~Appeared(p) /\ Authorized(p) /\ plan.faults > 0 /\ plan' = [plan EXCEPT !.faults = @ - 1]
          /\ Swap(p, run[p].raw, AfterNonDispatch(run[p].raw), Fail(p))
          /\ UNCHANGED posts
    /\ UNCHANGED cloud

(* The request leaves the process with an unknown outcome ("sent"), is known
   not to have left it ("blocked"), or is refused by the API with an answer
   that only the idempotent relations take for final ("refused"). *)
Send(p) ==
    /\ At(p, "send")
    /\ \E out \in {"sent", "blocked", "refused"} :
          /\ out # "sent" => plan.faults > 0
          /\ out = "refused" => Op(p) \in {"assign", "addT", "addR"}
          /\ run' = [run EXCEPT ![p].l = "read", ![p].out = out]
          /\ wire' = IF out = "sent" THEN wire \cup {[m |-> run[p].m, n |-> run[p].raw.n]} ELSE wire
          /\ plan' = IF out = "sent" THEN plan ELSE [plan EXCEPT !.faults = @ - 1]
          /\ sent' = IF out = "sent" /\ Holds(run[p].raw) THEN TRUE ELSE sent
          /\ posts' = [posts EXCEPT !.lb = IF out = "sent" /\ Op(p) = "createLB" THEN @ + 1 ELSE @,
                                    !.fip = IF out = "sent" /\ Op(p) = "createFIP" THEN @ + 1 ELSE @]
    /\ UNCHANGED <<svc, age, lbs, fips, hidden>>

(* The readback after an additive request. *)
Readable(p) == CASE Op(p) = "createLB" -> LBUnique
                 [] Op(p) \in {"createFIP", "assign"} -> FIPUnique
                 [] Op(p) = "addT" -> LBPresent(run[p].lb.id) \/ LBAbsent(run[p].lb.id)
                 [] Op(p) = "addR" -> \/ LBAbsent(run[p].lb.id)
                                      \/ LBPresent(run[p].lb.id) /\ ~RuleConflict(run[p].lb.id, run[p].m.r)
There(p) == CASE Op(p) = "createLB" -> FoundLB.id # 0 /\ Policy(FoundLB, run[p].m.tg, run[p].m.r)
              [] Op(p) = "createFIP" -> FoundFIP.id # 0
              [] Op(p) = "assign" -> FoundFIP.to = run[p].m.lb
              [] Op(p) = "addT" -> LBPresent(run[p].lb.id) /\ TargetVisible(run[p].lb.id, run[p].m.t)
              [] Op(p) = "addR" -> LBPresent(run[p].lb.id) /\ RuleVisible(run[p].lb.id, run[p].m.r)
Missing(p) == CASE Op(p) = "createLB" -> FoundLB.id = 0
                [] Op(p) = "createFIP" -> FoundFIP.id = 0
                [] Op(p) = "assign" -> FoundFIP.to = 0
                [] OTHER -> ~There(p)
ReadBackAdd(p) ==
    /\ At(p, "read") /\ Op(p) \in Additive
    /\ \/ /\ Readable(p) /\ There(p)
          /\ Swap(p, run[p].raw, NoFence, Visible(p, FoundLB, FoundFIP))
          /\ SeenNow(p)
       \/ /\ Readable(p) /\ Missing(p) /\ run[p].out # "sent"
          /\ Swap(p, run[p].raw, AfterNonDispatch(run[p].raw), Fail(p))
          /\ UNCHANGED posts
       \/ /\ ~(Readable(p) /\ (There(p) \/ (Missing(p) /\ run[p].out # "sent")))
          /\ Keep /\ Fail(p) /\ UNCHANGED posts
    /\ UNCHANGED <<cloud, plan>>

(* The exact read behind a removal: the relation or the resource is gone. *)
Read(i) == LBPresent(i) \/ LBAbsent(i)
RemovalReadable(m) == IF m.op \in {"unassign", "delF"} THEN FIPPresent(m.fip) \/ FIPAbsent(m.fip)
                      ELSE Read(m.lb)
RemovalAbsent(m) ==
    CASE m.op = "delLB" -> LBAbsent(m.lb)
      [] m.op = "delF" -> FIPAbsent(m.fip)
      [] m.op = "unassign" -> FIPAbsent(m.fip) \/ fips[m.fip].to = 0
      [] m.op = "remT" -> LBAbsent(m.lb) \/ ~TargetVisible(m.lb, m.t)
      [] m.op = "remR" -> LBAbsent(m.lb) \/ m.row \notin lbs[m.lb].ru

DeleteFIP(fip) == [Mut("delF") EXCEPT !.fip = fip.id]
DeleteLB(lb) == [Mut("delLB") EXCEPT !.lb = lb.id]

(* cleanupOwnedLoadBalancer goes on after the address is settled. *)
Done(p) == IF run[p].kind = "delete"
           THEN run' = [run EXCEPT ![p] = [Idle EXCEPT !.l = "finalize", !.kind = "delete"]]
           ELSE End(p)
AddressDone(p) ==
    IF run[p].lb.id = 0 THEN Done(p)
    ELSE run' = [run EXCEPT ![p] = [@ EXCEPT !.l = "stage", !.m = DeleteLB(run[p].lb), !.fip = NoFIP,
                                             !.raw = NoFence, !.out = ""]]
RemovalDone(p) ==
    CASE Op(p) \in {"remT", "remR"} ->
             IF run[p].bad \/ run[p].held THEN End(p) ELSE Resume(p, "fip", run[p].lb, NoFIP)
      [] Op(p) = "unassign" -> IF FIPAbsent(run[p].m.fip) THEN AddressDone(p)
                               ELSE run' = [run EXCEPT ![p] = [@ EXCEPT !.l = "stage",
                                        !.m = DeleteFIP(run[p].fip), !.fip = FIPView(run[p].m.fip),
                                        !.raw = NoFence, !.out = ""]]
      [] Op(p) = "delF" -> AddressDone(p)
      [] Op(p) = "delLB" -> Done(p)

(* The readback after a removal. *)
ReadBackRemove(p) ==
    /\ At(p, "read") /\ Op(p) \in Removals
    /\ LET o == Observe(svc.fence, RemovalAbsent(run[p].m))
       IN IF run[p].out = "blocked"
          THEN Swap(p, run[p].raw, AfterNonDispatch(run[p].raw), Fail(p))
          ELSE IF RemovalReadable(run[p].m) /\ (svc.fence = NoFence \/ svc.fence.m = run[p].m)
          THEN Put(o.f) /\ (IF o.ok THEN RemovalDone(p) ELSE End(p))
          ELSE Keep /\ End(p)
    /\ UNCHANGED <<cloud, posts, plan>>

Mutate(p) == Stage(p) \/ Issue(p) \/ Authorize(p) \/ Send(p)

EnsureStandardNLBLoadBalancer(p) == Op(p) = "createLB" /\ (Head(p) \/ Mutate(p) \/ ReadBackAdd(p))
EnsureStandardNLBPublicFloatingIP(p) == Op(p) = "createFIP" /\ (Head(p) \/ Mutate(p) \/ ReadBackAdd(p))
EnsureStandardNLBFloatingIPAssignment(p) == Op(p) = "assign" /\ (Head(p) \/ Mutate(p) \/ ReadBackAdd(p))
AddStandardNLBTarget(p) == Op(p) = "addT" /\ (Mutate(p) \/ ReadBackAdd(p))
AddStandardNLBRule(p) == Op(p) = "addR" /\ (Mutate(p) \/ ReadBackAdd(p))
RemoveStandardNLBTarget(p) == Op(p) = "remT" /\ (Mutate(p) \/ ReadBackRemove(p))
RemoveStandardNLBRule(p) == Op(p) = "remR" /\ (Mutate(p) \/ ReadBackRemove(p))
RemoveFloatingIP(p) == Op(p) \in {"unassign", "delF"} /\ (Mutate(p) \/ ReadBackRemove(p))
RemoveLoadBalancer(p) == Op(p) = "delLB" /\ (Mutate(p) \/ ReadBackRemove(p))

-----------------------------------------------------------------------------
(* reconcileLoadBalancer *)

(* resolvePendingStandardNLBAdd *)
ResolvePending(p) ==
    /\ At(p, "resolve")
    /\ LET f == svc.fence
           m == f.m
           on == Go(p, "adds")
           o == Observe(f, RemovalAbsent(m))
           visible == IF m.op = "addT" THEN TargetVisible(m.lb, m.t) ELSE RuleVisible(m.lb, m.r)
           desired == IF m.op = "addT" THEN m.t \in run[p].sv.want ELSE m.r = run[p].sv.rule
           conflict == m.op = "addR" /\ RuleConflict(m.lb, m.r)
       IN CASE f = NoFence \/ m.op \in {"createFIP", "assign"} -> Keep /\ on
            [] m.op = "createLB" \/ (m.op \in Removals /\ f.ph = "intent") -> Put(NoFence) /\ on
            [] m.op \in Cleanups /\ f.ph = "issued" -> Keep /\ End(p)
            [] m.op \in {"remT", "remR"} /\ f.ph = "issued" ->
                  IF RemovalReadable(m) THEN Put(o.f) /\ (IF o.ok THEN on ELSE End(p))
                  ELSE Keep /\ End(p)
            [] m.op \in {"addT", "addR"} ->
                  IF ~LBPresent(m.lb) \/ conflict THEN Keep /\ End(p)
                  ELSE IF visible \/ ~desired THEN Put(NoFence) /\ on
                  ELSE IF f.ph = "issued" THEN Retiring(p, on)
                  ELSE Keep /\ on
    /\ UNCHANGED <<cloud, posts, plan>>

(* Targets are added before any is removed. *)
Adds(p) ==
    /\ At(p, "adds")
    /\ LET missing == run[p].sv.want \ run[p].lb.tg
       IN IF missing = {} THEN Go(p, "removes")
          ELSE Do(p, [Mut("addT") EXCEPT !.lb = run[p].lb.id, !.t = First(missing)])
    /\ Keep /\ UNCHANGED <<cloud, posts, plan>>

(* noteEmptyTargetSet, clearEmptyTargetSet *)
Marked(p) == IF run[p].sv.want = {} THEN (IF run[p].lb.tg # {} THEN TRUE ELSE svc.empty)
             ELSE IF run[p].sv.empty THEN FALSE ELSE svc.empty

(* Mutant: with no eligible Node every target is stale. *)
RemovableAll(p) == run[p].lb.tg \ run[p].sv.want

(* The targets that may go: never the last serving ones, and with nothing
   desired only, after the grace period, one that the exact read does not find
   (emptyTargetSetMayRemove). *)
Removable(p) ==
    LET want == run[p].sv.want
        extra == run[p].lb.tg \ want
    IN IF want = {} THEN {t \in extra : svc.empty /\ "empty" \in age /\ ~ReadsAlive(t)}
       ELSE IF run[p].lb.tg \cap want = {} THEN {} ELSE extra

(* While nothing is desired, a target stays when the exact read still returns
   the record of its deleted VM. *)
Removes(p) ==
    /\ At(p, "removes")
    /\ svc' = [svc EXCEPT !.empty = Marked(p)]
    /\ age' = IF svc.empty = Marked(p) THEN age ELSE age \ {"empty"}
    /\ \/ /\ \A t \in Removable(p) : run[p].sv.want = {} /\ t \notin vm
          /\ Go(p, "rules")
       \/ \E t \in Removable(p) : Do(p, [Mut("remT") EXCEPT !.lb = run[p].lb.id, !.t = t])
    /\ UNCHANGED <<cloud, history, plan>>

(* A rule that is not desired goes before the desired one is added. *)
RulesStep(p) ==
    /\ At(p, "rules")
    /\ LET lb == run[p].lb
           old == {x \in lb.ru : x[1] # run[p].sv.rule}
       IN IF old # {} THEN \E x \in old : Do(p, [Mut("remR") EXCEPT !.lb = lb.id, !.row = x])
          ELSE IF lb.ru = {} THEN Do(p, [Mut("addR") EXCEPT !.lb = lb.id, !.r = run[p].sv.rule])
          ELSE IF run[p].bad \/ run[p].held THEN End(p)
          ELSE Go(p, "fip")
    /\ Keep /\ UNCHANGED <<cloud, posts, plan>>

ReconcileLoadBalancer(p) == ResolvePending(p) \/ Adds(p) \/ Removes(p) \/ RulesStep(p)

(* ensurePublicFloatingIP *)
EnsurePublicFloatingIP(p) ==
    /\ At(p, "fip")
    /\ IF FIPUnique THEN Seek(p, Mut("createFIP"), FoundFIP) ELSE End(p)
    /\ Keep /\ UNCHANGED <<cloud, posts, plan>>

-----------------------------------------------------------------------------
(* cleanupOwnedLoadBalancer *)

CleanupStart(p) ==
    /\ At(p, "cleanup")
    /\ IF FIPUnique THEN run' = [run EXCEPT ![p].l = "cleanFence", ![p].fip = FoundFIP, ![p].sv = <<>>]
       ELSE End(p)
    /\ Keep /\ UNCHANGED <<cloud, posts, plan>>

(* resolveStandardNLBDeletionFence: what an issued additive receipt needs to be
   seen before cleanup goes on *)
CleanupSees(p, m) ==
    CASE m.op = "createLB" -> run[p].lb.id # 0
      [] m.op = "createFIP" -> run[p].fip.id # 0
      [] m.op = "assign" -> run[p].fip.id = m.fip /\ LBPresent(m.lb) /\ run[p].fip.to = m.lb
      [] m.op = "addT" -> LBPresent(m.lb) /\ TargetVisible(m.lb, m.t)
      [] m.op = "addR" -> LBPresent(m.lb) /\ RuleVisible(m.lb, m.r)
RelationOfReceipt(m) ==
    m.op = "unassign" /\ FIPPresent(m.fip) /\ fips[m.fip].to # 0 => LBPresent(m.lb) /\ fips[m.fip].to = m.lb
ResolveDeletionFence(p) ==
    /\ At(p, "cleanFence")
    /\ LET f == svc.fence
           on == Go(p, "cleanFIP")
           o == Observe(f, RemovalAbsent(f.m))
       IN CASE f = NoFence -> Keep /\ on
            [] f.ph = "intent" -> Put(NoFence) /\ on
            [] f.ph = "issued" /\ f.m.op \in Removals ->
                  IF RemovalReadable(f.m) /\ RelationOfReceipt(f.m)
                  THEN Put(o.f) /\ (IF o.ok THEN on ELSE End(p))
                  ELSE Keep /\ End(p)
            [] f.ph = "issued" /\ f.m.op \in Additive ->
                  IF CleanupSees(p, f.m) THEN Put(NoFence) /\ on ELSE Keep /\ End(p)
    /\ UNCHANGED <<cloud, posts, plan>>

(* cleanupOwnedFloatingIP up to its first mutation *)
CleanupOwnedFloatingIP(p) ==
    /\ At(p, "cleanFIP")
    /\ LET fip == run[p].fip
           lb == run[p].lb
       IN IF fip.id = 0 THEN AddressDone(p)
          ELSE IF fip.to = 0 THEN Do(p, DeleteFIP(fip))
          ELSE IF fip.to = lb.id /\ LBPresent(lb.id)
          THEN Do(p, [Mut("unassign") EXCEPT !.fip = fip.id, !.lb = lb.id])
          ELSE End(p)
    /\ Keep /\ UNCHANGED <<cloud, posts, plan>>

CleanupOwnedLoadBalancer(p) == CleanupStart(p) \/ ResolveDeletionFence(p) \/ CleanupOwnedFloatingIP(p)

-----------------------------------------------------------------------------
(* The environment: external, from how the provider uses it. *)

(* The cloud applies a request, or never will. *)
NewLB == {i \in LBIds : ~lbs[i].made}
NewFIP == {a \in FIPIds : ~fips[a].made}
OnUp(i, new) == lbs' = IF lbs[i].up THEN [lbs EXCEPT ![i] = new] ELSE lbs
Commit(w) ==
    /\ wire' = wire \ {w}
    /\ LET m == w.m
           lb == lbs[m.lb]
       IN CASE m.op = "createLB" ->
                  /\ NewLB # {}
                  /\ \E col \in plan.col :
                        lbs' = [lbs EXCEPT ![First(NewLB)] = [up |-> TRUE, made |-> TRUE, tg |-> m.tg,
                                                              ru |-> {<<m.r, w.n>>}, col |-> col]]
                  /\ UNCHANGED fips
            [] m.op = "createFIP" ->
                  /\ NewFIP # {}
                  /\ fips' = [fips EXCEPT ![First(NewFIP)] = [up |-> TRUE, made |-> TRUE, to |-> 0]]
                  /\ UNCHANGED lbs
            [] m.op = "addT" -> OnUp(m.lb, [lb EXCEPT !.tg = @ \cup {m.t}]) /\ UNCHANGED fips
            [] m.op = "addR" -> OnUp(m.lb, [lb EXCEPT !.ru = IF @ = {} THEN {<<m.r, w.n>>} ELSE @]) /\ UNCHANGED fips
            [] m.op = "remT" -> OnUp(m.lb, [lb EXCEPT !.tg = @ \ {m.t}]) /\ UNCHANGED fips
            [] m.op = "remR" -> OnUp(m.lb, [lb EXCEPT !.ru = @ \ {m.row}]) /\ UNCHANGED fips
            [] m.op = "delLB" -> OnUp(m.lb, [lb EXCEPT !.up = FALSE, !.tg = {}, !.ru = {}]) /\ UNCHANGED fips
            [] m.op = "assign" ->
                  /\ fips' = IF fips[m.fip].up /\ lb.up THEN [fips EXCEPT ![m.fip].to = m.lb] ELSE fips
                  /\ UNCHANGED lbs
            [] m.op = "unassign" -> fips' = [fips EXCEPT ![m.fip].to = 0] /\ UNCHANGED lbs
            [] m.op = "delF" -> fips' = [fips EXCEPT ![m.fip].up = FALSE, ![m.fip].to = 0] /\ UNCHANGED lbs
    /\ hidden' = {x \in hidden : IF x[1] = "lb" THEN lbs'[x[2]].up ELSE fips'[x[2]].up}
    /\ UNCHANGED <<svc, age, run, history, plan>>

Lose(w) ==
    /\ plan.faults > 0 /\ plan' = [plan EXCEPT !.faults = @ - 1]
    /\ wire' = wire \ {w}
    /\ UNCHANGED <<svc, age, run, lbs, fips, hidden, history>>
=============================================================================
