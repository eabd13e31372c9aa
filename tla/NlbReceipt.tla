----------------------------- MODULE NlbReceipt -----------------------------
(***************************************************************************)
(* The paid network load balancer of one Service: the NLB, its floating IP, *)
(* its targets and its forwarding rule.  Every cloud mutation runs behind   *)
(* one receipt ("fence"), an annotation of the Service that is replaced by  *)
(* compare-and-swap.  A pass of a controller works on a snapshot that goes  *)
(* stale while owners edit the Service, Nodes come and go, and requests     *)
(* commit late or never.                                                    *)
(*                                                                         *)
(* All rules share one source port: rule r forwards it to node port r.  A   *)
(* row <<r, n>> is rule r under the UUID it got from request n.             *)
(***************************************************************************)
EXTENDS ClusterNodes

CONSTANTS Procs,            \* the controller replicas
          Rules,            \* the node ports the Service may use
          MaxLBs, MaxFIPs   \* bounds: resources ever created

VARIABLES
    svc,        \* the Service: lifecycle, markers, rule, marks and receipt
    lbs, fips,  \* the cloud's load balancers and floating IPs
    wire,       \* requests sent and neither committed nor lost
    hidden,     \* resources that every read leaves out for the moment
    age,        \* the recorded times whose delay has passed: "issued", "seen", "empty"
    run,        \* run[p]: the pass replica p is in
    sent,       \* history: a request was sent under the present issue
    posts       \* history: create requests since the resource was last seen

cloud == <<lbs, fips, wire, hidden>>
history == <<sent, posts>>

LBIds == 1..MaxLBs
FIPIds == 1..MaxFIPs
Creates == {"createLB", "createFIP"}
Additive == Creates \cup {"assign", "addT", "addR"}
Cleanups == {"unassign", "delF", "delLB"}
Removals == Cleanups \cup {"remT", "remR"}

NoFence == [m |-> [op |-> "none"], ph |-> "none", n |-> 0, att |-> 0, seen |-> FALSE]
NoLB == [id |-> 0, tg |-> {}, ru |-> {}]
NoFIP == [id |-> 0, to |-> 0]

(* One mutation with its payload; equal payloads have equal request hashes. *)
Mut(op) == [op |-> op, lb |-> 0, fip |-> 0, t |-> 0, r |-> 0, row |-> <<0, 0>>, tg |-> {}]
CreateLB(tg, r) == [Mut("createLB") EXCEPT !.tg = tg, !.r = r]

-----------------------------------------------------------------------------
(* What the reads return. *)

SeenLBs == {i \in LBIds : lbs[i].up /\ <<"lb", i>> \notin hidden}
SeenFIPs == {a \in FIPIds : fips[a].up /\ <<"fip", a>> \notin hidden}
LBView(i) == [id |-> i, tg |-> lbs[i].tg, ru |-> lbs[i].ru]
FIPView(a) == [id |-> a, to |-> fips[a].to]

(* findOwnedLoadBalancer, findOwnedFloatingIP: two of a name are an error. *)
LBUnique == Cardinality(SeenLBs) <= 1
FIPUnique == Cardinality(SeenFIPs) <= 1
FoundLB == IF SeenLBs = {} THEN NoLB ELSE LBView(First(SeenLBs))
FoundFIP == IF SeenFIPs = {} THEN NoFIP ELSE FIPView(First(SeenFIPs))

(* readExactOwnedStandardNLB, readExactOwnedStandardNLBFloatingIP: the exact
   read and the list by name agree, or the read is an error. *)
LBPresent(i) == SeenLBs = {i}
LBAbsent(i) == SeenLBs = {}
FIPPresent(a) == SeenFIPs = {a}
FIPAbsent(a) == SeenFIPs = {}

(* validateStandardNLBInitialPolicy *)
Policy(l, tg, r) == l.tg = tg /\ {x[1] : x \in l.ru} = {r}

(* standardNLBTargetVisible; standardNLBRuleVisible and its conflict error *)
TargetVisible(i, t) == t \in lbs[i].tg
RuleConflict(i, r) == \E x \in lbs[i].ru : x[1] # r
RuleVisible(i, r) == ~RuleConflict(i, r) /\ \E x \in lbs[i].ru : x[1] = r

(* standardNLBLoadBalancerCollision *)
Collides(i) == i # 0 /\ lbs[i].col

(* targetUUIDsFromNodes fails when the VM of an eligible Node cannot be proven. *)
TargetsProven == \A t \in Eligible : Resolved(t)

-----------------------------------------------------------------------------
(* The receipt, and what a replica keeps in memory during a pass. *)

Idle == [l |-> "idle", kind |-> "", sv |-> <<>>, lb |-> NoLB, fip |-> NoFIP, m |-> Mut("none"),
         raw |-> NoFence, held |-> FALSE, bad |-> FALSE, out |-> ""]
View == [want |-> Eligible, rule |-> svc.rule, empty |-> svc.empty]

Issues == {run[p].raw.n : p \in Procs} \cup {w.n : w \in wire} \cup {svc.fence.n}
          \cup {x[2] : x \in UNION {lbs[i].ru : i \in LBIds}}
NewIssue == CHOOSE n \in 1..Cardinality(Issues) + 1 :
               n \notin Issues /\ \A k \in 1..(n - 1) : k \in Issues

Ages(f) == {a \in age : \/ a = "empty"
                        \/ a = "issued" /\ f.ph = "issued" /\ f.n = svc.fence.n
                        \/ a = "seen" /\ f.seen /\ svc.fence.seen}

(* replaceStandardNLBFence: the Service is read, its annotation compared with
   the value the caller holds, updated and read back. *)
Holds(f) == svc.life # "gone" /\ svc.fence = f
Put(f) == /\ svc' = [svc EXCEPT !.fence = f]
          /\ age' = Ages(f)
          /\ sent' = (sent /\ f.ph = "issued" /\ f.n = svc.fence.n)
Keep == UNCHANGED <<svc, age, sent>>

(* clearStandardNLBFenceAfterProvenNonDispatch: a create that was already
   repeated keeps its count in an intent. *)
AfterNonDispatch(f) ==
    IF f.m.op \in Creates /\ f.att > 0 THEN [f EXCEPT !.ph = "intent", !.n = 0, !.seen = FALSE]
    ELSE NoFence

(* retireAbsentStandardNLBAdditive *)
Retire(f) ==
    CASE "issued" \notin age -> [ok |-> FALSE, f |-> f]
      [] "issued" \in age /\ ~f.seen -> [ok |-> FALSE, f |-> [f EXCEPT !.seen = TRUE]]
      [] "issued" \in age /\ f.seen /\ "seen" \notin age -> [ok |-> FALSE, f |-> f]
      [] OTHER -> IF f.m.op \notin Creates THEN [ok |-> TRUE, f |-> NoFence]
                  ELSE IF f.att >= 1 THEN [ok |-> FALSE, f |-> f]
                  ELSE [ok |-> TRUE, f |-> [f EXCEPT !.ph = "intent", !.n = 0,
                                                     !.seen = FALSE, !.att = f.att + 1]]

(* Mutant: one absent read completes an issued removal. *)
ObserveOnce(f, absent) == [ok |-> absent, f |-> IF absent THEN NoFence ELSE f]

(* Mutant: a completed removal keeps its receipt. *)
ObserveKeepsReceipt(f, absent) ==
    IF f.ph = "issued" /\ absent /\ ~f.seen THEN [ok |-> FALSE, f |-> [f EXCEPT !.seen = TRUE]]
    ELSE [ok |-> absent, f |-> f]

(* observeStandardNLBRemoval, for a receipt f of the removal that was observed *)
Observe(f, absent) ==
    CASE f = NoFence -> [ok |-> absent, f |-> f]
      [] f.ph = "intent" -> [ok |-> absent, f |-> IF absent THEN NoFence ELSE f]
      [] f.ph = "issued" /\ ~absent -> [ok |-> FALSE, f |-> [f EXCEPT !.seen = FALSE]]
      [] f.ph = "issued" /\ absent /\ ~f.seen -> [ok |-> FALSE, f |-> [f EXCEPT !.seen = TRUE]]
      [] f.ph = "issued" /\ absent /\ f.seen ->
            IF "seen" \in age THEN [ok |-> TRUE, f |-> NoFence] ELSE [ok |-> FALSE, f |-> f]
=============================================================================
