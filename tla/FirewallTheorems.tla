------------------------- MODULE FirewallTheorems -------------------------
(***************************************************************************)
(* The relation fence lets one request through, for every number of          *)
(* controllers, firewalls and VMs.                                          *)
(***************************************************************************)
EXTENDS FirewallRelation, FiniteSetTheorems, TLAPS

ReceiptOK(r) ==
    \/ r = None
    \/ /\ r = [op |-> r.op, vm |-> r.vm, id |-> r.id, tgt |-> r.tgt, seen |-> r.seen, due |-> r.due]
       /\ r.op \in Ops /\ r.due \in BOOLEAN

PassOK(s) ==
    /\ s = [pc |-> s.pc, o |-> s.o, todo |-> s.todo, fence |-> s.fence, snap |-> s.snap,
            dirty |-> s.dirty, ok |-> s.ok]
    /\ s.o \in Owners
    /\ \A e \in s.todo : e.op \in Ops
    /\ s.fence = None \/ s.fence.op \in Ops
    /\ s.pc \in {"authorize", "send"} => s.fence # None

RelationTypeOK ==
    /\ plan \in Plans
    /\ receipt = [o \in Owners |-> receipt[o]] /\ \A o \in Owners : ReceiptOK(receipt[o])
    /\ ctl = [c \in Controllers |-> ctl[c]] /\ \A c \in Controllers : PassOK(ctl[c])
    /\ assigned = [o \in Owners |-> assigned[o]] /\ shown = [o \in Owners |-> shown[o]]

(* The issued relation has not been requested, and nothing else has changed.  *)
Untouched(o) ==
    /\ receipt[o] # None /\ ~receipt[o].due
    /\ shown[o] = assigned[o] /\ ~Converged(o, receipt[o])

(* A list differs from the cloud in the issued relation only, and shows it    *)
(* converged only when it is.                                                *)
ListInv ==
    \A o \in Owners :
        /\ receipt[o] = None \/ receipt[o].due => shown[o] = assigned[o]
        /\ receipt[o] # None =>
              /\ shown[o] \ {receipt[o].vm} = assigned[o] \ {receipt[o].vm}
              /\ Converged(o, receipt[o]) => shown[o] = assigned[o]

(* A request in flight is the one its owner's receipt names. *)
WireInv ==
    \A r \in wire :
        /\ r.o \in Owners /\ Untouched(r.o)
        /\ r = [o |-> r.o, op |-> receipt[r.o].op, vm |-> receipt[r.o].vm, id |-> receipt[r.o].id]

(* A pass that is about to send holds the receipt, which nothing was sent for. *)
SenderInv ==
    \A c \in Controllers :
        /\ At(c, "send") => SameIssue(receipt[ctl[c].o], ctl[c].fence)
        /\ (At(c, "authorize") \/ At(c, "send")) /\ SameIssue(receipt[ctl[c].o], ctl[c].fence) =>
              Untouched(ctl[c].o) /\ \A r \in wire : r.o # ctl[c].o

(* No two passes have issued the same id. *)
IssueInv ==
    \A c, d \in Controllers :
        c # d /\ ctl[c].fence # None /\ ctl[d].fence # None => ctl[c].fence.id # ctl[d].fence.id

RequestInv == RelationTypeOK /\ ListInv /\ WireInv /\ SenderInv /\ IssueInv

LEMMA Init_RequestInv == Init => RequestInv
<1> SUFFICES ASSUME Init PROVE RequestInv
  OBVIOUS
<1>1. RelationTypeOK
  BY IdsAssumption, Zenon DEF Init, RelationTypeOK, ReceiptOK, PassOK, Idle
<1>2. ListInv /\ WireInv /\ SenderInv /\ IssueInv
  BY DEF Init, ListInv, WireInv, SenderInv, IssueInv, At, Idle
<1> QED BY <1>1, <1>2 DEF RequestInv

(* There is an id that is not in use. *)
LEMMA FreshIdIsFresh == ASSUME RequestInv PROVE FreshId \notin InUse
<1> DEFINE S == {o \in Owners : receipt[o] # None}
           T == {c \in Controllers : ctl[c].fence # None}
           A == {receipt[o].id : o \in S}
           B == {ctl[c].fence.id : c \in T}
           f == [o \in S |-> receipt[o].id]
           g == [c \in T |-> ctl[c].fence.id]
<1>1. InUse = A \cup B
  BY DEF InUse, RequestInv, WireInv, Untouched
<1>2. IsFiniteSet(A) /\ Cardinality(A) <= Cardinality(Owners) /\ Cardinality(A) \in Nat
  <2>1. IsFiniteSet(S) /\ Cardinality(S) <= Cardinality(Owners)
    BY FS_Subset, IdsAssumption
  <2>2. f \in Surjection(S, A)
    BY DEF Surjection
  <2> QED BY <2>1, <2>2, FS_Surjection, FS_CardinalityType, IdsAssumption
<1>3. IsFiniteSet(B) /\ Cardinality(B) <= Cardinality(Controllers) /\ Cardinality(B) \in Nat
  <2>1. IsFiniteSet(T) /\ Cardinality(T) <= Cardinality(Controllers)
    BY FS_Subset, IdsAssumption
  <2>2. g \in Surjection(T, B)
    BY DEF Surjection
  <2> QED BY <2>1, <2>2, FS_Surjection, FS_CardinalityType, IdsAssumption
<1>4. IsFiniteSet(A \cup B) /\ Cardinality(A \cup B) <= Cardinality(A) + Cardinality(B)
  <2>1. Cardinality(A \cap B) \in Nat
    BY <1>2, FS_Subset, FS_CardinalityType
  <2> HIDE DEF A, B
  <2> QED BY <1>2, <1>3, <2>1, FS_Union
<1>5. ~(Ids \subseteq A \cup B)
  <2> HIDE DEF A, B
  <2> SUFFICES ASSUME Ids \in SUBSET (A \cup B) PROVE FALSE
    OBVIOUS
  <2>1. Cardinality(Ids) <= Cardinality(A \cup B)
    BY <1>4, FS_Subset
  <2>2. /\ Cardinality(Ids) \in Nat /\ Cardinality(Owners) \in Nat
        /\ Cardinality(Controllers) \in Nat /\ Cardinality(A \cup B) \in Nat
    BY <1>4, FS_CardinalityType, IdsAssumption
  <2> QED BY <1>2, <1>3, <1>4, <2>1, <2>2, IdsAssumption
<1> QED BY <1>1, <1>5 DEF FreshId

(* A step of a pass that does not take it nearer to a request. *)
Quiet(c) ==
    /\ ctl' = [ctl EXCEPT ![c] = ctl'[c]]
    /\ PassOK(ctl'[c])
    /\ ctl'[c].pc \notin {"authorize", "send"}
    /\ ctl'[c].fence \in {None, ctl[c].fence}

LEMMA FinishIsQuiet ==
    ASSUME RequestInv, NEW c \in Controllers, NEW pc \in {"idle", "gap", "close", "eligible"},
           Finish(c, pc) \/ Leave(c, pc) \/ End(c)
    PROVE  Quiet(c)
<1>1. PassOK(ctl[c]) /\ ctl = [d \in Controllers |-> ctl[d]]
  BY DEF RequestInv, RelationTypeOK
<1>2. CASE End(c)
  BY <1>1, <1>2, IdsAssumption, Zenon DEF End, Quiet, PassOK, Idle
<1>3. CASE Leave(c, pc)
  BY <1>1, <1>3, IdsAssumption, Zenon DEF Leave, Quiet, PassOK, Idle
<1> QED BY <1>2, <1>3 DEF Finish

(* Only the pass moves. *)
LEMMA QuietStep ==
    ASSUME RequestInv, NEW c \in Controllers, Quiet(c),
           UNCHANGED <<plan, receipt, assigned, shown, wire>>
    PROVE  RequestInv'
<1> USE DEF RequestInv
<1>0. ctl = [d \in Controllers |-> ctl[d]] /\ \A d \in Controllers \ {c} : ctl'[d] = ctl[d]
  BY DEF Quiet, RelationTypeOK
<1>1. RelationTypeOK'
  BY <1>0 DEF Quiet, RelationTypeOK, ReceiptOK
<1>2. ListInv' /\ WireInv'
  BY DEF ListInv, WireInv, Untouched, Converged
<1>3. SenderInv'
  <2>1. \A o : Untouched(o)' <=> Untouched(o)
    BY DEF Untouched, Converged
  <2>2. ASSUME NEW d \in Controllers, (At(d, "authorize") \/ At(d, "send"))'
        PROVE  ctl'[d] = ctl[d]
    BY <1>0, <2>2 DEF Quiet, At
  <2> QED BY <2>1, <2>2 DEF SenderInv, At
<1>4. IssueInv'
  BY <1>0 DEF IssueInv, Quiet
<1> QED BY <1>1, <1>2, <1>3, <1>4

(* The pass observes, or retires, the receipt of an owner. *)
LEMMA ReceiptStep ==
    ASSUME RequestInv, NEW c \in Controllers, NEW o \in Owners, NEW x, Quiet(c), receipt[o] # None,
           receipt' = [receipt EXCEPT ![o] = x],
           \/ x = None /\ ~Untouched(o) /\ shown[o] = assigned[o]
           \/ x # None /\ ReceiptOK(x) /\ SameIssue(x, receipt[o]) /\ x.due = receipt[o].due,
           UNCHANGED <<plan, assigned, shown, wire>>
    PROVE  RequestInv'
<1> USE DEF RequestInv
<1>0. /\ ctl = [d \in Controllers |-> ctl[d]] /\ \A d \in Controllers \ {c} : ctl'[d] = ctl[d]
      /\ receipt'[o] = x /\ \A p \in Owners \ {o} : receipt'[p] = receipt[p]
  BY DEF Quiet, RelationTypeOK
<1>1. RelationTypeOK'
  BY <1>0 DEF Quiet, RelationTypeOK, ReceiptOK
<1>2. ListInv'
  BY <1>0 DEF ListInv, Converged, SameIssue
<1>3. \A p \in Owners : Untouched(p) => Untouched(p)' /\ receipt'[p].op = receipt[p].op
                          /\ receipt'[p].vm = receipt[p].vm /\ receipt'[p].id = receipt[p].id
  BY <1>0 DEF Untouched, Converged, SameIssue
<1>4. WireInv'
  BY <1>3 DEF WireInv
<1>5. ASSUME NEW d \in Controllers, (At(d, "authorize") \/ At(d, "send"))'
      PROVE  /\ d # c /\ ctl'[d] = ctl[d]
             /\ SameIssue(receipt'[ctl[d].o], ctl[d].fence) => SameIssue(receipt[ctl[d].o], ctl[d].fence)
             /\ SameIssue(receipt[ctl[d].o], ctl[d].fence) => SameIssue(receipt'[ctl[d].o], ctl[d].fence)
  <2>1. d # c /\ ctl'[d] = ctl[d]
    BY <1>0, <1>5 DEF Quiet, At
  <2>2. ctl[d].o \in Owners
    BY DEF RelationTypeOK, PassOK
  <2>3. (At(d, "authorize") \/ At(d, "send")) /\ SameIssue(receipt[ctl[d].o], ctl[d].fence) => Untouched(ctl[d].o)
    BY DEF SenderInv
  <2>4. SameIssue(receipt'[ctl[d].o], ctl[d].fence) => SameIssue(receipt[ctl[d].o], ctl[d].fence)
    BY <1>0, <2>2 DEF SameIssue
  <2>5. SameIssue(receipt[ctl[d].o], ctl[d].fence) => Untouched(ctl[d].o)
    BY <1>5, <2>1, <2>3 DEF At
  <2>6. SameIssue(receipt[ctl[d].o], ctl[d].fence) => SameIssue(receipt'[ctl[d].o], ctl[d].fence)
    BY <1>0, <2>2, <2>5 DEF SameIssue
  <2> QED BY <2>1, <2>4, <2>6
<1>6. SenderInv'
  BY <1>3, <1>5 DEF SenderInv, At, RelationTypeOK, PassOK
<1>7. IssueInv'
  BY <1>0 DEF IssueInv, Quiet
<1> QED BY <1>1, <1>2, <1>4, <1>6, <1>7

(* A receipt found by a pass is cleared only when nothing can be in flight. *)
LEMMA ResolveStep ==
    ASSUME RequestInv, NEW c \in Controllers, NEW o \in Owners, Quiet(c), receipt[o] # None,
           \/ Resolve(o)
           \/ receipt' = [receipt EXCEPT ![o] = Advance(receipt[o], Converged(o, receipt[o]))],
           UNCHANGED <<plan, assigned, shown, wire>>
    PROVE  RequestInv'
<1> DEFINE r == receipt[o]
           seen == Advance(r, Converged(o, r))
<1>1. ReceiptOK(r) /\ r # None
  BY DEF RequestInv, RelationTypeOK
<1>2. \/ seen = None /\ Converged(o, r)
      \/ seen # None /\ ReceiptOK(seen) /\ SameIssue(seen, r) /\ seen.due = r.due
  BY <1>1, Zenon DEF Advance, ReceiptOK, SameIssue, None, Ops
<1>3. RetireDue(o) => r.due
  BY DEF RetireDue
<1>4. Converged(o, r) \/ r.due => ~Untouched(o) /\ shown[o] = assigned[o]
  BY <1>1 DEF Untouched, RequestInv, ListInv
<1>5. (receipt' = [receipt EXCEPT ![o] = None] /\ RetireDue(o)) \/ receipt' = [receipt EXCEPT ![o] = seen]
  BY DEF Resolve, Resolved
<1>6. CASE receipt' = [receipt EXCEPT ![o] = None] /\ RetireDue(o)
  BY <1>1, <1>3, <1>4, <1>6, ReceiptStep, Zenon
<1>7. CASE receipt' = [receipt EXCEPT ![o] = seen]
  <2> HIDE DEF seen
  <2> QED BY <1>1, <1>2, <1>4, <1>7, ReceiptStep, Zenon
<1> QED BY <1>5, <1>6, <1>7

(* A pass gives its issue up before anything is sent. *)
LEMMA ClearStep ==
    ASSUME RequestInv, NEW c \in Controllers, Quiet(c), At(c, "authorize") \/ At(c, "send"),
           ClearFence(ctl[c].o, ctl[c].fence), UNCHANGED <<plan, assigned, shown, wire>>
    PROVE  RequestInv'
<1> DEFINE o == ctl[c].o
           f == ctl[c].fence
<1>1. o \in Owners /\ f # None /\ receipt = [p \in Owners |-> receipt[p]]
  BY DEF RequestInv, RelationTypeOK, PassOK, At
<1>2. CASE ~SameIssue(receipt[o], f)
  <2>1. receipt' = receipt
    BY <1>1, <1>2 DEF ClearFence
  <2> QED BY <2>1, QuietStep
<1>3. CASE SameIssue(receipt[o], f)
  <2> USE DEF RequestInv
  <2>1. Untouched(o) /\ \A r \in wire : r.o # o
    BY <1>3 DEF SenderInv
  <2>2. /\ receipt'[o] = None /\ \A p \in Owners \ {o} : receipt'[p] = receipt[p]
        /\ receipt' = [p \in Owners |-> receipt'[p]]
    BY <1>1, <1>3 DEF ClearFence
  <2>3. ctl = [d \in Controllers |-> ctl[d]] /\ \A d \in Controllers \ {c} : ctl'[d] = ctl[d]
    BY DEF Quiet, RelationTypeOK
  <2>4. RelationTypeOK'
    BY <2>2, <2>3 DEF Quiet, RelationTypeOK, ReceiptOK
  <2>5. ListInv'
    BY <2>1, <2>2 DEF ListInv, Untouched, Converged
  <2>6. WireInv'
    BY <2>1, <2>2 DEF WireInv, Untouched, Converged
  <2>7. ASSUME NEW d \in Controllers, d # c, ctl[d].o = o, At(d, "authorize") \/ At(d, "send")
        PROVE  ~SameIssue(receipt[o], ctl[d].fence)
    <3>1. ctl[d].fence # None /\ ctl[d].fence.id # f.id
      BY <1>1, <2>7 DEF IssueInv, RelationTypeOK, PassOK, At
    <3> QED BY <1>3, <3>1 DEF SameIssue
  <2>8. SenderInv'
    <3> SUFFICES ASSUME NEW d \in Controllers, (At(d, "authorize") \/ At(d, "send"))'
                 PROVE  /\ At(d, "send")' => SameIssue(receipt[ctl[d].o], ctl[d].fence)'
                        /\ SameIssue(receipt[ctl[d].o], ctl[d].fence)' =>
                              Untouched(ctl[d].o)' /\ \A r \in wire' : r.o # ctl'[d].o
      BY DEF SenderInv
    <3>1. d # c /\ ctl'[d] = ctl[d] /\ ctl[d].o \in Owners
      BY <2>3 DEF Quiet, At, RelationTypeOK, PassOK
    <3>2. CASE ctl[d].o = o
      <4>1. At(d, "authorize") \/ At(d, "send")
        BY <3>1 DEF At
      <4>2. ~At(d, "send")
        BY <2>7, <3>1, <3>2, <4>1 DEF SenderInv
      <4>3. ~SameIssue(receipt[ctl[d].o], ctl[d].fence)'
        BY <2>2, <3>1, <3>2 DEF SameIssue
      <4> QED BY <3>1, <4>2, <4>3 DEF At
    <3>3. CASE ctl[d].o # o
      <4>1. Untouched(ctl[d].o) => Untouched(ctl[d].o)'
        BY <2>2, <3>1, <3>3 DEF Untouched, Converged
      <4>2. receipt'[ctl[d].o] = receipt[ctl[d].o] /\ (At(d, "authorize") \/ At(d, "send"))
        BY <2>2, <3>1, <3>3 DEF At
      <4> QED BY <3>1, <4>1, <4>2 DEF SenderInv, At
    <3> QED BY <3>2, <3>3
  <2>9. IssueInv'
    BY <2>3 DEF IssueInv, Quiet
  <2> QED BY <2>4, <2>5, <2>6, <2>8, <2>9
<1> QED BY <1>2, <1>3

(* A new receipt: nothing of its owner is in flight, and its id is free. *)
LEMMA IssueStep ==
    ASSUME RequestInv, NEW c \in Controllers, NEW e, e.op \in Ops, NEW tgt, ~At(c, "send"), ~At(c, "authorize"),
           Issue(c, ctl[c].o, e, tgt), receipt[ctl[c].o] = None, ~Converged(ctl[c].o, e),
           UNCHANGED <<plan, assigned, shown, wire>>
    PROVE  RequestInv'
<1> USE DEF RequestInv
<1> DEFINE o == ctl[c].o
           i == FreshId
           f == [op |-> e.op, vm |-> e.vm, id |-> i, tgt |-> tgt]
           x == [op |-> e.op, vm |-> e.vm, id |-> i, tgt |-> tgt, seen |-> "none", due |-> FALSE]
<1>0. i \notin InUse
  BY FreshIdIsFresh
<1> HIDE DEF i
<1>1. /\ o \in Owners
      /\ ctl = [d \in Controllers |-> ctl[d]] /\ PassOK(ctl[c])
      /\ receipt = [p \in Owners |-> receipt[p]]
  BY DEF RelationTypeOK, PassOK
<1>2. /\ receipt' = [receipt EXCEPT ![o] = x]
      /\ ctl' = [ctl EXCEPT ![c].pc = "authorize", ![c].fence = f, ![c].dirty = TRUE]
  BY DEF Issue, i
<1>3. receipt'[o] = x /\ \A p \in Owners \ {o} : receipt'[p] = receipt[p]
  BY <1>1, <1>2
<1>4. /\ \A d \in Controllers \ {c} : ctl'[d] = ctl[d]
      /\ ctl'[c] = [ctl[c] EXCEPT !.pc = "authorize", !.fence = f, !.dirty = TRUE]
      /\ ctl' = [d \in Controllers |-> ctl'[d]]
  BY <1>1, <1>2
<1>5. PassOK(ctl'[c]) /\ ctl'[c].o = o /\ ctl'[c].fence = f /\ f # None /\ x # None
  <2>1. f # None /\ x # None /\ f.op \in Ops
    BY DEF None, Ops
  <2> HIDE DEF f, x
  <2>2. ctl'[c] = [pc |-> "authorize", o |-> o, todo |-> ctl[c].todo, fence |-> f,
                   snap |-> ctl[c].snap, dirty |-> TRUE, ok |-> ctl[c].ok]
    BY <1>1, <1>4, Zenon DEF PassOK
  <2> QED BY <1>1, <2>1, <2>2 DEF PassOK
<1>6. RelationTypeOK'
  <2>1. ReceiptOK(x)
    BY DEF ReceiptOK
  <2> HIDE DEF x, f
  <2> QED BY <1>1, <1>2, <1>3, <1>4, <1>5, <2>1 DEF RelationTypeOK
<1>7. shown[o] = assigned[o] /\ ~Converged(o, x)
  BY <1>1 DEF ListInv, Converged
<1>8. ListInv'
  <2> HIDE DEF f
  <2> QED BY <1>1, <1>3, <1>5, <1>7 DEF ListInv, Converged
<1>9. \A r \in wire : r.o # o
  BY DEF WireInv, Untouched
<1>10. WireInv'
  BY <1>3, <1>9 DEF WireInv, Untouched, Converged
<1>11. ASSUME NEW d \in Controllers, ctl[d].fence # None PROVE ctl[d].fence.id # i
  BY <1>0, <1>11 DEF InUse
<1>12. SenderInv'
  <2> SUFFICES ASSUME NEW d \in Controllers, (At(d, "authorize") \/ At(d, "send"))'
               PROVE  /\ At(d, "send")' => SameIssue(receipt[ctl[d].o], ctl[d].fence)'
                      /\ SameIssue(receipt[ctl[d].o], ctl[d].fence)' =>
                            Untouched(ctl[d].o)' /\ \A r \in wire' : r.o # ctl'[d].o
    BY DEF SenderInv
  <2>1. CASE d = c
    <3>1. ~At(d, "send")'
      BY <1>1, <1>4, <2>1, Zenon DEF At, PassOK
    <3>2. Untouched(o)'
      BY <1>1, <1>3, <1>5, <1>7 DEF Untouched, Converged
    <3> QED BY <1>5, <1>9, <2>1, <3>1, <3>2
  <2>2. CASE d # c /\ ctl[d].o = o
    <3>1. ctl'[d] = ctl[d] /\ ctl[d].fence # None
      BY <1>4, <2>2 DEF RelationTypeOK, PassOK, At
    <3>2. ~SameIssue(receipt'[o], ctl[d].fence)
      BY <1>3, <1>11, <3>1 DEF SameIssue
    <3>3. ~At(d, "send")
      BY <1>5, <2>2, Zenon DEF SenderInv, SameIssue
    <3> QED BY <2>2, <3>1, <3>2, <3>3, Zenon DEF At
  <2>3. CASE d # c /\ ctl[d].o # o
    <3>1. ctl'[d] = ctl[d] /\ ctl[d].o \in Owners
      BY <1>4, <2>3 DEF RelationTypeOK, PassOK
    <3>2. Untouched(ctl[d].o) => Untouched(ctl[d].o)'
      BY <1>3, <2>3, <3>1, Zenon DEF Untouched, Converged
    <3>3. receipt'[ctl[d].o] = receipt[ctl[d].o] /\ (At(d, "authorize") \/ At(d, "send"))
      BY <1>3, <2>3, <3>1 DEF At
    <3> QED BY <3>1, <3>2, <3>3, Zenon DEF SenderInv, At
  <2> QED BY <2>1, <2>2, <2>3
<1>13. IssueInv'
  <2>1. f.id = i
    OBVIOUS
  <2> HIDE DEF f
  <2> SUFFICES ASSUME NEW b \in Controllers, NEW d \in Controllers, b # d,
                      ctl'[b].fence # None, ctl'[d].fence # None
               PROVE  ctl'[b].fence.id # ctl'[d].fence.id
    BY DEF IssueInv
  <2>2. CASE b # c /\ d # c
    BY <1>4, <2>2 DEF IssueInv
  <2>3. CASE b = c
    <3>1. ctl'[b].fence.id = i /\ ctl'[d] = ctl[d]
      BY <1>4, <1>5, <2>1, <2>3, Zenon
    <3> QED BY <1>11, <3>1
  <2>4. CASE d = c
    <3>1. ctl'[d].fence.id = i /\ ctl'[b] = ctl[b]
      BY <1>4, <1>5, <2>1, <2>4, Zenon
    <3> QED BY <1>11, <3>1
  <2> QED BY <2>2, <2>3, <2>4
<1> QED BY <1>6, <1>8, <1>10, <1>12, <1>13

(* The request goes out: it is the receipt's, and the only one. *)
LEMMA DispatchStep ==
    ASSUME RequestInv, NEW c \in Controllers, Dispatch(c)
    PROVE  RequestInv'
<1> USE DEF RequestInv
<1> DEFINE o == ctl[c].o
           f == ctl[c].fence
           q == [o |-> o, op |-> f.op, vm |-> f.vm, id |-> f.id]
<1>1. At(c, "send") /\ o \in Owners /\ PassOK(ctl[c]) /\ ctl = [d \in Controllers |-> ctl[d]]
  BY DEF Dispatch, RelationTypeOK, PassOK
<1>2. SameIssue(receipt[o], f) /\ Untouched(o) /\ \A r \in wire : r.o # o
  BY <1>1 DEF SenderInv
<1>3. UNCHANGED <<plan, receipt, assigned, shown>> /\ wire' = wire \cup {q}
  BY DEF Dispatch, owner, cloud
<1>4. /\ ctl' = [d \in Controllers |-> ctl'[d]]
      /\ \A d \in Controllers \ {c} : ctl'[d] = ctl[d]
      /\ ctl'[c] = [ctl[c] EXCEPT !.pc = "sent"]
  BY <1>1 DEF Dispatch, Goto
<1>5. PassOK(ctl'[c]) /\ ctl'[c].pc = "sent" /\ ctl'[c].fence = f
  BY <1>1, <1>4 DEF PassOK
<1>6. RelationTypeOK'
  BY <1>3, <1>4, <1>5 DEF RelationTypeOK
<1>7. ListInv'
  BY <1>3 DEF ListInv, Converged
<1>8. WireInv'
  <2>1. q.o = o /\ q = [o |-> o, op |-> receipt[o].op, vm |-> receipt[o].vm, id |-> receipt[o].id]
    BY <1>2 DEF SameIssue
  <2> HIDE DEF q
  <2> SUFFICES ASSUME NEW r \in wire'
               PROVE  /\ r.o \in Owners /\ Untouched(r.o)'
                      /\ r = [o |-> r.o, op |-> receipt[r.o].op, vm |-> receipt[r.o].vm, id |-> receipt[r.o].id]
    BY <1>3 DEF WireInv
  <2>2. r.o \in Owners /\ Untouched(r.o)
    BY <1>1, <1>2, <1>3, <2>1, Zenon DEF WireInv
  <2>3. Untouched(r.o)'
    BY <1>3, <2>2 DEF Untouched, Converged
  <2>4. CASE r = q
    BY <2>1, <2>2, <2>3, <2>4
  <2>5. CASE r \in wire
    BY <2>2, <2>3, <2>5 DEF WireInv
  <2> QED BY <1>3, <2>4, <2>5
<1>9. ASSUME NEW d \in Controllers, d # c, ctl[d].o = o, At(d, "authorize") \/ At(d, "send")
      PROVE  ~SameIssue(receipt[o], ctl[d].fence)
  <2>1. PassOK(ctl[d])
    BY <1>9 DEF RelationTypeOK
  <2>2. f # None /\ ctl[d].fence # None
    BY <1>1, <1>9, <2>1 DEF PassOK, At
  <2>3. f.id # ctl[d].fence.id
    BY <1>9, <2>2 DEF IssueInv
  <2> QED BY <1>2, <2>3 DEF SameIssue
<1>10. SenderInv'
  <2> SUFFICES ASSUME NEW d \in Controllers, (At(d, "authorize") \/ At(d, "send"))'
               PROVE  /\ At(d, "send")' => SameIssue(receipt[ctl[d].o], ctl[d].fence)'
                      /\ SameIssue(receipt[ctl[d].o], ctl[d].fence)' =>
                            Untouched(ctl[d].o)' /\ \A r \in wire' : r.o # ctl'[d].o
    BY DEF SenderInv
  <2>1. d # c /\ ctl'[d] = ctl[d]
    BY <1>4, <1>5, Zenon DEF At
  <2>2. CASE ctl[d].o = o
    BY <1>3, <1>9, <2>1, <2>2 DEF SenderInv, At
  <2>3. CASE ctl[d].o # o
    <3>1. Untouched(ctl[d].o) => Untouched(ctl[d].o)'
      BY <1>3, <2>1 DEF Untouched, Converged
    <3>2. At(d, "authorize") \/ At(d, "send")
      BY <2>1 DEF At
    <3>3. \A r \in wire' : r \in wire \/ r.o # ctl[d].o
      BY <1>3, <2>3
    <3> QED BY <1>3, <2>1, <3>1, <3>2, <3>3 DEF SenderInv, At
  <2> QED BY <2>2, <2>3
<1>11. IssueInv'
  <2>1. \A d \in Controllers : ctl'[d].fence = ctl[d].fence
    BY <1>4, <1>5, Zenon
  <2> QED BY <2>1 DEF IssueInv
<1> QED BY <1>6, <1>7, <1>8, <1>10, <1>11

(* The cloud applies the one request of an owner. *)
LEMMA CommitStep ==
    ASSUME RequestInv, NEW r \in wire, Commit(r)
    PROVE  RequestInv'
<1> USE DEF RequestInv
<1>1. /\ r.o \in Owners /\ Untouched(r.o) /\ r.vm = receipt[r.o].vm /\ r.op = receipt[r.o].op
      /\ ReceiptOK(receipt[r.o]) /\ receipt[r.o] # None
  BY DEF WireInv, RelationTypeOK, Untouched
<1>2. \A q \in wire \ {r} : q.o # r.o
  BY DEF WireInv
<1>3. /\ UNCHANGED <<plan, receipt, shown>> /\ wire' = wire \ {r}
      /\ \A p \in Owners \ {r.o} : assigned'[p] = assigned[p]
      /\ assigned'[r.o] = IF r.op = "assign" THEN assigned[r.o] \cup {r.vm} ELSE assigned[r.o] \ {r.vm}
      /\ assigned' = [p \in Owners |-> assigned'[p]]
  BY <1>1, Zenon DEF Commit, owner, RelationTypeOK
<1>4. /\ ctl' = [d \in Controllers |-> ctl'[d]]
      /\ \A d \in Controllers : ctl'[d] = ctl[d] \/ (At(d, "sent") /\ ctl'[d] = [ctl[d] EXCEPT !.ok = TRUE])
  BY DEF Commit
<1>5. \A d \in Controllers : /\ PassOK(ctl'[d]) /\ ctl'[d].pc = ctl[d].pc
                             /\ ctl'[d].o = ctl[d].o /\ ctl'[d].fence = ctl[d].fence
  BY <1>4 DEF RelationTypeOK, PassOK
<1>6. RelationTypeOK'
  BY <1>3, <1>4, <1>5 DEF RelationTypeOK
<1>7. ListInv'
  BY <1>1, <1>3 DEF ListInv, Converged, Untouched, ReceiptOK, Ops
<1>8. WireInv'
  BY <1>2, <1>3 DEF WireInv, Untouched, Converged
<1>9. SenderInv'
  <2>1. \A d \in Controllers : (At(d, "authorize") \/ At(d, "send")) /\ ctl[d].o = r.o
                                  => ~SameIssue(receipt[ctl[d].o], ctl[d].fence)
    BY DEF SenderInv
  <2>2. \A p \in Owners \ {r.o} : Untouched(p) => Untouched(p)'
    BY <1>3 DEF Untouched, Converged
  <2>3. \A d \in Controllers : ctl[d].o \in Owners
    BY DEF RelationTypeOK, PassOK
  <2> SUFFICES ASSUME NEW d \in Controllers, (At(d, "authorize") \/ At(d, "send"))'
               PROVE  /\ At(d, "send")' => SameIssue(receipt[ctl[d].o], ctl[d].fence)'
                      /\ SameIssue(receipt[ctl[d].o], ctl[d].fence)' =>
                            Untouched(ctl[d].o)' /\ \A q \in wire' : q.o # ctl'[d].o
    BY DEF SenderInv
  <2>4. /\ ctl'[d].pc = ctl[d].pc /\ ctl'[d].o = ctl[d].o /\ ctl'[d].fence = ctl[d].fence
        /\ At(d, "authorize") \/ At(d, "send")
    BY <1>5 DEF At
  <2>5. SameIssue(receipt[ctl[d].o], ctl[d].fence)' <=> SameIssue(receipt[ctl[d].o], ctl[d].fence)
    BY <1>3, <2>4
  <2>6. SameIssue(receipt[ctl[d].o], ctl[d].fence) => Untouched(ctl[d].o) /\ \A q \in wire : q.o # ctl[d].o
    BY <2>4 DEF SenderInv
  <2>7. At(d, "send")' => SameIssue(receipt[ctl[d].o], ctl[d].fence)
    BY <2>4, Zenon DEF SenderInv, At
  <2>8. Untouched(ctl[d].o) /\ ctl[d].o # r.o => Untouched(ctl[d].o)'
    BY <2>2, <2>3, <2>4
  <2> QED BY <1>3, <2>1, <2>4, <2>5, <2>6, <2>7, <2>8
<1>10. IssueInv'
  BY <1>5 DEF IssueInv
<1> QED BY <1>6, <1>7, <1>8, <1>9, <1>10

(* What leaves the requests, the lists, the receipts and the passes alone. *)
LEMMA FrameStep ==
    ASSUME RequestInv, UNCHANGED <<plan, receipt, assigned, shown, wire, ctl>>
    PROVE  RequestInv'
<1>1. RelationTypeOK' /\ ListInv' /\ IssueInv'
  BY DEF RequestInv, RelationTypeOK, ReceiptOK, PassOK, ListInv, IssueInv, Converged
<1>2. \A o : Untouched(o)' <=> Untouched(o)
  BY DEF Untouched, Converged
<1>3. WireInv'
  BY <1>2 DEF RequestInv, WireInv
<1>4. SenderInv'
  BY <1>2 DEF RequestInv, SenderInv, At
<1> QED BY <1>1, <1>3, <1>4 DEF RequestInv

LEMMA LoseStep ==
    ASSUME RequestInv, NEW r \in wire, Lose(r)
    PROVE  RequestInv'
<1> USE DEF RequestInv
<1>1. UNCHANGED <<plan, receipt, assigned, shown, ctl>> /\ wire' \subseteq wire
  BY DEF Lose, owner, cloud
<1>2. RelationTypeOK' /\ ListInv' /\ IssueInv'
  BY <1>1, Zenon DEF RelationTypeOK, ReceiptOK, PassOK, ListInv, IssueInv, Converged
<1>3. WireInv'
  BY <1>1 DEF WireInv, Untouched, Converged
<1>4. SenderInv'
  <2>1. \A o : Untouched(o)' <=> Untouched(o)
    BY <1>1 DEF Untouched, Converged
  <2> QED BY <1>1, <2>1 DEF SenderInv, At
<1> QED BY <1>2, <1>3, <1>4

(* A list catches up. *)
LEMMA PropagateStep ==
    ASSUME RequestInv, NEW o \in Owners, Propagate(o)
    PROVE  RequestInv'
<1> USE DEF RequestInv
<1>1. /\ UNCHANGED <<plan, receipt, assigned, wire, ctl>> /\ ~Untouched(o)
      /\ shown'[o] = assigned[o] /\ \A p \in Owners \ {o} : shown'[p] = shown[p]
      /\ shown' = [p \in Owners |-> shown'[p]]
  BY DEF Propagate, owner, Untouched, RelationTypeOK
<1>2. RelationTypeOK' /\ IssueInv'
  BY <1>1, Zenon DEF RelationTypeOK, ReceiptOK, PassOK, IssueInv
<1>3. ListInv'
  BY <1>1 DEF ListInv, Converged
<1>4. \A p \in Owners : Untouched(p) => Untouched(p)'
  BY <1>1 DEF Untouched, Converged
<1>5. WireInv' /\ SenderInv'
  BY <1>1, <1>4, Zenon DEF WireInv, SenderInv, SameIssue, At, RelationTypeOK, PassOK
<1> QED BY <1>2, <1>3, <1>5

(* The deadline passes only when nothing of the owner is in flight. *)
LEMMA ReceiptAgesStep ==
    ASSUME RequestInv, NEW o \in Owners, ReceiptAges(o)
    PROVE  RequestInv'
<1> USE DEF RequestInv
<1>1. /\ UNCHANGED <<plan, assigned, shown, wire, ctl>> /\ Settled(o)
      /\ receipt[o] # None /\ ReceiptOK(receipt[o])
      /\ receipt' = [receipt EXCEPT ![o] = [receipt[o] EXCEPT !.due = TRUE]]
  BY DEF ReceiptAges, cloud, RelationTypeOK
<1>2. /\ receipt'[o] = [receipt[o] EXCEPT !.due = TRUE]
      /\ \A p \in Owners \ {o} : receipt'[p] = receipt[p]
      /\ receipt' = [p \in Owners |-> receipt'[p]]
  BY <1>1, Zenon DEF RelationTypeOK
<1>3. ReceiptOK(receipt'[o]) /\ SameIssue(receipt'[o], receipt[o])
  BY <1>1, <1>2, Zenon DEF ReceiptOK, SameIssue, None, Ops
<1>4. RelationTypeOK' /\ IssueInv'
  BY <1>1, <1>2, <1>3 DEF RelationTypeOK, PassOK, IssueInv
<1>5. ListInv'
  BY <1>1, <1>2, <1>3 DEF ListInv, Settled, SameIssue, Converged
<1>6. WireInv'
  BY <1>1, <1>2 DEF WireInv, Settled, Untouched, Converged
<1>7. \A d \in Controllers : (At(d, "authorize") \/ At(d, "send")) => ctl[d].o # o /\ ctl[d].o \in Owners
  BY <1>1 DEF Settled, RelationTypeOK, PassOK
<1>8. SenderInv'
  BY <1>1, <1>2, <1>7 DEF SenderInv, At, Untouched, Converged
<1> QED BY <1>4, <1>5, <1>6, <1>8

(* An absence becomes old enough. *)
LEMMA ObservationAgesStep ==
    ASSUME RequestInv, NEW o \in Owners, ObservationAges(o)
    PROVE  RequestInv'
<1> USE DEF RequestInv
<1>1. UNCHANGED <<plan, assigned, shown, wire, ctl>>
  BY DEF ObservationAges, cloud
<1>2. CASE UNCHANGED receipt
  BY <1>1, <1>2, FrameStep
<1>3. CASE receipt[o] # None /\ receipt' = [receipt EXCEPT ![o].seen = "old"]
  <2>1. /\ receipt'[o] = [receipt[o] EXCEPT !.seen = "old"] /\ ReceiptOK(receipt[o])
        /\ \A p \in Owners \ {o} : receipt'[p] = receipt[p]
        /\ receipt' = [p \in Owners |-> receipt'[p]]
    BY <1>3 DEF RelationTypeOK
  <2>2. /\ ReceiptOK(receipt'[o]) /\ SameIssue(receipt'[o], receipt[o])
        /\ receipt'[o].due = receipt[o].due
    BY <1>3, <2>1 DEF ReceiptOK, SameIssue, None, Ops
  <2>3. RelationTypeOK' /\ IssueInv'
    BY <1>1, <2>1, <2>2 DEF RelationTypeOK, PassOK, IssueInv
  <2>4. ListInv'
    BY <1>1, <1>3, <2>1, <2>2 DEF ListInv, SameIssue, Converged
  <2>5. \A p \in Owners : Untouched(p) => Untouched(p)' /\ receipt'[p].op = receipt[p].op
                            /\ receipt'[p].vm = receipt[p].vm /\ receipt'[p].id = receipt[p].id
    BY <1>1, <2>1, <2>2, Zenon DEF Untouched, Converged, SameIssue
  <2>6. WireInv'
    BY <1>1, <2>5 DEF WireInv
  <2>7. \A p \in Owners : \A f : SameIssue(receipt'[p], f) <=> SameIssue(receipt[p], f)
    BY <1>3, <2>1, <2>2 DEF SameIssue
  <2>8. SenderInv'
    BY <1>1, <2>5, <2>7, Zenon DEF SenderInv, At, RelationTypeOK, PassOK
  <2> QED BY <2>3, <2>4, <2>6, <2>8
<1> QED BY <1>2, <1>3 DEF ObservationAges

(* A pass that finds a receipt, or starts on the relations of its owner. *)
LEMMA EnterStep ==
    ASSUME RequestInv, NEW c \in Controllers, EnsureICMP(c) \/ EnsureShard(c) \/ EnsureService(c)
    PROVE  RequestInv'
<1> DEFINE o == ctl[c].o
<1>1. o \in Owners /\ ctl = [d \in Controllers |-> ctl[d]]
  BY DEF RequestInv, RelationTypeOK, PassOK
<1>2. UNCHANGED <<plan, assigned, shown, wire>>
  BY Zenon DEF EnsureICMP, EnsureShard, EnsureService, cloud
<1>3. ASSUME NEW pc \in {"close", "gap", "idle"}, ResolveFirst(c, o, pc)
      PROVE  RequestInv'
  <2>1. Failed(o) \in {"close", "gap", "idle"}
    BY DEF Failed, Stopped
  <2>2. Quiet(c)
    BY <1>1, <1>3, <2>1, Zenon DEF ResolveFirst, Quiet, PassOK, Idle
  <2> QED BY <1>1, <1>2, <1>3, <2>2, ResolveStep DEF ResolveFirst
<1>4. ASSUME NEW todo, NEW snap, NEW dirty, Enter(c, o, todo, snap, dirty), \A e \in todo : e.op \in Ops
      PROVE  RequestInv'
  <2>1. Quiet(c)
    BY <1>1, <1>4, Zenon DEF Enter, Quiet, PassOK, Idle
  <2> QED BY <1>2, <1>4, <2>1, QuietStep DEF Enter, owner
<1>5. \A v, h : Relation("assign", v, h).op \in Ops /\ Relation("unassign", v, h).op \in Ops
  BY DEF Relation, Ops
<1>6. CASE EnsureICMP(c)
  <2>1. o = "icmp"
    BY <1>6 DEF EnsureICMP
  <2>2. CASE ResolveFirst(c, o, "close")
    BY <1>3, <2>2
  <2>3. CASE ~ResolveFirst(c, o, "close")
    <3> DEFINE todo == {Relation("assign", v, FALSE) : v \in {w \in Authorized \ shown["icmp"] : ~ready[w] /\ healthy[w]}}
                         \cup {Relation("unassign", v, FALSE) : v \in shown["icmp"] \ Authorized}
    <3>1. Enter(c, o, todo, shown["icmp"] \cap Authorized, Authorized \ shown["icmp"] # {})
      BY <1>6, <2>1, <2>3 DEF EnsureICMP
    <3>2. \A e \in todo : e.op \in Ops
      BY <1>5, Zenon
    <3> HIDE DEF todo
    <3> QED BY <1>4, <3>1, <3>2
  <2> QED BY <2>2, <2>3
<1>7. CASE EnsureShard(c)
  <2>1. o = "shard"
    BY <1>7 DEF EnsureShard
  <2>2. CASE ResolveFirst(c, o, "gap")
    BY <1>3, <2>2
  <2>3. CASE ~ResolveFirst(c, o, "gap")
    <3> DEFINE todo == {Relation("unassign", v, ready[v]) : v \in shown["shard"] \ Retained}
                         \cup {Relation("assign", v, ready[v]) :
                                  v \in {w \in Authorized \ shown["shard"] : healthy[w]}}
    <3>1. Enter(c, o, todo, shown["shard"], FALSE)
      BY <1>7, <2>1, <2>3, Zenon DEF EnsureShard
    <3>2. \A e \in todo : e.op \in Ops
      BY <1>5
    <3> HIDE DEF todo
    <3> QED BY <1>4, <3>1, <3>2, Zenon
  <2> QED BY <2>2, <2>3
<1>8. CASE EnsureService(c)
  <2>1. CASE ResolveFirst(c, o, "idle")
    BY <1>3, <2>1
  <2>2. CASE ~ResolveFirst(c, o, "idle")
    <3> DEFINE todo == {Relation("unassign", v, FALSE) : v \in shown[o] \ plan.want}
                         \cup {Relation("assign", v, FALSE) : v \in plan.want \ shown[o]}
    <3>1. Enter(c, o, todo, {}, FALSE)
      BY <1>8, <2>2, Zenon DEF EnsureService
    <3>2. \A e \in todo : e.op \in Ops
      BY <1>5, Zenon
    <3> HIDE DEF todo
    <3> QED BY <1>4, <3>1, <3>2, Zenon
  <2> QED BY <2>1, <2>2
<1> QED BY <1>6, <1>7, <1>8

(* A relation: held back, resolved, skipped, refused, or issued. *)
LEMMA RelateStep ==
    ASSUME RequestInv, NEW c \in Controllers, NEW e \in ctl[c].todo, Relate(c, e)
    PROVE  RequestInv'
<1> DEFINE o == ctl[c].o
<1>1. /\ o \in Owners /\ ctl = [d \in Controllers |-> ctl[d]] /\ PassOK(ctl[c]) /\ e.op \in Ops
      /\ ~At(c, "send") /\ ~At(c, "authorize")
  BY Zenon DEF RequestInv, RelationTypeOK, PassOK, Relate, At
<1>2. UNCHANGED <<plan, assigned, shown, wire>>
  BY Zenon DEF Relate, cloud
<1>3. Failed(o) \in {"close", "gap", "idle"} /\ Stopped(o) \in {"gap", "idle"}
  BY DEF Failed, Stopped
<1>4. ASSUME NEW pc \in {"close", "gap", "idle"}, Finish(c, pc), UNCHANGED receipt
      PROVE  RequestInv'
  BY <1>2, <1>4, FinishIsQuiet, QuietStep
<1>5. ASSUME Skip(c, e) PROVE RequestInv'
  <2>1. ctl'[c] = [ctl[c] EXCEPT !.todo = @ \ {e}, !.dirty = TRUE] /\ ctl' = [ctl EXCEPT ![c] = ctl'[c]]
    BY <1>1, <1>5, Zenon DEF Skip
  <2>2. Quiet(c)
    BY <1>1, <2>1, Zenon DEF Quiet, PassOK, At
  <2> QED BY <1>2, <1>5, <2>2, QuietStep DEF Skip, owner
<1>6. ASSUME receipt[o] # None, Resolve(o), NEW pc \in {"close", "gap", "idle"}, Finish(c, pc)
      PROVE  RequestInv'
  BY <1>1, <1>2, <1>6, FinishIsQuiet, ResolveStep
<1>7. ASSUME NEW tgt, Issue(c, o, e, tgt), receipt[o] = None, ~Converged(o, e)
      PROVE  RequestInv'
  BY <1>1, <1>2, <1>7, IssueStep
<1>8. CASE Finish(c, "gap") /\ UNCHANGED owner
  BY <1>4, <1>8 DEF owner
<1>9. CASE receipt[o] # None /\ Resolve(o) /\ Finish(c, IF Resolved(o) = None THEN Stopped(o) ELSE Failed(o))
  BY <1>3, <1>6, <1>9
<1>10. CASE receipt[o] = None /\ Converged(o, e) /\ (Skip(c, e) \/ (Finish(c, Stopped(o)) /\ UNCHANGED receipt))
  BY <1>3, <1>4, <1>5, <1>10
<1>11. CASE (End(c) /\ UNCHANGED owner) \/ Skip(c, e)
  BY <1>4, <1>5, <1>11 DEF owner, Finish
<1>12. CASE receipt[o] = None /\ ~Converged(o, e) /\ ObserveAbsence(c, o, e)
  BY <1>3, <1>4, <1>7, <1>12, Zenon DEF ObserveAbsence, owner
<1>13. CASE receipt[o] = None /\ ~Converged(o, e) /\ Issue(c, o, e, FALSE)
  BY <1>7, <1>13, Zenon
<1> QED BY <1>8, <1>9, <1>10, <1>11, <1>12, <1>13, Zenon DEF Relate

(* The final authority: go on to the request, or give the issue up. *)
LEMMA AuthorizeStep ==
    ASSUME RequestInv, NEW c \in Controllers, Authorize(c)
    PROVE  RequestInv'
<1> DEFINE o == ctl[c].o
           f == ctl[c].fence
<1>1. /\ o \in Owners /\ ctl = [d \in Controllers |-> ctl[d]] /\ PassOK(ctl[c]) /\ At(c, "authorize")
      /\ UNCHANGED <<plan, assigned, shown, wire>>
  BY DEF RequestInv, RelationTypeOK, PassOK, Authorize, cloud
<1>2. CASE SameIssue(receipt[o], f) /\ Goto(c, "send") /\ UNCHANGED owner
  <2> USE DEF RequestInv
  <2>1. /\ \A d \in Controllers \ {c} : ctl'[d] = ctl[d]
        /\ ctl' = [d \in Controllers |-> ctl'[d]]
        /\ ctl'[c] = [ctl[c] EXCEPT !.pc = "send"] /\ UNCHANGED receipt
    BY <1>1, <1>2 DEF Goto, owner
  <2>2. PassOK(ctl'[c]) /\ ctl'[c].o = o /\ ctl'[c].fence = f
    BY <1>1, <2>1 DEF PassOK, At
  <2>3. RelationTypeOK' /\ ListInv' /\ WireInv'
    BY <1>1, <2>1, <2>2, Zenon DEF RelationTypeOK, ReceiptOK, ListInv, WireInv, Untouched, Converged
  <2>4. \A d \in Controllers : ctl'[d].fence = ctl[d].fence /\ ctl'[d].o = ctl[d].o
    BY <2>1, <2>2, Zenon
  <2>5. IssueInv'
    BY <2>4 DEF IssueInv
  <2>6. \A p \in Owners : Untouched(p) => Untouched(p)'
    BY <1>1, <2>1 DEF Untouched, Converged
  <2>7. \A d \in Controllers : d # c => ctl'[d].pc = ctl[d].pc
    BY <2>1
  <2>8. SenderInv'
    BY <1>1, <1>2, <2>1, <2>4, <2>6, <2>7 DEF SenderInv, At, RelationTypeOK, PassOK
  <2> QED BY <2>3, <2>5, <2>8
<1>3. CASE /\ ClearFence(o, f)
           /\ ctl' = [ctl EXCEPT ![c].pc = "relate", ![c].fence = None,
                                 ![c].todo = @ \ {e \in @ : e.op = f.op /\ e.vm = f.vm}]
  <2>1. /\ ctl'[c] = [ctl[c] EXCEPT !.pc = "relate", !.fence = None,
                                    !.todo = @ \ {e \in @ : e.op = f.op /\ e.vm = f.vm}]
        /\ ctl' = [ctl EXCEPT ![c] = ctl'[c]]
    BY <1>1, <1>3, Zenon
  <2>2. Quiet(c)
    BY <1>1, <2>1, Zenon DEF Quiet, PassOK
  <2> QED BY <1>1, <1>3, <2>2, ClearStep
<1>4. CASE ClearFence(o, f) /\ \E pc \in {Stopped(o), Failed(o)} : Finish(c, pc)
  <2>1. Failed(o) \in {"close", "gap", "idle"} /\ Stopped(o) \in {"gap", "idle"}
    BY DEF Failed, Stopped
  <2> QED BY <1>1, <1>4, <2>1, FinishIsQuiet, ClearStep
<1> QED BY <1>2, <1>3, <1>4, Zenon DEF Authorize

(* The answer of a request, or none. *)
LEMMA AnswerStep ==
    ASSUME RequestInv, NEW c \in Controllers, NotDispatched(c) \/ Acknowledged(c) \/ AnsweredError(c)
    PROVE  RequestInv'
<1> DEFINE o == ctl[c].o
           f == ctl[c].fence
<1>1. o \in Owners /\ UNCHANGED <<plan, assigned, shown, wire>>
  BY Zenon DEF RequestInv, RelationTypeOK, PassOK, NotDispatched, Acknowledged, AnsweredError, cloud
<1>2. Failed(o) \in {"close", "gap", "idle"} /\ Stopped(o) \in {"close", "gap", "idle"}
  BY DEF Failed, Stopped
<1>3. \A pc \in {"close", "gap", "idle"} : Finish(c, pc) => Quiet(c)
  BY FinishIsQuiet
<1>4. End(c) => Quiet(c)
  BY FinishIsQuiet
<1>5. CASE NotDispatched(c)
  BY <1>1, <1>2, <1>3, <1>5, ClearStep DEF NotDispatched
<1>6. CASE Acknowledged(c)
  <2>1. CASE receipt[o] # None /\ Resolve(o) /\ Finish(c, IF Resolved(o) = None THEN Stopped(o) ELSE Failed(o))
    BY <1>1, <1>2, <1>3, <2>1, ResolveStep
  <2>2. CASE Finish(c, Stopped(o)) /\ UNCHANGED owner
    BY <1>1, <1>2, <1>3, <2>2, QuietStep DEF owner
  <2> QED BY <1>6, <2>1, <2>2, Zenon DEF Acknowledged
<1>7. CASE AnsweredError(c)
  <2>1. CASE SameIssue(receipt[o], f)
    <3>1. /\ receipt' = [receipt EXCEPT ![o] = Advance(receipt[o], Converged(o, receipt[o]))]
          /\ Finish(c, Stopped(o)) \/ Finish(c, Failed(o)) \/ End(c)
      BY <1>7, <2>1, Zenon DEF AnsweredError
    <3>2. Quiet(c)
      BY <1>2, <1>3, <1>4, <3>1
    <3> QED BY <1>1, <2>1, <3>1, <3>2, ResolveStep, Zenon DEF SameIssue
  <2>2. CASE ~SameIssue(receipt[o], f)
    <3>1. Finish(c, Failed(o)) /\ UNCHANGED owner
      BY <1>7, <2>2, Zenon DEF AnsweredError
    <3> QED BY <1>1, <1>2, <1>3, <3>1, QuietStep DEF owner
  <2> QED BY <2>1, <2>2
<1> QED BY <1>5, <1>6, <1>7

(* Where a pass begins, goes on to the next firewall, sets labels, or ends. *)
LEMMA PassStepQuiet ==
    ASSUME RequestInv, NEW c \in Controllers,
           \/ Begin(c) \/ Related(c) \/ CloseCluster(c) \/ FenceGap(c)
           \/ ReadEligible(c) \/ SetEligible(c) \/ Crash(c)
    PROVE  RequestInv'
<1>1. ctl = [d \in Controllers |-> ctl[d]] /\ PassOK(ctl[c])
  BY DEF RequestInv, RelationTypeOK
<1>2. UNCHANGED <<plan, receipt, assigned, shown, wire>>
  BY DEF Begin, Related, CloseCluster, FenceGap, ReadEligible, SetEligible, Crash, owner, cloud
<1>3. CASE End(c)
  BY <1>2, <1>3, FinishIsQuiet, QuietStep
<1>4. CASE Begin(c)
  <2>1. PICK o \in plan.owners : ctl' = [ctl EXCEPT ![c].pc = "enter", ![c].o = o]
    BY <1>4, Zenon DEF Begin
  <2>2. o \in Owners
    BY PlansAssumption DEF PlanType, RequestInv, RelationTypeOK
  <2>3. ctl'[c] = [ctl[c] EXCEPT !.pc = "enter", !.o = o] /\ ctl' = [ctl EXCEPT ![c] = ctl'[c]]
    BY <1>1, <2>1, Zenon
  <2>4. Quiet(c)
    BY <1>1, <2>2, <2>3, Zenon DEF Quiet, PassOK
  <2> QED BY <1>2, <2>4, QuietStep, Zenon
<1>5. CASE Related(c)
  <2>1. CASE Leave(c, "gap") \/ Leave(c, "eligible")
    BY <1>2, <2>1, FinishIsQuiet, QuietStep
  <2>2. CASE ctl' = [ctl EXCEPT ![c] = [Idle EXCEPT !.pc = "enter", !.o = "shard"]]
    <3>1. Quiet(c)
      BY <1>1, <2>2, IdsAssumption, Zenon DEF Quiet, PassOK, Idle
    <3> QED BY <1>2, <3>1, QuietStep
  <2>3. CASE ctl' = [ctl EXCEPT ![c] = [Idle EXCEPT !.pc = "gap", !.o = ctl[c].o, !.snap = shown[ctl[c].o]]]
    <3>1. Quiet(c)
      BY <1>1, <2>3, Zenon DEF Quiet, PassOK, Idle
    <3> QED BY <1>2, <3>1, QuietStep
  <2> QED BY <1>3, <1>5, <2>1, <2>2, <2>3 DEF Related
<1>6. CASE ReadEligible(c)
  <2>1. /\ ctl'[c] = [ctl[c] EXCEPT !.pc = "label", !.snap = shown["icmp"] \cap shown["shard"]]
        /\ ctl' = [ctl EXCEPT ![c] = ctl'[c]]
    BY <1>1, <1>6, Zenon DEF ReadEligible
  <2>2. Quiet(c)
    BY <1>1, <2>1, Zenon DEF Quiet, PassOK
  <2> QED BY <1>2, <2>2, QuietStep
<1> QED BY <1>3, <1>4, <1>5, <1>6, Zenon DEF CloseCluster, FenceGap, SetEligible, Crash

LEMMA NextRequest == RequestInv /\ [Next]_vars => RequestInv'
<1> SUFFICES ASSUME RequestInv, [Next]_vars PROVE RequestInv'
  OBVIOUS
<1> USE DEF owner, nodes, cloud
<1>1. CASE UNCHANGED vars
  BY <1>1, FrameStep DEF vars
<1>2. CASE \E c \in Controllers : \/ Begin(c) \/ Related(c) \/ CloseCluster(c) \/ FenceGap(c)
                                  \/ ReadEligible(c) \/ SetEligible(c) \/ Crash(c)
  BY <1>2, PassStepQuiet
<1>3. CASE \E c \in Controllers : EnsureICMP(c) \/ EnsureShard(c) \/ EnsureService(c)
  BY <1>3, EnterStep
<1>4. CASE \E c \in Controllers : \E e \in ctl[c].todo : Relate(c, e)
  BY <1>4, RelateStep
<1>5. CASE \E c \in Controllers : Authorize(c)
  BY <1>5, AuthorizeStep
<1>6. CASE \E c \in Controllers : Dispatch(c)
  BY <1>6, DispatchStep
<1>7. CASE \E c \in Controllers : NotDispatched(c) \/ Acknowledged(c) \/ AnsweredError(c)
  BY <1>7, AnswerStep
<1>8. CASE \E r \in wire : Commit(r)
  BY <1>8, CommitStep
<1>9. CASE \E r \in wire : Lose(r)
  BY <1>9, LoseStep
<1>10. CASE \E o \in Owners : Propagate(o) \/ ReceiptAges(o) \/ ObservationAges(o)
  BY <1>10, PropagateStep, ReceiptAgesStep, ObservationAgesStep
<1>11. CASE (\E o \in Owners : PolicyChanges(o)) \/ \E o \in Owners, k \in Ops \X VMs : ParkEnds(o, k)
  BY <1>11, FrameStep DEF PolicyChanges, ParkEnds
<1>12. CASE \E c \in Controllers : \E m \in recent[c] : Forget(c, m)
  BY <1>12, FrameStep DEF Forget
<1>13. CASE \E v \in VMs : NodeChanges(v) \/ HealthChanges(v) \/ OwnershipChanges(v)
  BY <1>13, FrameStep DEF NodeChanges, HealthChanges, OwnershipChanges
<1> QED BY <1>1, <1>2, <1>3, <1>4, <1>5, <1>6, <1>7, <1>8, <1>9, <1>10, <1>11, <1>12, <1>13, Zenon
        DEF Next

(* reconcileNodeLoadBalancerFirewallRelation: however many controllers run,   *)
(* crash and restart, an owner never has two requests in flight.             *)
THEOREM RelationIsOneShot == Spec => []OneRequest
<1>1. RequestInv => OneRequest
  <2> SUFFICES ASSUME RequestInv, NEW o \in Owners PROVE Cardinality({r \in wire : r.o = o}) <= 1
    BY DEF OneRequest
  <2> DEFINE W == {r \in wire : r.o = o}
             q == [o |-> o, op |-> receipt[o].op, vm |-> receipt[o].vm, id |-> receipt[o].id]
  <2>1. W \in SUBSET {q}
    BY DEF RequestInv, WireInv
  <2>2. IsFiniteSet({q}) /\ Cardinality({q}) = 1
    BY FS_Singleton, Zenon
  <2> HIDE DEF W, q
  <2>3. Cardinality(W) <= 1
    BY <2>1, <2>2, FS_Subset
  <2> QED BY <2>3 DEF W
<1> QED BY <1>1, Init_RequestInv, NextRequest, PTL DEF Spec
=============================================================================
