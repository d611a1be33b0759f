---------------------------- MODULE PayoutsProofs ----------------------------
(***************************************************************************)
(* What a store's payouts promise, for any number of requests, payouts and *)
(* transfers, any minimum and any faults: a settled payout has its         *)
(* evidence at Omise (SettledOnEvidence), and of the handlers that retry a *)
(* payout without a transfer only one calls Omise (ClaimIsExclusive).      *)
(* Where no webhook overlaps another handler, the payouts stay within what *)
(* the store earned (NoOverdraft); where moreover nobody retries an orphan *)
(* that another handler is posting, one payout of a rail is under way and  *)
(* decisions stay.                                                         *)
(***************************************************************************)
EXTENDS Payouts, FiniteSetTheorems, WellFoundedInduction, TLAPS

(* What the requests may do beside each other.                             *)
OneRequest == \A r, q \in Req : r = q
NoLateWebhook == OneRequest \/ "webhook" \notin Handlers
NoRetries == OneRequest \/ Handlers \cap {"request", "trigger", "webhook"} = {}

Exists(p) == p \in PayoutId /\ payout[p].status # "none"

(* Handlers that hold a payout of the Omise rail, those that hold its      *)
(* loaded row as well, and those of them that save it next.                *)
Claiming(j) == j.at \in {"claimedPost", "claimedSave"}
Posting(j) == Claiming(j) \/ j.at = "postSave" \/ (j.at = "post" /\ j.payout # None)
Hearing(j) == j.at \in {"refetch", "webhookSave"}
Holding(j) == Posting(j) \/ Hearing(j)

(* A row that does not exist is empty, and only payouts of the Omise rail  *)
(* have transfers.                                                         *)
RowsOK ==
    \A p \in PayoutId :
        /\ payout[p].status = "none" => payout[p] = NoRow
        /\ payout[p].transferReference # None => Exists(p) /\ payout[p].settlementRail = "omise"

(* What is settled at Omise has its transfer.                              *)
EvidenceOK ==
    \A p \in PayoutId :
        payout[p].settlementRail = "omise" /\ payout[p].status \in {"completed", "failed"} =>
            payout[p].transferReference \in TransferId

(* A loaded row is the payout's, whose rail and amount never change; a row *)
(* to be saved as completed has its transfer's payment, and what a webhook *)
(* was told or has fetched is so.                                          *)
JobKnows(j) ==
    /\ j.at \in {"submit", "claim"} \/ Holding(j) =>
          Exists(j.payout) /\ payout[j.payout].settlementRail = "omise"
    /\ j.at \in {"settle", "reject"} =>
          Exists(j.payout) /\ payout[j.payout].settlementRail = "manual"
    /\ j.at \in {"create", "summary"} => j.payout = None
    /\ Holding(j) =>
          j.row.settlementRail = "omise" /\ j.row.amount = payout[j.payout].amount
    /\ Posting(j) => j.row.status \in {"pending", "processing", "completed"}
    /\ j.at = "postSave" => j.row.status # "pending"
    /\ j.at \in {"postSave", "claimedSave"} /\ j.row.status = "completed" =>
          j.row.transferReference \in TransferId /\ transfer[j.row.transferReference].state = "paid"
    /\ Hearing(j) =>
          /\ j.transfer \in TransferId /\ j.row.transferReference = j.transfer
          /\ j.event = "pay" => transfer[j.transfer].state = "paid"
          /\ j.event = "fail" => transfer[j.transfer].state = "failed"
    /\ j.at = "webhookSave" =>
          /\ j.fetched = "paid" => transfer[j.transfer].state = "paid"
          /\ j.fetched = "failed" => transfer[j.transfer].state = "failed"

JobsKnow == \A r \in Req : JobKnows(job[r])

PayInv == TypeOK /\ RowsOK /\ EvidenceOK /\ SettledOnEvidence /\ JobsKnow

(* Who a handler is: only webhooks hear of a transfer, and only a request  *)
(* or a trigger retries an orphan.                                         *)
OpOK(j) ==
    /\ j.at # "idle" => j.op \in Handlers
    /\ Hearing(j) => j.op = "webhook"
    /\ j.at \in {"summary", "submit", "claim", "claimedPost", "claimedSave"} => j.op \in {"request", "trigger"}

OpsOK == \A r \in Req : OpOK(job[r])

(* Payouts within what was earned, and the rows that handlers will save    *)
(* still count.                                                            *)
MoneyInv ==
    /\ NoOverdraft
    /\ \A rail \in PayoutSettlementRail : earned[rail] <= peak[rail]
    /\ \A r \in Req : Holding(job[r]) => payout[job[r].payout].status # "failed"

(* One payout of a rail is pending; who holds one holds that, alone.       *)
PendingInv ==
    /\ \A rail \in PayoutSettlementRail : \A p, q \in InRail(rail, PENDING_STATUSES) : p = q
    /\ \A r \in Req : Holding(job[r]) =>
          /\ payout[job[r].payout].status \in PENDING_STATUSES
          /\ \A q \in Req : Holding(job[q]) /\ job[q].payout = job[r].payout => q = r

(* A claimed payout is no longer pending, and has one claimer.             *)
ClaimInv ==
    /\ ClaimIsExclusive
    /\ \A r \in Req : Claiming(job[r]) => payout[job[r].payout].status # "pending"

-----------------------------------------------------------------------------
(* Sums.  MapThenSumSet is a recursive function on the subsets of a set:   *)
(* h is one for f over S.                                                  *)
One(s) == CHOOSE x \in s : TRUE
IsSum(h, f, S) == h = [s \in SUBSET S |-> IF s = {} THEN 0 ELSE f[One(s)] + h[s \ {One(s)}]]
SumOver(f, S) == MapThenSumSet(LAMBDA p : f[p], S)

(* A set of numbers that is not empty has a least one.                     *)
LEMMA LeastNumber ==
  ASSUME NEW T \in SUBSET Nat, T # {}
  PROVE  \E x \in T : \A y \in T : x <= y
<1>1. PICK R : R = {ss \in Nat \X Nat : ss[1] < ss[2]} OBVIOUS
<1>2. IsWellFoundedOn({ss \in Nat \X Nat : ss[1] < ss[2]}, Nat) BY NatLessThanWellFounded DEF OpToRel
<1>3. IsWellFoundedOn(R, Nat) BY <1>1, <1>2
<1>4. PICK x \in T : \A y \in T : ~(<<y, x>> \in R) BY <1>3, WFMin
<1>5. \A y \in T : ~(y < x) BY <1>1, <1>4
<1> QED BY <1>5

(* Of the subsets of S in a family that is not empty, one has none with    *)
(* an element less in the family.                                          *)
LEMMA LeastSubset ==
  ASSUME NEW S, IsFiniteSet(S), NEW B \in SUBSET SUBSET S, B # {}
  PROVE  \E t \in B : \A x \in t : t \ {x} \notin B
<1>1. \A t \in SUBSET S : IsFiniteSet(t) /\ Cardinality(t) \in Nat
  BY FS_Subset, FS_CardinalityType
<1>2. PICK C : C = {Cardinality(t) : t \in B}  OBVIOUS
<1>3. PICK n \in C : \A m \in C : n <= m
  <2>1. C \in SUBSET Nat /\ C # {}  BY <1>1, <1>2
  <2> QED BY <2>1, LeastNumber
<1>4. PICK t \in B : Cardinality(t) = n  BY <1>2, <1>3
<1>5. ASSUME NEW x \in t, t \ {x} \in B PROVE FALSE
  <2>1. Cardinality(t \ {x}) = Cardinality(t) - 1
    BY <1>1, FS_RemoveElement
  <2>2. n <= Cardinality(t \ {x})  BY <1>2, <1>3, <1>5
  <2> QED BY <1>1, <1>4, <2>1, <2>2
<1> QED BY <1>5

(* The element taken of a set is of it.                                    *)
LEMMA OneIsOf == ASSUME NEW s, s # {} PROVE One(s) \in s
  BY DEF One

(* Over a subset, two sums agree.                                          *)
LEMMA SumUnique ==
  ASSUME NEW f, NEW S, IsFiniteSet(S), NEW T \in SUBSET S, NEW g, NEW h,
         IsSum(g, f, S), IsSum(h, f, T)
  PROVE  \A t \in SUBSET T : g[t] = h[t]
<1>1. SUFFICES ASSUME {t \in SUBSET T : g[t] # h[t]} # {} PROVE FALSE  OBVIOUS
<1>2. PICK t \in {u \in SUBSET T : g[u] # h[u]} :
         \A x \in t : t \ {x} \notin {u \in SUBSET T : g[u] # h[u]}
  BY <1>1, LeastSubset, FS_Subset
<1>3. g[t] = IF t = {} THEN 0 ELSE f[One(t)] + g[t \ {One(t)}]  BY <1>2 DEF IsSum
<1>4. h[t] = IF t = {} THEN 0 ELSE f[One(t)] + h[t \ {One(t)}]  BY <1>2 DEF IsSum
<1>5. t # {} => g[t \ {One(t)}] = h[t \ {One(t)}]  BY <1>2, OneIsOf
<1> QED BY <1>2, <1>3, <1>4, <1>5

(* Every finite set has a sum: the least subset without one would get it   *)
(* from the sum without its element.                                       *)
LEMMA SumExists ==
  ASSUME NEW f, NEW S, IsFiniteSet(S)
  PROVE  \E h : IsSum(h, f, S)
<1>1. SUFFICES ASSUME ~\E h : IsSum(h, f, S) PROVE FALSE  OBVIOUS
<1> DEFINE B == {t \in SUBSET S : ~\E h : IsSum(h, f, t)}
<1>2. S \in B  BY <1>1
<1>3. PICK t \in B : \A x \in t : t \ {x} \notin B
  BY <1>2, LeastSubset
<1>4. ASSUME NEW u \in SUBSET t, u # t PROVE \E h : IsSum(h, f, u)
  <2>1. PICK x \in t : x \notin u  BY <1>4
  <2>2. t \ {x} \in SUBSET S /\ u \in SUBSET (t \ {x})  BY <1>3, <2>1
  <2>3. PICK h : IsSum(h, f, t \ {x})  BY <1>3, <2>2
  <2>4. PICK k : k = [s \in SUBSET u |-> h[s]]  OBVIOUS
  <2>5. ASSUME NEW s \in SUBSET u
        PROVE  h[s] = IF s = {} THEN 0 ELSE f[One(s)] + h[s \ {One(s)}]
    BY <2>2, <2>3 DEF IsSum
  <2>6. ASSUME NEW s \in SUBSET u
        PROVE  h[s] = IF s = {} THEN 0 ELSE f[One(s)] + k[s \ {One(s)}]
    BY <2>4, <2>5
  <2>7. k = [s \in SUBSET u |-> IF s = {} THEN 0 ELSE f[One(s)] + k[s \ {One(s)}]]
    BY <2>4, <2>6
  <2> QED BY <2>7 DEF IsSum
<1> DEFINE H(u) == CHOOSE h : IsSum(h, f, u)
           V(u) == H(u)[u]
<1>5. ASSUME NEW u \in SUBSET t, u # t, NEW v \in SUBSET u
      PROVE  H(u)[v] = V(v)
  <2>1. IsSum(H(u), f, u)  BY <1>4, <1>5
  <2>2. IsSum(H(v), f, v)  BY <1>4, <1>5
  <2>3. IsFiniteSet(u)  BY <1>3, <1>5, FS_Subset
  <2> HIDE DEF H
  <2> QED BY <2>1, <2>2, <2>3, SumUnique
<1>6. ASSUME NEW u \in SUBSET t, u # t
      PROVE  V(u) = IF u = {} THEN 0 ELSE f[One(u)] + V(u \ {One(u)})
  <2>1. IsSum(H(u), f, u)  BY <1>4, <1>6
  <2> HIDE DEF H
  <2>2. H(u)[u] = IF u = {} THEN 0 ELSE f[One(u)] + H(u)[u \ {One(u)}]
    BY <2>1 DEF IsSum
  <2>3. H(u)[u \ {One(u)}] = V(u \ {One(u)})  BY <1>5, <1>6
  <2> QED BY <2>2, <2>3
<1> HIDE DEF V
<1> DEFINE g == [s \in SUBSET t |-> IF s = {} THEN 0 ELSE f[One(s)] + V(s \ {One(s)})]
<1>7. ASSUME NEW s \in SUBSET t, s # {} PROVE g[s \ {One(s)}] = V(s \ {One(s)})
  <2>1. s \ {One(s)} \in SUBSET t /\ s \ {One(s)} # t  BY <1>7, OneIsOf
  <2> QED BY <2>1, <1>6
<1>8. g = [s \in SUBSET t |-> IF s = {} THEN 0 ELSE f[One(s)] + g[s \ {One(s)}]]
  BY <1>7
<1>9. IsSum(g, f, t)  BY <1>8 DEF IsSum
<1> QED BY <1>3, <1>9

(* A sum takes one element after the other.                                *)
LEMMA SumUnfolds ==
  ASSUME NEW f, NEW S, IsFiniteSet(S)
  PROVE  SumOver(f, S) = IF S = {} THEN 0 ELSE f[One(S)] + SumOver(f, S \ {One(S)})
<1> DEFINE H(u) == CHOOSE h : IsSum(h, f, u)
<1>1. \A u : SumOver(f, u) = H(u)[u]
  BY DEF SumOver, MapThenSumSet, MapThenFoldSet, One, IsSum
<1>2. IsSum(H(S), f, S)  BY SumExists
<1>3. IsSum(H(S \ {One(S)}), f, S \ {One(S)})
  <2>1. IsFiniteSet(S \ {One(S)})  BY FS_Subset
  <2> QED BY <2>1, SumExists
<1> HIDE DEF H
<1>4. H(S)[S \ {One(S)}] = H(S \ {One(S)})[S \ {One(S)}]
  BY <1>2, <1>3, SumUnique
<1>5. H(S)[S] = IF S = {} THEN 0 ELSE f[One(S)] + H(S)[S \ {One(S)}]
  BY <1>2 DEF IsSum
<1> QED BY <1>1, <1>4, <1>5

(* A sum of naturals is one.                                               *)
LEMMA SumIsNatural ==
  ASSUME NEW f, NEW S, IsFiniteSet(S), \A x \in S : f[x] \in Nat
  PROVE  SumOver(f, S) \in Nat
<1> DEFINE B == {t \in SUBSET S : SumOver(f, t) \notin Nat}
<1>1. SUFFICES ASSUME B # {} PROVE FALSE  OBVIOUS
<1>2. PICK t \in B : \A x \in t : t \ {x} \notin B
  BY <1>1, LeastSubset
<1>3. IsFiniteSet(t)  BY <1>2, FS_Subset
<1>4. t # {} => f[One(t)] \in Nat /\ SumOver(f, t \ {One(t)}) \in Nat
  BY <1>2, OneIsOf
<1>5. SumOver(f, t) = IF t = {} THEN 0 ELSE f[One(t)] + SumOver(f, t \ {One(t)})
  BY <1>3, SumUnfolds
<1>6. SumOver(f, t) \in Nat
  <2> HIDE DEF B
  <2> QED BY <1>4, <1>5
<1> QED BY <1>2, <1>6

(* Which element is taken out does not matter.                             *)
LEMMA SumWithout ==
  ASSUME NEW f, NEW S, IsFiniteSet(S), \A x \in S : f[x] \in Nat, NEW e \in S
  PROVE  SumOver(f, S) = f[e] + SumOver(f, S \ {e})
<1> DEFINE B == {t \in SUBSET S : \E x \in t : SumOver(f, t) # f[x] + SumOver(f, t \ {x})}
<1>1. SUFFICES ASSUME B # {} PROVE FALSE
  <2>1. S \notin B  BY <1>1
  <2> QED BY <2>1
<1>2. PICK t \in B : \A x \in t : t \ {x} \notin B
  BY <1>1, LeastSubset
<1>3. PICK x \in t : SumOver(f, t) # f[x] + SumOver(f, t \ {x})  BY <1>2
<1>4. PICK y \in t : y = One(t)  BY <1>3, OneIsOf
<1>5. IsFiniteSet(t) /\ IsFiniteSet(t \ {x}) /\ IsFiniteSet(t \ {y}) /\ IsFiniteSet((t \ {x}) \ {y})
  BY <1>2, FS_Subset
<1>6. SumOver(f, t) = f[y] + SumOver(f, t \ {y})
  BY <1>3, <1>4, <1>5, SumUnfolds
<1>7. x # y  BY <1>3, <1>6
<1>8. SumOver(f, t \ {y}) = f[x] + SumOver(f, (t \ {y}) \ {x})
  BY <1>2, <1>3, <1>4, <1>7
<1>9. SumOver(f, t \ {x}) = f[y] + SumOver(f, (t \ {x}) \ {y})
  BY <1>2, <1>3, <1>4, <1>7
<1>10. (t \ {x}) \ {y} = (t \ {y}) \ {x}  OBVIOUS
<1>11. SumOver(f, (t \ {x}) \ {y}) \in Nat
  BY <1>2, <1>5, SumIsNatural
<1>12. f[x] \in Nat /\ f[y] \in Nat  BY <1>2, <1>3, <1>4
<1> HIDE DEF B
<1>13. SumOver(f, t) = f[x] + SumOver(f, t \ {x})
  BY <1>6, <1>8, <1>9, <1>10, <1>11, <1>12
<1> QED BY <1>3, <1>13

(* Sums of what agrees agree.                                              *)
LEMMA SumAgrees ==
  ASSUME NEW f, NEW g, NEW S, IsFiniteSet(S), \A x \in S : f[x] = g[x]
  PROVE  SumOver(f, S) = SumOver(g, S)
<1> DEFINE B == {t \in SUBSET S : SumOver(f, t) # SumOver(g, t)}
<1>1. SUFFICES ASSUME B # {} PROVE FALSE
  <2>1. S \notin B  BY <1>1
  <2> QED BY <2>1
<1>2. PICK t \in B : \A x \in t : t \ {x} \notin B
  BY <1>1, LeastSubset
<1>3. IsFiniteSet(t)  BY <1>2, FS_Subset
<1>4. t # {} => /\ f[One(t)] = g[One(t)]
                /\ SumOver(f, t \ {One(t)}) = SumOver(g, t \ {One(t)})
  BY <1>2, OneIsOf
<1>5. SumOver(f, t) = IF t = {} THEN 0 ELSE f[One(t)] + SumOver(f, t \ {One(t)})
  BY <1>3, SumUnfolds
<1>6. SumOver(g, t) = IF t = {} THEN 0 ELSE g[One(t)] + SumOver(g, t \ {One(t)})
  BY <1>3, SumUnfolds
<1>7. SumOver(f, t) = SumOver(g, t)
  <2> HIDE DEF B
  <2> QED BY <1>4, <1>5, <1>6
<1> QED BY <1>2, <1>7

(* A part does not sum to more.                                            *)
LEMMA SumOfPart ==
  ASSUME NEW f, NEW S, IsFiniteSet(S), \A x \in S : f[x] \in Nat, NEW T \in SUBSET S
  PROVE  SumOver(f, T) <= SumOver(f, S)
<1> DEFINE B == {t \in SUBSET S : T \subseteq t /\ ~(SumOver(f, T) <= SumOver(f, t))}
<1>1. SUFFICES ASSUME B # {} PROVE FALSE
  <2>1. S \notin B  BY <1>1
  <2> QED BY <2>1
<1>0. B \in SUBSET SUBSET S  OBVIOUS
<1>2. PICK t \in B : \A x \in t : t \ {x} \notin B
  <2> HIDE DEF B
  <2> QED BY <1>0, <1>1, LeastSubset
<1>3. IsFiniteSet(t) /\ IsFiniteSet(T)  BY <1>2, FS_Subset
<1>4. SumOver(f, t) \in Nat /\ SumOver(f, T) \in Nat  BY <1>2, <1>3, SumIsNatural
<1>5. t # T  BY <1>2, <1>4
<1>6. PICK x \in t : x \notin T  BY <1>2, <1>5
<1>7. SumOver(f, t) = f[x] + SumOver(f, t \ {x})  BY <1>2, <1>3, <1>6, SumWithout
<1>8. IsFiniteSet(t \ {x})  BY <1>3, FS_Subset
<1>9. SumOver(f, t \ {x}) \in Nat /\ f[x] \in Nat  BY <1>2, <1>6, <1>8, SumIsNatural
<1>10. SumOver(f, T) <= SumOver(f, t \ {x})  BY <1>2, <1>6
<1> HIDE DEF B
<1>11. SumOver(f, T) <= SumOver(f, t)  BY <1>4, <1>7, <1>9, <1>10
<1> QED BY <1>2, <1>11 DEF B

Amounts(table) == [p \in PayoutId |-> table[p].amount]

(* The sums that Payouts takes are these.                                  *)
LEMMA SumOfAmounts ==
  ASSUME NEW table, NEW S \in SUBSET PayoutId, IsFiniteSet(S)
  PROVE  MapThenSumSet(LAMBDA p : table[p].amount, S) = SumOver(Amounts(table), S)
<1> DEFINE Is(h) == h = [s \in SUBSET S |-> IF s = {} THEN 0 ELSE table[One(s)].amount + h[s \ {One(s)}]]
           g == CHOOSE h : Is(h)
<1>1. MapThenSumSet(LAMBDA p : table[p].amount, S) = g[S]
  BY DEF MapThenSumSet, MapThenFoldSet, One
<1>2. \A s \in SUBSET S : s # {} => Amounts(table)[One(s)] = table[One(s)].amount
  BY OneIsOf DEF Amounts
<1>3. \A h : Is(h) <=> IsSum(h, Amounts(table), S)
  BY <1>2 DEF IsSum
<1>4. PICK k : IsSum(k, Amounts(table), S)  BY SumExists
<1>5. Is(g)
  <2>1. \E h : Is(h)  BY <1>3, <1>4
  <2> HIDE DEF Is
  <2> QED BY <2>1
<1>6. IsSum(g, Amounts(table), S)  BY <1>3, <1>5
<1> HIDE DEF g, Is
<1>7. SumOver(Amounts(table), S) = (CHOOSE h : IsSum(h, Amounts(table), S))[S]
  BY DEF SumOver, MapThenSumSet, MapThenFoldSet, One, IsSum
<1>8. IsSum((CHOOSE h : IsSum(h, Amounts(table), S)), Amounts(table), S)
  BY <1>4
<1> DEFINE c == CHOOSE h : IsSum(h, Amounts(table), S)
<1>9. IsSum(c, Amounts(table), S)  BY <1>8
<1> HIDE DEF c
<1>10. c[S] = g[S]  BY <1>6, <1>9, SumUnique
<1> QED BY <1>1, <1>7, <1>10 DEF c

-----------------------------------------------------------------------------
(* The totals of a rail are natural, and what is available is what the     *)
(* earned leaves.                                                          *)
LEMMA Totals ==
  ASSUME PayoutsAssumption, TypeOK, NEW rail \in PayoutSettlementRail
  PROVE  /\ \A S : IsFiniteSet(InRail(rail, S))
         /\ calculateTotalPaidOut(rail) = SumOver(Amounts(payout), InRail(rail, PAID_OUT_STATUSES))
         /\ calculateTotalPaidOut(rail) \in Nat
         /\ calculatePendingPayoutAmount(rail) \in Nat
         /\ AvailableBalance(rail) \in Nat
         /\ AvailableBalance(rail) > 0 =>
               calculateTotalPaidOut(rail) + AvailableBalance(rail) = earned[rail]
<1>1. IsFiniteSet(PayoutId)
  BY FS_Interval DEF PayoutsAssumption, PayoutId
<1>2. \A S : InRail(rail, S) \in SUBSET PayoutId /\ IsFiniteSet(InRail(rail, S))
  BY <1>1, FS_Subset DEF InRail
<1>3. \A p \in PayoutId : Amounts(payout)[p] \in Nat
  BY DEF Amounts, TypeOK, Payout
<1>4. ASSUME NEW S PROVE SumOver(Amounts(payout), InRail(rail, S)) \in Nat
  BY <1>2, <1>3, SumIsNatural
<1>5. calculateTotalPaidOut(rail) = SumOver(Amounts(payout), InRail(rail, PAID_OUT_STATUSES))
  BY <1>2, SumOfAmounts DEF calculateTotalPaidOut
<1>6. calculatePendingPayoutAmount(rail) = SumOver(Amounts(payout), InRail(rail, PENDING_STATUSES))
  BY <1>2, SumOfAmounts DEF calculatePendingPayoutAmount
<1>7. earned[rail] \in Nat  BY DEF TypeOK, PayoutsAssumption
<1> QED BY <1>2, <1>4, <1>5, <1>6, <1>7 DEF AvailableBalance

(* Fewer payouts of the same amounts are not more.                         *)
LEMMA TotalFalls ==
  ASSUME PayoutsAssumption, TypeOK, payout' \in [PayoutId -> Payout],
         NEW rail \in PayoutSettlementRail,
         InRail(rail, PAID_OUT_STATUSES)' \subseteq InRail(rail, PAID_OUT_STATUSES),
         \A p \in InRail(rail, PAID_OUT_STATUSES)' : payout'[p].amount = payout[p].amount
  PROVE  /\ calculateTotalPaidOut(rail)' \in Nat
         /\ calculateTotalPaidOut(rail)' <= calculateTotalPaidOut(rail)
<1> DEFINE S == InRail(rail, PAID_OUT_STATUSES)
           T == InRail(rail, PAID_OUT_STATUSES)'
<1>1. IsFiniteSet(S) /\ calculateTotalPaidOut(rail) = SumOver(Amounts(payout), S)
  BY Totals
<1>2. T \in SUBSET S /\ S \in SUBSET PayoutId /\ T \in SUBSET PayoutId /\ IsFiniteSet(T)
  BY <1>1, FS_Subset DEF InRail
<1>3. calculateTotalPaidOut(rail)' = SumOver(Amounts(payout'), T)
  <2>1. calculateTotalPaidOut(rail)' = MapThenSumSet(LAMBDA p : payout'[p].amount, T)
    BY DEF calculateTotalPaidOut, MapThenSumSet, MapThenFoldSet
  <2>2. MapThenSumSet(LAMBDA p : payout'[p].amount, T) = SumOver(Amounts(payout'), T)
    BY <1>2, SumOfAmounts
  <2> QED BY <2>1, <2>2
<1>4. \A p \in T : Amounts(payout')[p] = Amounts(payout)[p]
  BY <1>2 DEF Amounts
<1> HIDE DEF S, T
<1>5. SumOver(Amounts(payout'), T) = SumOver(Amounts(payout), T)
  BY <1>2, <1>4, SumAgrees
<1>6. \A p \in PayoutId : Amounts(payout)[p] \in Nat
  BY DEF Amounts, TypeOK, Payout
<1>7. SumOver(Amounts(payout), T) <= SumOver(Amounts(payout), S)
  BY <1>1, <1>2, <1>6, SumOfPart
<1>8. SumOver(Amounts(payout), T) \in Nat  BY <1>2, <1>6, SumIsNatural
<1> QED BY <1>1, <1>3, <1>5, <1>7, <1>8

(* One payout more is its amount more.                                     *)
LEMMA TotalRises ==
  ASSUME PayoutsAssumption, TypeOK, payout' \in [PayoutId -> Payout],
         NEW rail \in PayoutSettlementRail, NEW p \in PayoutId,
         p \notin InRail(rail, PAID_OUT_STATUSES),
         InRail(rail, PAID_OUT_STATUSES)' = InRail(rail, PAID_OUT_STATUSES) \cup {p},
         \A q \in InRail(rail, PAID_OUT_STATUSES) : payout'[q].amount = payout[q].amount
  PROVE  calculateTotalPaidOut(rail)' = calculateTotalPaidOut(rail) + payout'[p].amount
<1> DEFINE S == InRail(rail, PAID_OUT_STATUSES)
           T == InRail(rail, PAID_OUT_STATUSES)'
<1>1. IsFiniteSet(S) /\ calculateTotalPaidOut(rail) = SumOver(Amounts(payout), S)
  BY Totals
<1>2. T = S \cup {p} /\ p \in T /\ p \notin S /\ S \in SUBSET PayoutId /\ T \in SUBSET PayoutId
  BY DEF InRail
<1>3. IsFiniteSet(T)  BY <1>1, <1>2, FS_AddElement
<1>4. calculateTotalPaidOut(rail)' = SumOver(Amounts(payout'), T)
  <2>1. calculateTotalPaidOut(rail)' = MapThenSumSet(LAMBDA q : payout'[q].amount, T)
    BY DEF calculateTotalPaidOut, MapThenSumSet, MapThenFoldSet
  <2>2. MapThenSumSet(LAMBDA q : payout'[q].amount, T) = SumOver(Amounts(payout'), T)
    BY <1>2, <1>3, SumOfAmounts
  <2> QED BY <2>1, <2>2
<1>5. \A q \in S : Amounts(payout')[q] = Amounts(payout)[q]
  BY <1>2 DEF Amounts
<1>6. \A q \in T : Amounts(payout')[q] \in Nat
  BY <1>2 DEF Amounts, Payout
<1>7. \A q \in S : Amounts(payout)[q] \in Nat
  BY <1>2 DEF Amounts, Payout, TypeOK
<1> HIDE DEF S, T
<1>8. T \ {p} = S  BY <1>2
<1>9. SumOver(Amounts(payout'), T) = Amounts(payout')[p] + SumOver(Amounts(payout'), S)
  BY <1>2, <1>3, <1>6, <1>8, SumWithout
<1>10. SumOver(Amounts(payout'), S) = SumOver(Amounts(payout), S)
  BY <1>1, <1>5, SumAgrees
<1>11. SumOver(Amounts(payout), S) \in Nat  BY <1>1, <1>7, SumIsNatural
<1>12. Amounts(payout')[p] = payout'[p].amount  BY DEF Amounts
<1>13. payout'[p].amount \in Nat  BY DEF Payout
<1> QED BY <1>1, <1>4, <1>9, <1>10, <1>11, <1>12, <1>13

-----------------------------------------------------------------------------
(* Evidence: PayInv, for any handlers beside each other                    *)

(* What no step undoes: rows keep their rail and amount, Omise its verdict. *)
Stable ==
    /\ \A p \in PayoutId : Exists(p) =>
          /\ payout'[p].status # "none"
          /\ payout'[p].settlementRail = payout[p].settlementRail
          /\ payout'[p].amount = payout[p].amount
    /\ \A t \in TransferId : transfer[t].state \in {"paid", "failed"} =>
          transfer'[t].state = transfer[t].state

(* Payouts and transfers are numbered from one, None is none of them.      *)
LEMMA NumbersAreNatural ==
  ASSUME PayoutsAssumption
  PROVE  /\ PayoutId \subseteq Nat /\ TransferId \subseteq Nat
         /\ None \notin PayoutId /\ None \notin TransferId
  BY DEF PayoutsAssumption, PayoutId, TransferId, None

(* A slot without a handler is a job that holds nothing.                   *)
LEMMA IdleIsJob == Idle \in Job /\ JobKnows(Idle) /\ Idle.at = "idle" /\ ~Holding(Idle)
  BY DEF Idle, Job, NoRow, Payout, JobKnows, Holding, Posting, Claiming, Hearing, AllHandlers, PayoutStatus,
       PayoutSettlementRail

(* At first there are no rows and no handlers.                             *)
LEMMA PayInit == ASSUME PayoutsAssumption PROVE Init => PayInv
<1> SUFFICES ASSUME Init PROVE PayInv  OBVIOUS
<1>1. NoRow \in Payout /\ NoRow.status = "none" /\ NoRow.transferReference = None
  BY DEF NoRow, Payout, PayoutStatus, PayoutSettlementRail
<1>2. TypeOK
  <2>1. [state |-> "none", payout |-> None, amount |-> 0] \in Transfer  BY DEF Transfer
  <2>2. MaxEarned \in Nat /\ MaxFaults \in Nat  BY DEF PayoutsAssumption
  <2>3. payout \in [PayoutId -> Payout] /\ transfer \in [TransferId -> Transfer]
    BY <1>1, <2>1 DEF Init
  <2>4. job \in [Req -> Job]  BY IdleIsJob DEF Init
  <2>5. /\ earned \in [PayoutSettlementRail -> 0 .. MaxEarned]
        /\ peak \in [PayoutSettlementRail -> 0 .. MaxEarned]
        /\ faults \in 0 .. MaxFaults
    BY <2>2 DEF Init
  <2>6. recipient \in BOOLEAN /\ storeRecipient \in BOOLEAN  BY Zenon DEF Init
  <2> QED BY <2>3, <2>4, <2>5, <2>6 DEF TypeOK
<1>3. RowsOK /\ EvidenceOK /\ SettledOnEvidence
  BY <1>1 DEF Init, RowsOK, EvidenceOK, SettledOnEvidence
<1>4. JobsKnow
  BY IdleIsJob DEF Init, JobsKnow
<1> QED BY <1>2, <1>3, <1>4 DEF PayInv

(* What a handler knows stays so in a stable step.                         *)
LEMMA KnowsStill ==
  ASSUME Stable, NEW j, JobKnows(j)
  PROVE  JobKnows(j)'
<1>1. \A p : Exists(p) => Exists(p)' /\ payout'[p].settlementRail = payout[p].settlementRail
                       /\ payout'[p].amount = payout[p].amount
  BY DEF Stable, Exists
<1>2. \A t \in TransferId : /\ transfer[t].state = "paid" => transfer'[t].state = "paid"
                            /\ transfer[t].state = "failed" => transfer'[t].state = "failed"
  BY DEF Stable
<1> QED BY <1>1, <1>2 DEF JobKnows, Posting, Claiming, Hearing, Holding

(* A step of r that leaves the rows sound keeps PayInv.                    *)
LEMMA RequestSteps ==
  ASSUME PayInv, Stable, NEW r \in Req, NEW w \in Job, job' = [job EXCEPT ![r] = w], JobKnows(w)',
         UNCHANGED money, recipient' \in BOOLEAN, storeRecipient' \in BOOLEAN,
         payout' \in [PayoutId -> Payout], transfer' \in [TransferId -> Transfer],
         faults' \in 0 .. MaxFaults, RowsOK', EvidenceOK', SettledOnEvidence'
  PROVE  PayInv'
<1>1. TypeOK'  BY DEF PayInv, TypeOK, money
<1>2. JobsKnow'
  <2> SUFFICES ASSUME NEW q \in Req PROVE JobKnows(job[q])'
    BY DEF JobsKnow
  <2>1. CASE q = r
    <3>1. job'[q] = w  BY <2>1 DEF PayInv, TypeOK
    <3> QED BY <3>1 DEF JobKnows, Holding, Posting, Claiming, Hearing, Exists
  <2>2. CASE q # r
    <3>1. PICK j : j = job[q]  OBVIOUS
    <3>2. job'[q] = j  BY <2>2, <3>1 DEF PayInv, TypeOK
    <3>3. JobKnows(j)'  BY <3>1, KnowsStill DEF PayInv, JobsKnow
    <3> QED BY <3>2, <3>3 DEF JobKnows, Holding, Posting, Claiming, Hearing, Exists
  <2> QED BY <2>1, <2>2
<1> QED BY <1>1, <1>2 DEF PayInv

(* A step of r that reads.                                                 *)
LEMMA RequestReads ==
  ASSUME PayInv, NEW r \in Req, NEW w \in Job, job' = [job EXCEPT ![r] = w], JobKnows(w),
         UNCHANGED <<money, payout, transfer>>, recipient' \in BOOLEAN, storeRecipient' \in BOOLEAN,
         faults' \in 0 .. MaxFaults
  PROVE  PayInv'
<1>1. Stable  BY DEF Stable, Exists
<1>2. JobKnows(w)'  BY <1>1, KnowsStill
<1>3. RowsOK' /\ EvidenceOK' /\ SettledOnEvidence'
  BY DEF PayInv, RowsOK, EvidenceOK, SettledOnEvidence, Exists
<1> QED BY <1>1, <1>2, <1>3, RequestSteps DEF PayInv, TypeOK

(* A step of r that writes one payout.                                     *)
LEMMA RequestWrites ==
  ASSUME PayoutsAssumption, PayInv, NEW r \in Req, NEW w \in Job, job' = [job EXCEPT ![r] = w],
         NEW p \in PayoutId, NEW row \in Payout, payout' = [payout EXCEPT ![p] = row],
         row.status # "none",
         Exists(p) => /\ row.settlementRail = payout[p].settlementRail
                      /\ row.amount = payout[p].amount,
         row.transferReference # None => row.settlementRail = "omise",
         row.settlementRail = "omise" /\ row.status \in {"completed", "failed"} =>
            /\ row.transferReference \in TransferId
            /\ transfer[row.transferReference].state
                 = IF row.status = "completed" THEN "paid" ELSE "failed",
         JobKnows(w)',
         UNCHANGED <<money, recipient, storeRecipient, transfer, faults>>
  PROVE  PayInv'
<1>1. payout' \in [PayoutId -> Payout]  BY DEF PayInv, TypeOK
<1>2. payout'[p] = row /\ \A q \in PayoutId : q # p => payout'[q] = payout[q]
  BY DEF PayInv, TypeOK
<1>3. Stable  BY <1>2 DEF Stable, Exists
<1>4. RowsOK'
  BY <1>2 DEF PayInv, RowsOK, Exists
<1>5. EvidenceOK' /\ SettledOnEvidence'
  BY <1>2 DEF PayInv, EvidenceOK, SettledOnEvidence
<1> QED BY <1>1, <1>3, <1>4, <1>5, RequestSteps DEF PayInv, TypeOK

(* A copy of r's job is well formed, whatever of it a step changes.        *)
LEMMA JobType ==
  ASSUME PayInv, NEW r \in Req
  PROVE  job[r] \in Job /\ JobKnows(job[r])
  BY DEF PayInv, TypeOK, JobsKnow

(* The steps that start a handler.                                         *)
LEMMA PayStarts ==
  ASSUME PayoutsAssumption, PayInv, NEW r \in Req,
         \/ requestPayout(r) \/ triggerPayout(r) \/ runScheduledPayouts(r) \/ requestManualPayout(r)
         \/ resolvePendingManualPayout(r, "settle") \/ resolvePendingManualPayout(r, "reject")
         \/ \E t \in TransferId, e \in {"create", "send", "pay", "fail"} :
                 handleOmiseTransferWebhook(r, t, e)
  PROVE  PayInv'
<1>0. Idle \in Job /\ NoRow \in Payout /\ recipient \in BOOLEAN /\ storeRecipient \in BOOLEAN
      /\ faults \in 0 .. MaxFaults
  BY IdleIsJob DEF PayInv, TypeOK, NoRow, Payout, PayoutStatus, PayoutSettlementRail
<1>1. ASSUME NEW op \in {"request", "trigger"}, FindOrphan(r, op) PROVE PayInv'
  <2>1. ASSUME NEW p \in Orphans, Start(r, op, "submit", [Idle EXCEPT !.payout = p]) PROVE PayInv'
    <3>1. PICK w : w = [[Idle EXCEPT !.payout = p] EXCEPT !.at = "submit", !.op = op]  OBVIOUS
    <3>2. p \in PayoutId /\ payout[p].status = "pending" /\ payout[p].settlementRail = "omise"
      BY DEF Orphans, InRail
    <3>3. w \in Job  BY <1>0, <3>1, <3>2 DEF Idle, Job, AllHandlers
    <3>4. w.at = "submit" /\ w.payout = p  BY <3>1 DEF Idle
    <3>5. JobKnows(w)  BY <3>2, <3>4 DEF JobKnows, Holding, Posting, Claiming, Hearing, Exists
    <3>6. job' = [job EXCEPT ![r] = w]  BY <2>1, <3>1 DEF Start
    <3> QED BY <1>0, <1>1, <3>3, <3>5, <3>6, RequestReads DEF FindOrphan, store
  <2>2. ASSUME Start(r, op, "summary", Idle) PROVE PayInv'
    <3>1. PICK w : w = [Idle EXCEPT !.at = "summary", !.op = op]  OBVIOUS
    <3>2. w \in Job /\ w.at = "summary" /\ w.payout = None  BY <1>0, <3>1 DEF Idle, Job, AllHandlers
    <3>3. JobKnows(w)  BY <3>2 DEF JobKnows, Holding, Posting, Claiming, Hearing
    <3>4. job' = [job EXCEPT ![r] = w]  BY <2>2, <3>1 DEF Start
    <3> QED BY <1>0, <1>1, <3>2, <3>3, <3>4, RequestReads DEF FindOrphan, store
  <2> QED BY <1>1, <2>1, <2>2 DEF FindOrphan, IsOldest
<1>2. ASSUME runScheduledPayouts(r) PROVE PayInv'
  <2>1. PICK w : w = [[Idle EXCEPT !.amount = AvailableBalance("omise")] EXCEPT !.at = "create", !.op = "schedule"]
    OBVIOUS
  <2>2. AvailableBalance("omise") \in Nat  BY Totals DEF PayInv, PayoutSettlementRail
  <2>3. w \in Job /\ w.at = "create" /\ w.payout = None  BY <1>0, <2>1, <2>2 DEF Idle, Job, AllHandlers
  <2>4. JobKnows(w)  BY <2>3 DEF JobKnows, Holding, Posting, Claiming, Hearing
  <2>5. job' = [job EXCEPT ![r] = w]  BY <1>2, <2>1 DEF runScheduledPayouts, Start
  <2> QED BY <1>0, <1>2, <2>3, <2>4, <2>5, RequestReads DEF runScheduledPayouts, store
<1>3. ASSUME requestManualPayout(r) PROVE PayInv'
  <2>1. PICK w : w = [Idle EXCEPT !.at = "manual", !.op = "requestManual"]  OBVIOUS
  <2>2. w \in Job /\ w.at = "manual"  BY <1>0, <2>1 DEF Idle, Job, AllHandlers
  <2>3. JobKnows(w)  BY <2>2 DEF JobKnows, Holding, Posting, Claiming, Hearing
  <2>4. job' = [job EXCEPT ![r] = w]  BY <1>3, <2>1 DEF requestManualPayout, Start
  <2> QED BY <1>0, <1>3, <2>2, <2>3, <2>4, RequestReads DEF requestManualPayout, store
<1>4. ASSUME NEW op \in {"settle", "reject"}, resolvePendingManualPayout(r, op) PROVE PayInv'
  <2>1. PICK p \in InRail("manual", {"pending"}) : Start(r, op, op, [Idle EXCEPT !.payout = p])
    BY <1>4 DEF resolvePendingManualPayout
  <2>2. PICK w : w = [[Idle EXCEPT !.payout = p] EXCEPT !.at = op, !.op = op]  OBVIOUS
  <2>3. p \in PayoutId /\ payout[p].status = "pending" /\ payout[p].settlementRail = "manual"
    BY DEF InRail
  <2>4. w \in Job /\ w.at = op /\ w.payout = p  BY <1>0, <2>2, <2>3 DEF Idle, Job, AllHandlers
  <2>5. JobKnows(w)  BY <2>3, <2>4 DEF JobKnows, Holding, Posting, Claiming, Hearing, Exists
  <2>6. job' = [job EXCEPT ![r] = w]  BY <2>1, <2>2 DEF Start
  <2> QED BY <1>0, <1>4, <2>4, <2>5, <2>6, RequestReads DEF resolvePendingManualPayout, store
<1>5. ASSUME NEW t \in TransferId, NEW e \in {"create", "send", "pay", "fail"},
             handleOmiseTransferWebhook(r, t, e)
      PROVE  PayInv'
  <2>1. PICK p \in PayoutId :
          /\ payout[p].transferReference = t
          /\ payout[p].status \notin {"completed", "failed"}
          /\ Start(r, "webhook", "refetch", [Idle EXCEPT
                 !.payout = p, !.row = payout[p], !.transfer = t, !.event = e])
    BY <1>5 DEF handleOmiseTransferWebhook
  <2>2. PICK w : w = [[Idle EXCEPT !.payout = p, !.row = payout[p], !.transfer = t, !.event = e]
                        EXCEPT !.at = "refetch", !.op = "webhook"]
    OBVIOUS
  <2>3. payout[p] \in Payout  BY DEF PayInv, TypeOK
  <2>4. w \in Job  BY <1>0, <2>2, <2>3 DEF Idle, Job, AllHandlers
  <2>5. /\ w.at = "refetch" /\ w.payout = p /\ w.row = payout[p] /\ w.transfer = t /\ w.event = e
    BY <2>2 DEF Idle
  <2>6. Exists(p) /\ payout[p].settlementRail = "omise"
    BY <2>1, NumbersAreNatural DEF PayInv, RowsOK
  <2>7. e \in TransferEvents(transfer[t].state)
    BY <1>5 DEF handleOmiseTransferWebhook
  <2>8. transfer[t].state \in {"none", "created", "sent", "paid", "failed"}
    BY DEF PayInv, TypeOK, Transfer
  <2>9. /\ e = "pay" => transfer[t].state = "paid"
        /\ e = "fail" => transfer[t].state = "failed"
    BY <2>7, <2>8 DEF TransferEvents
  <2>10. JobKnows(w)
    BY <2>1, <2>5, <2>6, <2>9 DEF JobKnows, Holding, Posting, Claiming, Hearing
  <2>11. job' = [job EXCEPT ![r] = w]  BY <2>1, <2>2 DEF Start
  <2> QED BY <1>0, <1>5, <2>4, <2>10, <2>11, RequestReads DEF handleOmiseTransferWebhook, store
<1> QED BY <1>1, <1>2, <1>3, <1>4, <1>5 DEF requestPayout, triggerPayout

(* The steps that read, end or go on without a row.                        *)
LEMMA PayReads ==
  ASSUME PayoutsAssumption, PayInv, NEW r \in Req,
         \/ RequestOmise(r) \/ \E n \in 0 .. MaxEarned : TriggerOmise(r, n)
         \/ refreshStoreRecipientStatus(r, "create", "post")
         \/ refreshStoreRecipientStatus(r, "submit", "claim")
         \/ RefetchTransfer(r) \/ HandlerDies(r)
  PROVE  PayInv'
<1>0. /\ recipient \in BOOLEAN /\ storeRecipient \in BOOLEAN /\ faults \in 0 .. MaxFaults
      /\ Idle \in Job /\ JobKnows(Idle)
  BY IdleIsJob DEF PayInv, TypeOK
<1>1. ASSUME Return(r), UNCHANGED <<money, payout, transfer>>, recipient' \in BOOLEAN,
             storeRecipient' \in BOOLEAN, faults' \in 0 .. MaxFaults
      PROVE  PayInv'
  <2>1. PICK w : w = Idle  OBVIOUS
  <2> QED BY <1>0, <1>1, <2>1, RequestReads DEF Return
<1>2. ASSUME NEW n \in Nat, job[r].at = "summary", job' = [job EXCEPT ![r].at = "create", ![r].amount = n],
             UNCHANGED <<money, store, payout, transfer, faults>>
      PROVE  PayInv'
  <2>1. PICK w : w = [job[r] EXCEPT !.at = "create", !.amount = n]  OBVIOUS
  <2>2. w \in Job /\ w.at = "create" /\ w.payout = job[r].payout
    BY <2>1, JobType DEF Job
  <2>3. JobKnows(w)  BY <1>2, <2>2, JobType DEF JobKnows, Holding, Posting, Claiming, Hearing
  <2>4. job' = [job EXCEPT ![r] = w]  BY <1>2, <2>1, JobType DEF Job
  <2> QED BY <1>0, <1>2, <2>2, <2>3, <2>4, RequestReads DEF store
<1>3. CASE RequestOmise(r)
  <2>1. AvailableBalance("omise") \in Nat  BY Totals DEF PayInv, PayoutSettlementRail
  <2> QED BY <1>0, <1>1, <1>2, <1>3, <2>1 DEF RequestOmise, store, At
<1>4. ASSUME NEW n \in 0 .. MaxEarned, TriggerOmise(r, n) PROVE PayInv'
  BY <1>0, <1>1, <1>2, <1>4 DEF TriggerOmise, store, At
<1>5. ASSUME refreshStoreRecipientStatus(r, "create", "post") PROVE PayInv'
  <2>0. /\ storeRecipient' \in BOOLEAN /\ recipient' \in BOOLEAN /\ faults' \in 0 .. MaxFaults
        /\ UNCHANGED <<money, payout, transfer>>
    BY <1>0, <1>5 DEF refreshStoreRecipientStatus
  <2>1. CASE Return(r)  BY <1>1, <2>0, <2>1
  <2>2. CASE Goto(r, "post")
    <3>1. PICK w : w = [job[r] EXCEPT !.at = "post"]  OBVIOUS
    <3>2. w \in Job /\ w.at = "post" /\ w.payout = job[r].payout /\ job[r].at = "create"
      BY <1>5, <3>1, JobType DEF Job, refreshStoreRecipientStatus, At
    <3>3. JobKnows(w)
      <4>1. w.payout = None  BY <3>2, JobType DEF JobKnows
      <4> QED BY <3>2, <4>1 DEF JobKnows, Holding, Posting, Claiming, Hearing
    <3>4. job' = [job EXCEPT ![r] = w]  BY <2>2, <3>1, JobType DEF Job, Goto
    <3> QED BY <1>0, <1>5, <2>0, <3>2, <3>3, <3>4, RequestReads DEF refreshStoreRecipientStatus
  <2> QED BY <1>5, <2>1, <2>2 DEF refreshStoreRecipientStatus
<1>6. ASSUME refreshStoreRecipientStatus(r, "submit", "claim") PROVE PayInv'
  <2>0. /\ storeRecipient' \in BOOLEAN /\ recipient' \in BOOLEAN /\ faults' \in 0 .. MaxFaults
        /\ UNCHANGED <<money, payout, transfer>>
    BY <1>0, <1>6 DEF refreshStoreRecipientStatus
  <2>1. CASE Return(r)  BY <1>1, <2>0, <2>1
  <2>2. CASE Goto(r, "claim")
    <3>1. PICK w : w = [job[r] EXCEPT !.at = "claim"]  OBVIOUS
    <3>2. w \in Job /\ w.at = "claim" /\ w.payout = job[r].payout /\ job[r].at = "submit"
      BY <1>6, <3>1, JobType DEF Job, refreshStoreRecipientStatus, At
    <3>3. JobKnows(w)  BY <3>2, JobType DEF JobKnows, Holding, Posting, Claiming, Hearing
    <3>4. job' = [job EXCEPT ![r] = w]  BY <2>2, <3>1, JobType DEF Job, Goto
    <3> QED BY <1>0, <1>6, <2>0, <3>2, <3>3, <3>4, RequestReads DEF refreshStoreRecipientStatus
  <2> QED BY <1>6, <2>1, <2>2 DEF refreshStoreRecipientStatus
<1>7. ASSUME RefetchTransfer(r) PROVE PayInv'
  <2>1. CASE Return(r)  BY <1>0, <1>1, <1>7, <2>1 DEF RefetchTransfer, store
  <2>2. CASE job' = [job EXCEPT ![r].at = "webhookSave", ![r].fetched = transfer[job[r].transfer].state]
    <3>1. PICK w : w = [job[r] EXCEPT !.at = "webhookSave", !.fetched = transfer[job[r].transfer].state]
      OBVIOUS
    <3>2. job[r].at = "refetch"  BY <1>7 DEF RefetchTransfer, At
    <3>3. job[r].transfer \in TransferId
      BY <3>2, JobType DEF JobKnows, Hearing
    <3>4. transfer[job[r].transfer].state \in {"none", "created", "sent", "paid", "failed"}
      BY <3>3 DEF PayInv, TypeOK, Transfer
    <3>5. w \in Job  BY <3>1, <3>4, JobType DEF Job
    <3>6. /\ w.at = "webhookSave" /\ w.payout = job[r].payout /\ w.row = job[r].row
          /\ w.transfer = job[r].transfer /\ w.event = job[r].event
          /\ w.fetched = transfer[w.transfer].state
      BY <3>1, JobType DEF Job
    <3>7. JobKnows(w)  BY <3>2, <3>6, JobType DEF JobKnows, Holding, Posting, Claiming, Hearing
    <3>8. job' = [job EXCEPT ![r] = w]  BY <2>2, <3>1, JobType DEF Job
    <3> QED BY <1>0, <1>7, <3>5, <3>7, <3>8, RequestReads DEF RefetchTransfer, store
  <2> QED BY <1>7, <2>1, <2>2 DEF RefetchTransfer
<1>8. ASSUME HandlerDies(r) PROVE PayInv'
  <2>1. faults' \in 0 .. MaxFaults  BY <1>0, <1>8 DEF HandlerDies, PayoutsAssumption
  <2> QED BY <1>0, <1>1, <1>8, <2>1 DEF HandlerDies, store
<1> QED BY <1>3, <1>4, <1>5, <1>6, <1>7, <1>8

(* The transactions and saves of a payout row.                             *)
LEMMA PayInserts ==
  ASSUME PayoutsAssumption, PayInv, NEW r \in Req, InsertOmisePayout(r) \/ InsertManualPayout(r)
  PROVE  PayInv'
<1>0. /\ recipient \in BOOLEAN /\ storeRecipient \in BOOLEAN /\ faults \in 0 .. MaxFaults
      /\ Idle \in Job /\ JobKnows(Idle)
  BY IdleIsJob DEF PayInv, TypeOK
<1>1. ASSUME Return(r), UNCHANGED <<money, store, payout, transfer, faults>> PROVE PayInv'
  <2>1. PICK w : w = Idle  OBVIOUS
  <2> QED BY <1>0, <1>1, <2>1, RequestReads DEF Return, store
<1>2. CASE InsertOmisePayout(r)
  <2>1. PICK row : row = [status |-> "pending", settlementRail |-> "omise", amount |-> job[r].amount,
                          transferReference |-> None]
    OBVIOUS
  <2>2. row \in Payout  BY <2>1, JobType DEF Job, Payout, PayoutStatus, PayoutSettlementRail
  <2>3. ASSUME NEW p \in PayoutId, IsOldest(p, {q \in PayoutId : payout[q].status = "none"}),
               payout' = [payout EXCEPT ![p] = row],
               job' = [job EXCEPT ![r].payout = p, ![r].row = row]
        PROVE  PayInv'
    <3>1. PICK w : w = [job[r] EXCEPT !.payout = p, !.row = row]  OBVIOUS
    <3>2. w \in Job /\ w.at = "post" /\ w.payout = p /\ w.row = row
      BY <1>2, <2>2, <3>1, JobType, ZenonT(30) DEF Job, InsertOmisePayout, At
    <3>3. job' = [job EXCEPT ![r] = w]  BY <2>3, <3>1, JobType DEF Job
    <3>4. payout'[p] = row /\ ~Exists(p)
      BY <2>3 DEF PayInv, TypeOK, IsOldest, Exists
    <3>5. JobKnows(w)'
      BY <2>1, <3>2, <3>4 DEF JobKnows, Holding, Posting, Claiming, Hearing, Exists
    <3>6. UNCHANGED <<money, recipient, storeRecipient, transfer, faults>>
      BY <1>2 DEF InsertOmisePayout, store
    <3>7. row.status = "pending" /\ row.settlementRail = "omise" /\ row.transferReference = None
      BY <2>1
    <3>8. payout' = [payout EXCEPT ![p] = row]  BY <2>3
    <3> QED BY <2>2, <3>2, <3>3, <3>4, <3>5, <3>6, <3>7, <3>8, RequestWrites
  <2>4. \/ \E p \in PayoutId :
              /\ IsOldest(p, {q \in PayoutId : payout[q].status = "none"})
              /\ payout' = [payout EXCEPT ![p] = row]
              /\ job' = [job EXCEPT ![r].payout = p, ![r].row = row]
        \/ Return(r) /\ UNCHANGED payout
    BY <1>2, <2>1 DEF InsertOmisePayout
  <2>5. UNCHANGED <<money, store, transfer, faults>>  BY <1>2 DEF InsertOmisePayout
  <2> QED BY <1>1, <2>3, <2>4, <2>5
<1>3. CASE InsertManualPayout(r)
  <2>1. ASSUME NEW p \in PayoutId, IsOldest(p, {q \in PayoutId : payout[q].status = "none"}),
               payout' = [payout EXCEPT ![p] =
                     [status |-> "pending", settlementRail |-> "manual",
                      amount |-> AvailableBalance("manual"), transferReference |-> None]]
        PROVE  PayInv'
    <3>1. PICK row : row = [status |-> "pending", settlementRail |-> "manual",
                            amount |-> AvailableBalance("manual"), transferReference |-> None]
      OBVIOUS
    <3>2. AvailableBalance("manual") \in Nat  BY Totals DEF PayInv, PayoutSettlementRail
    <3>3. row \in Payout  BY <3>1, <3>2 DEF Payout, PayoutStatus, PayoutSettlementRail
    <3>4. PICK w : w = Idle  OBVIOUS
    <3>5. job' = [job EXCEPT ![r] = w]  BY <1>3, <3>4 DEF InsertManualPayout, Return
    <3>6. JobKnows(w)'
      BY <3>4, IdleIsJob DEF JobKnows, Holding, Posting, Claiming, Hearing, Idle
    <3>7. ~Exists(p)  BY <2>1 DEF IsOldest, Exists
    <3>8. UNCHANGED <<money, recipient, storeRecipient, transfer, faults>>
      BY <1>3 DEF InsertManualPayout, store
    <3>9. payout' = [payout EXCEPT ![p] = row]  BY <2>1, <3>1
    <3> QED BY <1>0, <3>1, <3>3, <3>4, <3>5, <3>6, <3>7, <3>8, <3>9, RequestWrites
  <2> QED BY <1>1, <1>3, <2>1 DEF InsertManualPayout, store
<1> QED BY <1>2, <1>3

(* A row that keeps its rail and amount is saved.                          *)
LEMMA PaySaves ==
  ASSUME PayoutsAssumption, PayInv, NEW r \in Req,
         \/ claimOrphanPayoutForSubmission(r) \/ SaveOmisePayout(r)
         \/ settleManualPayout(r) \/ rejectManualPayout(r) \/ SaveWebhook(r)
  PROVE  PayInv'
<1>0. /\ recipient \in BOOLEAN /\ storeRecipient \in BOOLEAN /\ faults \in 0 .. MaxFaults
      /\ Idle \in Job /\ JobKnows(Idle)
  BY IdleIsJob DEF PayInv, TypeOK
<1>1. ASSUME Return(r), UNCHANGED <<money, store, payout, transfer, faults>> PROVE PayInv'
  <2>1. PICK w : w = Idle  OBVIOUS
  <2> QED BY <1>0, <1>1, <2>1, RequestReads DEF Return, store
<1> DEFINE p == job[r].payout
<1>2. CASE claimOrphanPayoutForSubmission(r)
  <2>1. Exists(p) /\ payout[p].settlementRail = "omise" /\ p \in PayoutId /\ payout[p] \in Payout
    BY <1>2, JobType DEF claimOrphanPayoutForSubmission, At, JobKnows, Exists, PayInv, TypeOK
  <2>2. ASSUME payout[p].status = "pending", payout[p].transferReference = None,
               payout' = [payout EXCEPT ![p].status = "processing"],
               job' = [job EXCEPT ![r].at = "claimedPost", ![r].row = payout'[p]]
        PROVE  PayInv'
    <3>1. PICK row : row = [payout[p] EXCEPT !.status = "processing"]  OBVIOUS
    <3>2. /\ row \in Payout /\ row.status = "processing" /\ row.settlementRail = "omise"
          /\ row.amount = payout[p].amount /\ row.transferReference = None
      BY <2>1, <2>2, <3>1 DEF Payout, PayoutStatus
    <3>3. payout' = [payout EXCEPT ![p] = row] /\ payout'[p] = row
      BY <2>1, <2>2, <3>1 DEF PayInv, TypeOK
    <3>4. PICK w : w = [job[r] EXCEPT !.at = "claimedPost", !.row = row]  OBVIOUS
    <3>5. w \in Job /\ w.at = "claimedPost" /\ w.payout = p /\ w.row = row
      BY <3>2, <3>4, JobType, ZenonT(30) DEF Job
    <3>6. job' = [job EXCEPT ![r] = w]  BY <2>2, <3>3, <3>4, JobType DEF Job
    <3>7. JobKnows(w)'
      BY <2>1, <3>2, <3>3, <3>5 DEF JobKnows, Holding, Posting, Claiming, Hearing, Exists
    <3>8. UNCHANGED <<money, recipient, storeRecipient, transfer, faults>>
      BY <1>2 DEF claimOrphanPayoutForSubmission, store
    <3> HIDE DEF p
    <3> QED BY <2>1, <3>2, <3>3, <3>5, <3>6, <3>7, <3>8, RequestWrites
  <2> QED BY <1>1, <1>2, <2>2 DEF claimOrphanPayoutForSubmission, store
<1> DEFINE w == Idle
<1>3. JobKnows(w)'
  BY IdleIsJob DEF JobKnows, Holding, Posting, Claiming, Hearing, Idle
<1>4. ASSUME NEW row \in Payout, Exists(p), Return(r), payout' = [payout EXCEPT ![p] = row],
             row.status # "none", row.settlementRail = payout[p].settlementRail,
             row.amount = payout[p].amount,
             row.transferReference # None => row.settlementRail = "omise",
             row.settlementRail = "omise" /\ row.status \in {"completed", "failed"} =>
                /\ row.transferReference \in TransferId
                /\ transfer[row.transferReference].state
                     = IF row.status = "completed" THEN "paid" ELSE "failed",
             UNCHANGED <<money, store, transfer, faults>>
      PROVE  PayInv'
  <2>1. PICK v : v = Idle  OBVIOUS
  <2>2. v \in Job /\ JobKnows(v)' /\ job' = [job EXCEPT ![r] = v]
    BY <1>0, <1>3, <1>4, <2>1 DEF Return, w
  <2>3. p \in PayoutId  BY <1>4 DEF Exists
  <2>4. UNCHANGED <<money, recipient, storeRecipient, transfer, faults>>  BY <1>4 DEF store
  <2> HIDE DEF p
  <2> QED BY <1>4, <2>2, <2>3, <2>4, RequestWrites
<1>5. CASE SaveOmisePayout(r)
  <2>1. job[r].at \in {"postSave", "claimedSave"}  BY <1>5 DEF SaveOmisePayout, At
  <2>2. PICK row : row = job[r].row  OBVIOUS
  <2>3. /\ Exists(p) /\ payout[p].settlementRail = "omise" /\ row.settlementRail = "omise"
        /\ row.amount = payout[p].amount /\ row.status \in {"pending", "processing", "completed"}
        /\ row.status = "completed" =>
              row.transferReference \in TransferId /\ transfer[row.transferReference].state = "paid"
    BY <2>1, <2>2, JobType DEF JobKnows, Holding, Posting, Claiming
  <2>4. row \in Payout  BY <2>2, JobType DEF Job
  <2>5. payout' = [payout EXCEPT ![p] = row] /\ Return(r) /\ UNCHANGED <<money, store, transfer, faults>>
    BY <1>5, <2>2 DEF SaveOmisePayout
  <2> HIDE DEF p, w
  <2> QED BY <1>4, <2>3, <2>4, <2>5
<1>6. ASSUME NEW at \in {"settle", "reject"}, NEW status \in {"completed", "failed"},
             DecideManual(r, at, status)
      PROVE  PayInv'
  <2>1. Exists(p) /\ payout[p].settlementRail = "manual" /\ p \in PayoutId /\ payout[p] \in Payout
    BY <1>6, JobType DEF DecideManual, At, JobKnows, Exists, PayInv, TypeOK
  <2>2. Return(r) /\ UNCHANGED <<money, store, transfer, faults>>  BY <1>6 DEF DecideManual
  <2>3. CASE payout[p].status = "pending"
    <3>1. PICK row : row = [payout[p] EXCEPT !.status = status]  OBVIOUS
    <3>2. /\ row \in Payout /\ row.status = status /\ row.settlementRail = "manual"
          /\ row.amount = payout[p].amount /\ row.transferReference = payout[p].transferReference
      BY <2>1, <3>1 DEF Payout, PayoutStatus
    <3>3. row.transferReference = None  BY <2>1, <3>2 DEF PayInv, RowsOK
    <3>4. payout' = [payout EXCEPT ![p] = row]
      BY <1>6, <2>1, <2>3, <3>1 DEF DecideManual, PayInv, TypeOK
    <3> HIDE DEF p, w
    <3> QED BY <1>4, <2>1, <2>2, <3>2, <3>3, <3>4
  <2>4. CASE payout[p].status # "pending"
    <3>1. payout' = payout  BY <1>6, <2>4 DEF DecideManual
    <3> QED BY <1>1, <2>2, <3>1 DEF store
  <2> QED BY <2>3, <2>4
<1>7. CASE SaveWebhook(r)
  <2>1. PICK status : status = OutcomeOf(job[r].event, job[r].fetched)  OBVIOUS
  <2>2. job[r].at = "webhookSave" /\ Return(r) /\ UNCHANGED <<money, store, transfer, faults>>
    BY <1>7 DEF SaveWebhook, At
  <2>3. /\ Exists(p) /\ payout[p].settlementRail = "omise" /\ job[r].row.settlementRail = "omise"
        /\ job[r].row.amount = payout[p].amount
        /\ job[r].transfer \in TransferId /\ job[r].row.transferReference = job[r].transfer
        /\ job[r].event = "pay" \/ job[r].fetched = "paid" => transfer[job[r].transfer].state = "paid"
        /\ job[r].event = "fail" \/ job[r].fetched = "failed" => transfer[job[r].transfer].state = "failed"
    BY <2>2, JobType DEF JobKnows, Holding, Hearing
  <2>4. CASE status = "none"
    <3>1. payout' = payout  BY <1>7, <2>1, <2>4 DEF SaveWebhook
    <3> QED BY <1>1, <2>2, <3>1 DEF store
  <2>5. CASE status # "none"
    <3>1. PICK row : row = [job[r].row EXCEPT !.status = status]  OBVIOUS
    <3>2. status \in {"completed", "failed", "processing"}  BY <2>1, <2>5 DEF OutcomeOf
    <3>3. /\ row \in Payout /\ row.status = status /\ row.settlementRail = "omise"
          /\ row.amount = payout[p].amount /\ row.transferReference = job[r].transfer
      BY <2>3, <3>1, <3>2, JobType DEF Job, Payout, PayoutStatus
    <3>4. /\ status = "completed" => transfer[row.transferReference].state = "paid"
          /\ status = "failed" => transfer[row.transferReference].state = "failed"
      BY <2>1, <2>3, <3>3 DEF OutcomeOf
    <3>5. payout' = [payout EXCEPT ![p] = row]
      BY <1>7, <2>1, <2>5, <3>1 DEF SaveWebhook
    <3> HIDE DEF p, w
    <3> QED BY <1>4, <2>2, <2>3, <3>2, <3>3, <3>4, <3>5
  <2> QED BY <2>4, <2>5
<1> QED BY <1>2, <1>5, <1>6, <1>7 DEF settleManualPayout, rejectManualPayout

(* The call to Omise makes a transfer, or is refused.                      *)
LEMMA PayPosts ==
  ASSUME PayoutsAssumption, PayInv, NEW r \in Req, applyOmiseTransfer(r) \/ submitPayoutToOmise(r)
  PROVE  PayInv'
<1>0. /\ recipient \in BOOLEAN /\ storeRecipient \in BOOLEAN /\ faults \in 0 .. MaxFaults
      /\ Idle \in Job /\ JobKnows(Idle)
  BY IdleIsJob DEF PayInv, TypeOK
<1>1. /\ Posting(job[r]) /\ job[r].at \in {"post", "claimedPost"} /\ job[r].payout # None
      /\ UNCHANGED <<money, store, payout>>
  BY DEF applyOmiseTransfer, submitPayoutToOmise, PostTransfer, At, Posting, Claiming
<1>2. /\ Exists(job[r].payout) /\ payout[job[r].payout].settlementRail = "omise"
      /\ job[r].row.settlementRail = "omise" /\ job[r].row.amount = payout[job[r].payout].amount
      /\ job[r].row.status \in {"pending", "processing", "completed"}
  BY <1>1, JobType DEF JobKnows, Holding
<1>3. job[r].row \in Payout /\ job[r].payout \in PayoutId
  BY <1>1, JobType DEF Job
<1>4. /\ transfer' \in [TransferId -> Transfer]
      /\ \A t \in TransferId : transfer[t].state # "none" => transfer'[t] = transfer[t]
      /\ faults' \in 0 .. MaxFaults
  <2>1. CASE UNCHANGED <<transfer, faults>>  BY <1>0, <2>1 DEF PayInv, TypeOK
  <2>2. ASSUME NEW t \in TransferId, NEW state \in {"created", "paid"},
               IsOldest(t, {u \in TransferId : transfer[u].state = "none"}),
               transfer' = [transfer EXCEPT ![t] =
                   [state |-> state, payout |-> job[r].payout, amount |-> job[r].row.amount]],
               faults' = faults \/ (faults < MaxFaults /\ faults' = faults + 1)
        PROVE  /\ transfer' \in [TransferId -> Transfer]
               /\ \A u \in TransferId : transfer[u].state # "none" => transfer'[u] = transfer[u]
               /\ faults' \in 0 .. MaxFaults
    <3>1. [state |-> state, payout |-> job[r].payout, amount |-> job[r].row.amount] \in Transfer
      BY <1>3 DEF Transfer, Payout
    <3>2. transfer' \in [TransferId -> Transfer]  BY <2>2, <3>1 DEF PayInv, TypeOK
    <3>3. \A u \in TransferId : transfer[u].state # "none" => transfer'[u] = transfer[u]
      BY <2>2 DEF PayInv, TypeOK, IsOldest
    <3>4. faults' \in 0 .. MaxFaults  BY <1>0, <2>2 DEF PayoutsAssumption
    <3> QED BY <3>2, <3>3, <3>4
  <2> QED BY <2>1, <2>2 DEF applyOmiseTransfer, submitPayoutToOmise, PostTransfer
<1>5. Stable  BY <1>1, <1>4 DEF Stable, Exists
<1>6. RowsOK' /\ EvidenceOK' /\ SettledOnEvidence'
  <2>1. RowsOK' /\ EvidenceOK'  BY <1>1 DEF PayInv, RowsOK, EvidenceOK, Exists
  <2>2. \A p \in PayoutId :
          payout[p].settlementRail = "omise" /\ payout[p].status \in {"completed", "failed"} =>
             transfer'[payout[p].transferReference].state = transfer[payout[p].transferReference].state
    BY <1>5 DEF PayInv, EvidenceOK, SettledOnEvidence, Stable
  <2> QED BY <1>1, <2>1, <2>2 DEF PayInv, SettledOnEvidence
<1>7. ASSUME NEW w \in Job, job' = [job EXCEPT ![r] = w], JobKnows(w)' PROVE PayInv'
  BY <1>0, <1>1, <1>4, <1>5, <1>6, <1>7, RequestSteps DEF PayInv, TypeOK, store
<1>8. ASSUME job' = [job EXCEPT ![r] = Idle] PROVE PayInv'
  <2>1. PICK w : w = Idle  OBVIOUS
  <2>2. JobKnows(w)'  BY <2>1, IdleIsJob DEF JobKnows, Holding, Posting, Claiming, Hearing, Idle
  <2> QED BY <1>0, <1>7, <1>8, <2>1, <2>2
<1>9. ASSUME job' = [job EXCEPT ![r].at = "claimedSave", ![r].row.status = "pending"] PROVE PayInv'
  <2>1. PICK w : w = [job[r] EXCEPT !.at = "claimedSave", !.row = [job[r].row EXCEPT !.status = "pending"]]
    OBVIOUS
  <2>2. [job[r].row EXCEPT !.status = "pending"] \in Payout  BY <1>3 DEF Payout, PayoutStatus
  <2>3. w \in Job  BY <2>1, <2>2, JobType DEF Job
  <2>4. /\ w.at = "claimedSave" /\ w.payout = job[r].payout /\ w.row.status = "pending"
        /\ w.row.settlementRail = job[r].row.settlementRail /\ w.row.amount = job[r].row.amount
    BY <1>3, <2>1, JobType DEF Job, Payout
  <2>5. JobKnows(w)
    BY <1>2, <2>4 DEF JobKnows, Holding, Posting, Claiming, Hearing
  <2>6. job' = [job EXCEPT ![r] = w]  BY <1>9, <2>1, JobType DEF Job
  <2> QED BY <1>5, <1>7, <2>3, <2>5, <2>6, KnowsStill
<1>10. ASSUME NEW t \in TransferId, NEW state \in {"created", "paid"}, NEW at \in {"postSave", "claimedSave"},
              transfer' = [transfer EXCEPT ![t] =
                  [state |-> state, payout |-> job[r].payout, amount |-> job[r].row.amount]],
              job' = [job EXCEPT ![r].at = at, ![r].row.transferReference = t,
                         ![r].row.status = IF state = "paid" THEN "completed" ELSE "processing"]
       PROVE  PayInv'
  <2>1. PICK row : row = [job[r].row EXCEPT !.transferReference = t,
                             !.status = IF state = "paid" THEN "completed" ELSE "processing"]
    OBVIOUS
  <2>2. /\ row \in Payout /\ row.settlementRail = "omise" /\ row.amount = job[r].row.amount
        /\ row.transferReference = t
        /\ row.status = IF state = "paid" THEN "completed" ELSE "processing"
    BY <1>2, <1>3, <2>1 DEF Payout, PayoutStatus
  <2>3. PICK w : w = [job[r] EXCEPT !.at = at, !.row = row]  OBVIOUS
  <2>4. w \in Job /\ w.at = at /\ w.payout = job[r].payout /\ w.row = row
    BY <2>2, <2>3, JobType DEF Job
  <2>5. transfer'[t].state = state  BY <1>10 DEF PayInv, TypeOK
  <2>6. Exists(w.payout)' /\ payout'[w.payout] = payout[w.payout]
    BY <1>1, <1>2, <2>4 DEF Exists
  <2>7. JobKnows(w)'
    BY <1>2, <2>2, <2>4, <2>5, <2>6 DEF JobKnows, Holding, Posting, Claiming, Hearing
  <2>8. job' = [job EXCEPT ![r] = w]  BY <1>10, <2>1, <2>3, JobType, ZenonT(40) DEF Job
  <2> QED BY <1>7, <2>4, <2>7, <2>8
<1> QED BY <1>8, <1>9, <1>10 DEF applyOmiseTransfer, submitPayoutToOmise, PostTransfer

(* Orders, the recipient and transfers change on their own.                *)
LEMMA PayEnvironment ==
  ASSUME PayoutsAssumption, PayInv,
         \/ \E rail \in PayoutSettlementRail : Earn(rail)
         \/ VerifyRecipient
         \/ \E t \in TransferId : OmiseMoves(t)
         \/ UNCHANGED vars
  PROVE  PayInv'
<1>1. UNCHANGED <<payout, job, faults>>
  BY DEF Earn, VerifyRecipient, OmiseMoves, vars
<1>2. transfer' \in [TransferId -> Transfer]
      /\ \A t \in TransferId : transfer[t].state \in {"paid", "failed"} => transfer'[t] = transfer[t]
  <2>1. ASSUME NEW t \in TransferId, OmiseMoves(t)
        PROVE  transfer' \in [TransferId -> Transfer]
               /\ \A u \in TransferId : transfer[u].state \in {"paid", "failed"} => transfer'[u] = transfer[u]
    <3>1. PICK s \in {"sent", "paid", "failed"} :
            /\ <<transfer[t].state, s>> \in {<<"created", "sent">>, <<"sent", "paid">>, <<"sent", "failed">>}
            /\ transfer' = [transfer EXCEPT ![t].state = s]
      BY <2>1 DEF OmiseMoves
    <3>2. transfer[t].state \notin {"paid", "failed"}  BY <3>1
    <3>3. [transfer[t] EXCEPT !.state = s] \in Transfer  BY DEF PayInv, TypeOK, Transfer
    <3>4. transfer' = [transfer EXCEPT ![t] = [transfer[t] EXCEPT !.state = s]]
      BY <3>1 DEF PayInv, TypeOK
    <3> QED BY <3>2, <3>3, <3>4 DEF PayInv, TypeOK
  <2>2. CASE UNCHANGED transfer  BY <2>2 DEF PayInv, TypeOK
  <2> QED BY <2>1, <2>2 DEF Earn, VerifyRecipient, store, vars
<1>3. /\ earned' \in [PayoutSettlementRail -> 0 .. MaxEarned]
      /\ peak' \in [PayoutSettlementRail -> 0 .. MaxEarned]
  <2>1. ASSUME NEW rail \in PayoutSettlementRail, NEW n \in 0 .. MaxEarned,
               earned' = [earned EXCEPT ![rail] = n],
               peak' = [peak EXCEPT ![rail] = IF n > @ THEN n ELSE @]
        PROVE  /\ earned' \in [PayoutSettlementRail -> 0 .. MaxEarned]
               /\ peak' \in [PayoutSettlementRail -> 0 .. MaxEarned]
    BY <2>1 DEF PayInv, TypeOK
  <2>2. CASE UNCHANGED money  BY <2>2 DEF PayInv, TypeOK, money
  <2> QED BY <2>1, <2>2 DEF Earn, VerifyRecipient, OmiseMoves, vars, money
<1>4. recipient' \in BOOLEAN /\ storeRecipient' \in BOOLEAN
  <2>1. recipient \in BOOLEAN /\ storeRecipient \in BOOLEAN  BY DEF PayInv, TypeOK
  <2>2. storeRecipient' = storeRecipient /\ (recipient' = recipient \/ recipient' = TRUE)
    BY DEF Earn, VerifyRecipient, OmiseMoves, vars, store
  <2> QED BY <2>1, <2>2
<1>5. TypeOK'  BY <1>1, <1>2, <1>3, <1>4 DEF PayInv, TypeOK
<1>6. Stable  BY <1>1, <1>2 DEF Stable, Exists
<1>7. JobsKnow'
  <2> SUFFICES ASSUME NEW q \in Req PROVE JobKnows(job[q])'
    BY DEF JobsKnow
  <2>1. PICK j : j = job[q]  OBVIOUS
  <2>2. job'[q] = j  BY <1>1, <2>1
  <2>3. JobKnows(j)'  BY <1>6, <2>1, KnowsStill DEF PayInv, JobsKnow
  <2> QED BY <2>2, <2>3 DEF JobKnows, Holding, Posting, Claiming, Hearing, Exists
<1>8. RowsOK' /\ EvidenceOK' /\ SettledOnEvidence'
  <2>1. RowsOK' /\ EvidenceOK'  BY <1>1 DEF PayInv, RowsOK, EvidenceOK, Exists
  <2>2. \A p \in PayoutId :
          payout[p].settlementRail = "omise" /\ payout[p].status \in {"completed", "failed"} =>
             transfer'[payout[p].transferReference] = transfer[payout[p].transferReference]
    BY <1>2 DEF PayInv, EvidenceOK, SettledOnEvidence
  <2> QED BY <1>1, <2>1, <2>2 DEF PayInv, SettledOnEvidence
<1> QED BY <1>5, <1>7, <1>8 DEF PayInv

(* Every step keeps PayInv.                                                *)
LEMMA PayNext == ASSUME PayoutsAssumption, PayInv, [Next]_vars PROVE PayInv'
<1>1. ASSUME NEW r \in Req, Continue(r) PROVE PayInv'
  BY <1>1, PayReads, PayInserts, PaySaves, PayPosts DEF Continue
<1> QED BY <1>1, PayStarts, PayReads, PayEnvironment DEF Next

(* Whatever requests, retries and webhooks overlap, fail or die: a payout  *)
(* of the Omise rail is completed only if its transfer was paid, and       *)
(* failed, its money available again, only if its transfer failed.         *)
THEOREM SettlesOnEvidence == ASSUME PayoutsAssumption PROVE Spec => []SettledOnEvidence
<1>1. Init => PayInv  BY PayInit
<1>2. PayInv /\ [Next]_vars => PayInv'  BY PayNext
<1>3. PayInv => SettledOnEvidence  BY DEF PayInv
<1> QED BY <1>1, <1>2, <1>3, PTL DEF Spec

-----------------------------------------------------------------------------
(* What a step of a handler does to payouts and to who holds one           *)

Others(r) == \A q \in Req : q # r => job'[q] = job[q]

(* No row changes; r holds what it held, or nothing.                       *)
GoesOn(r) ==
    /\ payout' = payout
    /\ Holding(job'[r]) => Holding(job[r]) /\ job'[r].payout = job[r].payout
    /\ Claiming(job'[r]) => Claiming(job[r])

(* A webhook loads a payout that is under way.                             *)
Hears(r) ==
    /\ payout' = payout
    /\ Hearing(job'[r])
    /\ payout[job'[r].payout].status \in PENDING_STATUSES

(* A new payout, checked under the lock, that r holds or forgets.          *)
Inserts(r) ==
    \E p \in PayoutId, row \in Payout :
        /\ ~Exists(p) /\ payout' = [payout EXCEPT ![p] = row]
        /\ row.status = "pending"
        /\ InRail(row.settlementRail, PENDING_STATUSES) = {}
        /\ row.amount <= AvailableBalance(row.settlementRail)
        /\ Holding(job'[r]) => job'[r].payout = p
        /\ ~Claiming(job'[r])

(* r claims a pending payout that has no transfer.                         *)
Claims(r) ==
    \E p \in PayoutId, row \in Payout :
        /\ payout[p].status = "pending" /\ payout' = [payout EXCEPT ![p] = row]
        /\ row.status = "processing"
        /\ row.settlementRail = payout[p].settlementRail /\ row.amount = payout[p].amount
        /\ job'[r].payout = p /\ job'[r].at = "claimedPost"

(* r saves the row it holds, or decides a pending payout, and is done; it  *)
(* fails a payout of the Omise rail only as a webhook.                     *)
Saves(r) ==
    \E p \in PayoutId, row \in Payout :
        /\ p = job[r].payout /\ Exists(p) /\ payout' = [payout EXCEPT ![p] = row]
        /\ row.status # "none"
        /\ row.settlementRail = payout[p].settlementRail /\ row.amount = payout[p].amount
        /\ Holding(job[r]) \/ (payout[p].status = "pending" /\ row.settlementRail = "manual")
        /\ row.status = "failed" /\ row.settlementRail = "omise" => Hearing(job[r])
        /\ row.status = "pending" => Claiming(job[r])
        /\ ~Holding(job'[r])

Acts(r) == GoesOn(r) \/ Hears(r) \/ Inserts(r) \/ Claims(r) \/ Saves(r)

(* Who holds nothing, or hears, claims nothing.                            *)
LEMMA ClaimingHolds == \A j : Claiming(j) => Holding(j) /\ ~Hearing(j)
  BY DEF Claiming, Holding, Posting, Hearing

(* Handlers are started as who they are.                                   *)
LEMMA StartActs ==
  ASSUME PayInv, OpsOK, NEW r \in Req, NEW op \in Handlers, NEW at, NEW what,
         Start(r, op, at, what),
         at \in {"summary", "submit"} => op \in {"request", "trigger"},
         at = "refetch" => op = "webhook",
         at \in {"summary", "submit", "create", "manual", "settle", "reject", "refetch"},
         what \in Job
  PROVE  OpsOK' /\ Others(r) /\ job'[r].at = at /\ job'[r].payout = what.payout
<1>1. job' = [job EXCEPT ![r] = [what EXCEPT !.at = at, !.op = op]]  BY DEF Start
<1>2. job'[r] = [what EXCEPT !.at = at, !.op = op] /\ \A q \in Req : q # r => job'[q] = job[q]
  BY <1>1 DEF PayInv, TypeOK
<1>3. job'[r].at = at /\ job'[r].op = op /\ job'[r].payout = what.payout  BY <1>2 DEF Job
<1>4. OpOK(job'[r])  BY <1>3 DEF OpOK, Hearing
<1> QED BY <1>2, <1>3, <1>4 DEF OpsOK, Others

(* What r does to a payout when a handler starts.                          *)
LEMMA StartsAct ==
  ASSUME PayoutsAssumption, PayInv, OpsOK, NEW r \in Req,
         \/ requestPayout(r) \/ triggerPayout(r) \/ runScheduledPayouts(r) \/ requestManualPayout(r)
         \/ resolvePendingManualPayout(r, "settle") \/ resolvePendingManualPayout(r, "reject")
         \/ \E t \in TransferId, e \in {"create", "send", "pay", "fail"} :
                 handleOmiseTransferWebhook(r, t, e)
  PROVE  OpsOK' /\ Others(r) /\ Acts(r)
<1>0. Idle \in Job  BY IdleIsJob
<1>1. payout' = payout
  BY DEF requestPayout, triggerPayout, FindOrphan, runScheduledPayouts, requestManualPayout,
       resolvePendingManualPayout, handleOmiseTransferWebhook
<1>2. ASSUME NEW op, NEW at \in {"summary", "submit", "create", "manual", "settle", "reject"}, NEW what \in Job,
             Start(r, op, at, what), at \in {"summary", "submit"} => op \in {"request", "trigger"}
      PROVE  OpsOK' /\ Others(r) /\ Acts(r)
  <2>1. op \in Handlers  BY <1>2 DEF Start
  <2>2. OpsOK' /\ Others(r) /\ job'[r].at = at  BY <1>2, <2>1, StartActs
  <2>3. ~Holding(job'[r])  BY <1>2, <2>2 DEF Holding, Posting, Claiming, Hearing
  <2> QED BY <1>1, <2>2, <2>3, ClaimingHolds DEF Acts, GoesOn
<1>3. ASSUME NEW op \in {"request", "trigger"}, FindOrphan(r, op) PROVE OpsOK' /\ Others(r) /\ Acts(r)
  <2>1. ASSUME NEW p \in Orphans PROVE [Idle EXCEPT !.payout = p] \in Job
    BY <1>0 DEF Orphans, InRail, Job
  <2> QED BY <1>0, <1>2, <1>3, <2>1 DEF FindOrphan, IsOldest
<1>4. CASE runScheduledPayouts(r)
  <2>1. AvailableBalance("omise") \in Nat  BY Totals DEF PayInv, PayoutSettlementRail
  <2>2. [Idle EXCEPT !.amount = AvailableBalance("omise")] \in Job  BY <1>0, <2>1 DEF Job
  <2> QED BY <1>2, <1>4, <2>2 DEF runScheduledPayouts
<1>5. CASE requestManualPayout(r)  BY <1>0, <1>2, <1>5 DEF requestManualPayout
<1>6. ASSUME NEW op \in {"settle", "reject"}, resolvePendingManualPayout(r, op)
      PROVE  OpsOK' /\ Others(r) /\ Acts(r)
  <2>1. ASSUME NEW p \in InRail("manual", {"pending"}) PROVE [Idle EXCEPT !.payout = p] \in Job
    BY <1>0 DEF InRail, Job
  <2> QED BY <1>2, <1>6, <2>1 DEF resolvePendingManualPayout
<1>7. ASSUME NEW t \in TransferId, NEW e \in {"create", "send", "pay", "fail"},
             handleOmiseTransferWebhook(r, t, e)
      PROVE  OpsOK' /\ Others(r) /\ Acts(r)
  <2>1. PICK p \in PayoutId :
          /\ payout[p].transferReference = t
          /\ payout[p].status \notin {"completed", "failed"}
          /\ Start(r, "webhook", "refetch", [Idle EXCEPT
                 !.payout = p, !.row = payout[p], !.transfer = t, !.event = e])
    BY <1>7 DEF handleOmiseTransferWebhook
  <2>2. PICK what : what = [Idle EXCEPT !.payout = p, !.row = payout[p], !.transfer = t, !.event = e]
    OBVIOUS
  <2>3. payout[p] \in Payout  BY DEF PayInv, TypeOK
  <2>4. what \in Job /\ what.payout = p  BY <1>0, <2>2, <2>3 DEF Job
  <2>5. Start(r, "webhook", "refetch", what) /\ "webhook" \in Handlers  BY <2>1, <2>2 DEF Start
  <2>6. OpsOK' /\ Others(r) /\ job'[r].at = "refetch" /\ job'[r].payout = p
    BY <2>4, <2>5, StartActs
  <2>7. payout[p].status \in PENDING_STATUSES
    BY <2>1, <2>3, NumbersAreNatural DEF PayInv, RowsOK, Exists, Payout, PayoutStatus, PENDING_STATUSES
  <2> QED BY <1>1, <2>6, <2>7 DEF Acts, Hears, Hearing
<1> QED BY <1>1, <1>3, <1>4, <1>5, <1>6, <1>7 DEF requestPayout, triggerPayout

(* A handler that goes on stays who it is.                                 *)
LEMMA GoingOn ==
  ASSUME PayInv, OpsOK, NEW r \in Req, NEW w, job' = [job EXCEPT ![r] = w],
         \/ w = Idle
         \/ /\ w.op = job[r].op
            /\ <<job[r].at, w.at>> \in {<<"summary", "create">>, <<"create", "post">>, <<"post", "post">>,
                  <<"submit", "claim">>, <<"claim", "claimedPost">>, <<"post", "postSave">>,
                  <<"claimedPost", "claimedSave">>, <<"refetch", "webhookSave">>}
  PROVE  OpsOK' /\ Others(r) /\ job'[r] = w
<1>1. job'[r] = w /\ \A q \in Req : q # r => job'[q] = job[q]  BY DEF PayInv, TypeOK
<1>2. CASE w = Idle
  <2>1. OpOK(w)  BY <1>2 DEF OpOK, Hearing, Idle
  <2> QED BY <1>1, <2>1 DEF OpsOK, Others
<1>3. CASE w # Idle
  <2>1. OpOK(job[r])  BY DEF OpsOK
  <2>2. OpOK(w)  BY <1>3, <2>1 DEF OpOK, Hearing
  <2> QED BY <1>1, <2>2 DEF OpsOK, Others
<1> QED BY <1>2, <1>3

(* What r does to a payout when a handler reads, posts or dies.            *)
LEMMA ReadsAct ==
  ASSUME PayoutsAssumption, PayInv, OpsOK, NEW r \in Req,
         \/ RequestOmise(r) \/ \E n \in 0 .. MaxEarned : TriggerOmise(r, n)
         \/ refreshStoreRecipientStatus(r, "create", "post")
         \/ refreshStoreRecipientStatus(r, "submit", "claim")
         \/ RefetchTransfer(r) \/ HandlerDies(r)
         \/ applyOmiseTransfer(r) \/ submitPayoutToOmise(r)
  PROVE  OpsOK' /\ Others(r) /\ Acts(r)
<1>0. payout' = payout /\ job[r] \in Job /\ JobKnows(job[r])
  BY JobType DEF RequestOmise, TriggerOmise, refreshStoreRecipientStatus, RefetchTransfer, HandlerDies,
     applyOmiseTransfer, submitPayoutToOmise, PostTransfer
<1>1. ASSUME job' = [job EXCEPT ![r] = Idle] PROVE OpsOK' /\ Others(r) /\ Acts(r)
  <2>1. OpsOK' /\ Others(r) /\ job'[r] = Idle  BY <1>1, GoingOn
  <2>2. ~Holding(job'[r])  BY <2>1, IdleIsJob
  <2> QED BY <1>0, <2>1, <2>2, ClaimingHolds DEF Acts, GoesOn
<1>2. ASSUME NEW w, job' = [job EXCEPT ![r] = w], w.op = job[r].op, w.payout = job[r].payout,
             <<job[r].at, w.at>> \in {<<"summary", "create">>, <<"create", "post">>, <<"submit", "claim">>,
                 <<"post", "postSave">>, <<"claimedPost", "claimedSave">>, <<"refetch", "webhookSave">>},
             job[r].at = "post" => job[r].payout # None
      PROVE  OpsOK' /\ Others(r) /\ Acts(r)
  <2>1. OpsOK' /\ Others(r) /\ job'[r] = w  BY <1>2, GoingOn
  <2>2. w.at = "post" => w.payout = None  BY <1>0, <1>2 DEF JobKnows
  <2>3. (Holding(w) => Holding(job[r])) /\ (Claiming(w) => Claiming(job[r]))
    BY <1>2, <2>2 DEF Holding, Posting, Claiming, Hearing
  <2> QED BY <1>0, <1>2, <2>1, <2>3 DEF Acts, GoesOn
<1>3. ASSUME NEW n, job[r].at = "summary", job' = [job EXCEPT ![r].at = "create", ![r].amount = n]
      PROVE  OpsOK' /\ Others(r) /\ Acts(r)
  <2>1. PICK w : w = [job[r] EXCEPT !.at = "create", !.amount = n]  OBVIOUS
  <2>2. w.at = "create" /\ w.op = job[r].op /\ w.payout = job[r].payout  BY <1>0, <2>1 DEF Job
  <2>3. job' = [job EXCEPT ![r] = w]  BY <1>3, <2>1
  <2> QED BY <1>2, <1>3, <2>2, <2>3
<1>4. CASE RequestOmise(r)  BY <1>1, <1>3, <1>4 DEF RequestOmise, Return, At
<1>5. ASSUME NEW n \in 0 .. MaxEarned, TriggerOmise(r, n) PROVE OpsOK' /\ Others(r) /\ Acts(r)
  BY <1>1, <1>3, <1>5 DEF TriggerOmise, Return, At
<1>6. ASSUME NEW from, NEW to, <<from, to>> \in {<<"create", "post">>, <<"submit", "claim">>},
             refreshStoreRecipientStatus(r, from, to)
      PROVE  OpsOK' /\ Others(r) /\ Acts(r)
  <2>1. CASE Goto(r, to)
    <3>1. PICK w : w = [job[r] EXCEPT !.at = to]  OBVIOUS
    <3>2. w.at = to /\ w.op = job[r].op /\ w.payout = job[r].payout  BY <1>0, <3>1 DEF Job
    <3>3. job' = [job EXCEPT ![r] = w] /\ job[r].at = from
      BY <1>6, <2>1, <3>1 DEF Goto, refreshStoreRecipientStatus, At
    <3> QED BY <1>2, <1>6, <3>2, <3>3
  <2> QED BY <1>1, <1>6, <2>1 DEF refreshStoreRecipientStatus, Return
<1>7. CASE RefetchTransfer(r)
  <2>1. CASE job' = [job EXCEPT ![r].at = "webhookSave", ![r].fetched = transfer[job[r].transfer].state]
    <3>1. PICK w : w = [job[r] EXCEPT !.at = "webhookSave", !.fetched = transfer[job[r].transfer].state]
      OBVIOUS
    <3>2. w.at = "webhookSave" /\ w.op = job[r].op /\ w.payout = job[r].payout  BY <1>0, <3>1 DEF Job
    <3>3. job' = [job EXCEPT ![r] = w] /\ job[r].at = "refetch"
      BY <1>7, <2>1, <3>1 DEF RefetchTransfer, At
    <3> QED BY <1>2, <3>2, <3>3
  <2> QED BY <1>1, <1>7, <2>1 DEF RefetchTransfer, Return
<1>8. CASE HandlerDies(r)  BY <1>1, <1>8 DEF HandlerDies, Return
<1>9. ASSUME NEW from, NEW to, <<from, to>> \in {<<"post", "postSave">>, <<"claimedPost", "claimedSave">>},
             NEW refused \in {[job EXCEPT ![r] = Idle],
                              [job EXCEPT ![r].at = "claimedSave", ![r].row.status = "pending"]},
             from = "post" => refused = [job EXCEPT ![r] = Idle],
             PostTransfer(r, from, to, refused)
      PROVE  OpsOK' /\ Others(r) /\ Acts(r)
  <2>0. job[r].at = from /\ job[r].payout # None  BY <1>9 DEF PostTransfer, At
  <2>1. ASSUME NEW row, job' = [job EXCEPT ![r] = [job[r] EXCEPT !.at = to, !.row = row]]
        PROVE  OpsOK' /\ Others(r) /\ Acts(r)
    <3>1. PICK w : w = [job[r] EXCEPT !.at = to, !.row = row]  OBVIOUS
    <3>2. w.at = to /\ w.op = job[r].op /\ w.payout = job[r].payout  BY <1>0, <3>1 DEF Job
    <3>3. job' = [job EXCEPT ![r] = w]  BY <2>1, <3>1
    <3> QED BY <1>2, <1>9, <2>0, <3>2, <3>3
  <2>2. ASSUME NEW t \in TransferId, NEW state \in {"created", "paid"},
               job' = [job EXCEPT ![r].at = to, ![r].row.transferReference = t,
                         ![r].row.status = IF state = "paid" THEN "completed" ELSE "processing"]
        PROVE  OpsOK' /\ Others(r) /\ Acts(r)
    <3>1. PICK row : row = [job[r].row EXCEPT !.transferReference = t,
                              !.status = IF state = "paid" THEN "completed" ELSE "processing"]
      OBVIOUS
    <3>2. job' = [job EXCEPT ![r] = [job[r] EXCEPT !.at = to, !.row = row]]
      BY <1>0, <2>2, <3>1 DEF Job
    <3> QED BY <2>1, <3>2
  <2>3. ASSUME from = "claimedPost", job' = [job EXCEPT ![r].at = "claimedSave", ![r].row.status = "pending"]
        PROVE  OpsOK' /\ Others(r) /\ Acts(r)
    <3>1. PICK row : row = [job[r].row EXCEPT !.status = "pending"]  OBVIOUS
    <3>2. to = "claimedSave"  BY <1>9, <2>3
    <3>3. job' = [job EXCEPT ![r] = [job[r] EXCEPT !.at = to, !.row = row]]
      BY <1>0, <2>3, <3>1, <3>2 DEF Job
    <3> QED BY <2>1, <3>3
  <2>4. \/ job' = refused
        \/ \E t \in TransferId, state \in {"created", "paid"} :
              job' = [job EXCEPT ![r].at = to, ![r].row.transferReference = t,
                         ![r].row.status = IF state = "paid" THEN "completed" ELSE "processing"]
    BY <1>9 DEF PostTransfer
  <2> QED BY <1>1, <1>9, <2>2, <2>3, <2>4
<1>10. CASE applyOmiseTransfer(r)
  <2>1. PICK refused : refused = [job EXCEPT ![r] = Idle]  OBVIOUS
  <2>2. PostTransfer(r, "post", "postSave", refused)  BY <1>10, <2>1 DEF applyOmiseTransfer
  <2> QED BY <1>9, <2>1, <2>2
<1>11. CASE submitPayoutToOmise(r)
  <2>1. PICK refused : refused = [job EXCEPT ![r].at = "claimedSave", ![r].row.status = "pending"]  OBVIOUS
  <2>2. PostTransfer(r, "claimedPost", "claimedSave", refused)  BY <1>11, <2>1 DEF submitPayoutToOmise
  <2> QED BY <1>9, <2>1, <2>2
<1> QED BY <1>4, <1>5, <1>6, <1>7, <1>8, <1>10, <1>11

(* What r does to a payout when it inserts one.                            *)
LEMMA InsertsAct ==
  ASSUME PayoutsAssumption, PayInv, OpsOK, NEW r \in Req, InsertOmisePayout(r) \/ InsertManualPayout(r)
  PROVE  OpsOK' /\ Others(r) /\ Acts(r)
<1>0. job[r] \in Job /\ JobKnows(job[r])  BY JobType
<1>1. ASSUME Return(r) PROVE OpsOK' /\ Others(r) /\ ~Holding(job'[r])
  <2>1. OpsOK' /\ Others(r) /\ job'[r] = Idle  BY <1>1, GoingOn DEF Return
  <2> QED BY <2>1, IdleIsJob
<1>2. ASSUME Return(r), UNCHANGED payout PROVE OpsOK' /\ Others(r) /\ Acts(r)
  BY <1>1, <1>2, ClaimingHolds DEF Acts, GoesOn
<1>3. CASE InsertOmisePayout(r)
  <2>1. PICK row : row = [status |-> "pending", settlementRail |-> "omise", amount |-> job[r].amount,
                          transferReference |-> None]
    OBVIOUS
  <2>2. /\ row \in Payout /\ row.status = "pending" /\ row.settlementRail = "omise"
        /\ row.amount = job[r].amount
    BY <1>0, <2>1 DEF Job, Payout, PayoutStatus, PayoutSettlementRail
  <2>3. \/ /\ InRail("omise", PENDING_STATUSES) = {} /\ job[r].amount <= AvailableBalance("omise")
           /\ \E p \in PayoutId :
                /\ IsOldest(p, {q \in PayoutId : payout[q].status = "none"})
                /\ payout' = [payout EXCEPT ![p] = row]
                /\ job' = [job EXCEPT ![r].payout = p, ![r].row = row]
        \/ Return(r) /\ UNCHANGED payout
    BY <1>3, <2>1 DEF InsertOmisePayout
  <2>4. ASSUME InRail("omise", PENDING_STATUSES) = {}, job[r].amount <= AvailableBalance("omise"),
               NEW p \in PayoutId, IsOldest(p, {q \in PayoutId : payout[q].status = "none"}),
               payout' = [payout EXCEPT ![p] = row], job' = [job EXCEPT ![r].payout = p, ![r].row = row]
        PROVE  OpsOK' /\ Others(r) /\ Acts(r)
    <3>1. PICK w : w = [job[r] EXCEPT !.payout = p, !.row = row]  OBVIOUS
    <3>2. w.at = "post" /\ job[r].at = "post" /\ w.op = job[r].op /\ w.payout = p
      BY <1>0, <1>3, <3>1 DEF Job, InsertOmisePayout, At
    <3>3. job' = [job EXCEPT ![r] = w]  BY <2>4, <3>1
    <3>4. OpsOK' /\ Others(r) /\ job'[r] = w  BY <3>2, <3>3, GoingOn
    <3>5. ~Exists(p)  BY <2>4 DEF IsOldest, Exists
    <3>6. Inserts(r)  BY <2>2, <2>4, <3>2, <3>4, <3>5 DEF Inserts, Claiming
    <3> QED BY <3>4, <3>6 DEF Acts
  <2> QED BY <1>2, <2>3, <2>4
<1>4. CASE InsertManualPayout(r)
  <2>0. Return(r)  BY <1>4 DEF InsertManualPayout
  <2>1. PICK row : row = [status |-> "pending", settlementRail |-> "manual",
                          amount |-> AvailableBalance("manual"), transferReference |-> None]
    OBVIOUS
  <2>2. AvailableBalance("manual") \in Nat  BY Totals DEF PayInv, PayoutSettlementRail
  <2>3. /\ row \in Payout /\ row.status = "pending" /\ row.settlementRail = "manual"
        /\ row.amount <= AvailableBalance("manual")
    BY <2>1, <2>2 DEF Payout, PayoutStatus, PayoutSettlementRail
  <2>4. \/ /\ InRail("manual", PENDING_STATUSES) = {}
           /\ \E p \in PayoutId :
                /\ IsOldest(p, {q \in PayoutId : payout[q].status = "none"})
                /\ payout' = [payout EXCEPT ![p] = row]
        \/ UNCHANGED payout
    BY <1>4, <2>1 DEF InsertManualPayout
  <2>5. ASSUME InRail("manual", PENDING_STATUSES) = {},
               NEW p \in PayoutId, IsOldest(p, {q \in PayoutId : payout[q].status = "none"}),
               payout' = [payout EXCEPT ![p] = row]
        PROVE  OpsOK' /\ Others(r) /\ Acts(r)
    <3>1. ~Exists(p)  BY <2>5 DEF IsOldest, Exists
    <3>2. Inserts(r)  BY <1>1, <2>0, <2>3, <2>5, <3>1, ClaimingHolds DEF Inserts
    <3> QED BY <1>1, <2>0, <3>2 DEF Acts
  <2> QED BY <1>2, <2>0, <2>4, <2>5
<1> QED BY <1>3, <1>4

(* What r does to a payout when it claims or saves one.                    *)
LEMMA SavesAct ==
  ASSUME PayoutsAssumption, PayInv, OpsOK, NEW r \in Req,
         \/ claimOrphanPayoutForSubmission(r) \/ SaveOmisePayout(r)
         \/ settleManualPayout(r) \/ rejectManualPayout(r) \/ SaveWebhook(r)
  PROVE  OpsOK' /\ Others(r) /\ Acts(r)
<1>0. job[r] \in Job /\ JobKnows(job[r])  BY JobType
<1>1. ASSUME Return(r) PROVE OpsOK' /\ Others(r) /\ ~Holding(job'[r])
  <2>1. OpsOK' /\ Others(r) /\ job'[r] = Idle  BY <1>1, GoingOn DEF Return
  <2> QED BY <2>1, IdleIsJob
<1>2. ASSUME Return(r), UNCHANGED payout PROVE OpsOK' /\ Others(r) /\ Acts(r)
  BY <1>1, <1>2, ClaimingHolds DEF Acts, GoesOn
<1> DEFINE p == job[r].payout
<1>3. CASE claimOrphanPayoutForSubmission(r)
  <2>1. Exists(p) /\ p \in PayoutId /\ payout[p] \in Payout
    BY <1>0, <1>3 DEF claimOrphanPayoutForSubmission, At, JobKnows, Exists, PayInv, TypeOK
  <2>2. ASSUME payout[p].status = "pending", payout' = [payout EXCEPT ![p].status = "processing"],
               job' = [job EXCEPT ![r].at = "claimedPost", ![r].row = payout'[p]]
        PROVE  OpsOK' /\ Others(r) /\ Acts(r)
    <3>1. PICK row : row = [payout[p] EXCEPT !.status = "processing"]  OBVIOUS
    <3>2. /\ row \in Payout /\ row.status = "processing"
          /\ row.settlementRail = payout[p].settlementRail /\ row.amount = payout[p].amount
      BY <2>1, <3>1 DEF Payout, PayoutStatus
    <3>3. payout' = [payout EXCEPT ![p] = row] /\ payout'[p] = row
      BY <2>1, <2>2, <3>1 DEF PayInv, TypeOK
    <3>4. PICK w : w = [job[r] EXCEPT !.at = "claimedPost", !.row = row]  OBVIOUS
    <3>5. w.at = "claimedPost" /\ job[r].at = "claim" /\ w.op = job[r].op /\ w.payout = p
      BY <1>0, <1>3, <3>4 DEF Job, claimOrphanPayoutForSubmission, At
    <3>6. job' = [job EXCEPT ![r] = w]  BY <1>0, <2>2, <3>3, <3>4 DEF Job
    <3>7. OpsOK' /\ Others(r) /\ job'[r] = w
      <4> HIDE DEF p
      <4> QED BY <3>5, <3>6, GoingOn
    <3>8. Claims(r)  BY <2>1, <2>2, <3>2, <3>3, <3>5, <3>7 DEF Claims
    <3> QED BY <3>7, <3>8 DEF Acts
  <2> QED BY <1>2, <1>3, <2>2 DEF claimOrphanPayoutForSubmission
<1>4. ASSUME NEW row \in Payout, Exists(p), Return(r), payout' = [payout EXCEPT ![p] = row],
             row.status # "none",
             row.settlementRail = payout[p].settlementRail, row.amount = payout[p].amount,
             Holding(job[r]) \/ (payout[p].status = "pending" /\ row.settlementRail = "manual"),
             row.status = "failed" /\ row.settlementRail = "omise" => Hearing(job[r]),
             row.status = "pending" => Claiming(job[r])
      PROVE  OpsOK' /\ Others(r) /\ Acts(r)
  <2>1. p \in PayoutId  BY <1>4 DEF Exists
  <2>2. Saves(r)  BY <1>1, <1>4, <2>1 DEF Saves
  <2> QED BY <1>1, <1>4, <2>2 DEF Acts
<1>5. CASE SaveOmisePayout(r)
  <2>1. job[r].at \in {"postSave", "claimedSave"}  BY <1>5 DEF SaveOmisePayout, At
  <2>2. PICK row : row = job[r].row  OBVIOUS
  <2>3. /\ Exists(p) /\ Holding(job[r]) /\ row.settlementRail = payout[p].settlementRail
        /\ row.amount = payout[p].amount /\ row.status \in {"pending", "processing", "completed"}
        /\ row.status = "pending" => Claiming(job[r])
    BY <1>0, <2>1, <2>2 DEF JobKnows, Holding, Posting, Claiming
  <2>4. row \in Payout  BY <1>0, <2>2 DEF Job
  <2>5. payout' = [payout EXCEPT ![p] = row] /\ Return(r)  BY <1>5, <2>2 DEF SaveOmisePayout
  <2> HIDE DEF p
  <2> QED BY <1>4, <2>3, <2>4, <2>5
<1>6. ASSUME NEW at \in {"settle", "reject"}, NEW status \in {"completed", "failed"},
             DecideManual(r, at, status)
      PROVE  OpsOK' /\ Others(r) /\ Acts(r)
  <2>1. Exists(p) /\ payout[p].settlementRail = "manual" /\ p \in PayoutId /\ payout[p] \in Payout
    BY <1>0, <1>6 DEF DecideManual, At, JobKnows, Exists, PayInv, TypeOK
  <2>2. Return(r)  BY <1>6 DEF DecideManual
  <2>3. CASE payout[p].status = "pending"
    <3>1. PICK row : row = [payout[p] EXCEPT !.status = status]  OBVIOUS
    <3>2. /\ row \in Payout /\ row.status = status /\ row.settlementRail = "manual"
          /\ row.amount = payout[p].amount
      BY <2>1, <3>1 DEF Payout, PayoutStatus
    <3>3. payout' = [payout EXCEPT ![p] = row]  BY <1>6, <2>3, <3>1 DEF DecideManual
    <3> HIDE DEF p
    <3> QED BY <1>4, <2>1, <2>2, <2>3, <3>2, <3>3
  <2>4. CASE payout[p].status # "pending"
    <3>1. payout' = payout  BY <1>6, <2>4 DEF DecideManual
    <3> QED BY <1>2, <2>2, <3>1
  <2> QED BY <2>3, <2>4
<1>7. CASE SaveWebhook(r)
  <2>1. PICK status : status = OutcomeOf(job[r].event, job[r].fetched)  OBVIOUS
  <2>2. job[r].at = "webhookSave" /\ Return(r)  BY <1>7 DEF SaveWebhook, At
  <2>3. /\ Exists(p) /\ payout[p].settlementRail = "omise" /\ job[r].row.settlementRail = "omise"
        /\ job[r].row.amount = payout[p].amount /\ Holding(job[r]) /\ Hearing(job[r])
    BY <1>0, <2>2 DEF JobKnows, Holding, Hearing
  <2>4. CASE status = "none"  BY <1>2, <1>7, <2>1, <2>2, <2>4 DEF SaveWebhook
  <2>5. CASE status # "none"
    <3>1. PICK row : row = [job[r].row EXCEPT !.status = status]  OBVIOUS
    <3>2. status \in {"completed", "failed", "processing"}  BY <2>1, <2>5 DEF OutcomeOf
    <3>3. /\ row \in Payout /\ row.status = status /\ row.settlementRail = "omise"
          /\ row.amount = payout[p].amount
      BY <1>0, <2>3, <3>1, <3>2 DEF Job, Payout, PayoutStatus
    <3>4. payout' = [payout EXCEPT ![p] = row]  BY <1>7, <2>1, <2>5, <3>1 DEF SaveWebhook
    <3> HIDE DEF p
    <3> QED BY <1>4, <2>2, <2>3, <3>2, <3>3, <3>4
  <2> QED BY <2>4, <2>5
<1> QED BY <1>3, <1>5, <1>6, <1>7 DEF settleManualPayout, rejectManualPayout

(* Every step is of one handler, or leaves payouts and handlers alone.     *)
LEMMA StepActs ==
  ASSUME PayoutsAssumption, PayInv, OpsOK, [Next]_vars
  PROVE  /\ OpsOK'
         /\ \/ UNCHANGED money /\ \E r \in Req : Others(r) /\ Acts(r)
            \/ /\ UNCHANGED <<payout, job>>
               /\ UNCHANGED money \/ \E rail \in PayoutSettlementRail : Earn(rail)
<1>1. ASSUME NEW r \in Req, Continue(r) PROVE OpsOK' /\ Others(r) /\ Acts(r)
  BY <1>1, ReadsAct, InsertsAct, SavesAct DEF Continue
<1>2. ASSUME NEW r \in Req,
             \/ requestPayout(r) \/ triggerPayout(r) \/ runScheduledPayouts(r) \/ requestManualPayout(r)
             \/ resolvePendingManualPayout(r, "settle") \/ resolvePendingManualPayout(r, "reject")
             \/ \E t \in TransferId, e \in {"create", "send", "pay", "fail"} :
                     handleOmiseTransferWebhook(r, t, e)
             \/ Continue(r) \/ HandlerDies(r)
      PROVE  OpsOK' /\ UNCHANGED money /\ Others(r) /\ Acts(r)
  <2>1. OpsOK' /\ Others(r) /\ Acts(r)  BY <1>1, <1>2, StartsAct, ReadsAct
  <2>2. Continue(r) => UNCHANGED money
    BY DEF Continue, RequestOmise, TriggerOmise, refreshStoreRecipientStatus, InsertOmisePayout,
         applyOmiseTransfer, claimOrphanPayoutForSubmission, submitPayoutToOmise, PostTransfer,
         SaveOmisePayout, InsertManualPayout, settleManualPayout, rejectManualPayout, DecideManual,
         RefetchTransfer, SaveWebhook
  <2>3. UNCHANGED money
    BY <1>2, <2>2 DEF requestPayout, triggerPayout, FindOrphan, runScheduledPayouts, requestManualPayout,
       resolvePendingManualPayout, handleOmiseTransferWebhook, HandlerDies
  <2> QED BY <2>1, <2>3
<1>3. ASSUME \/ \E rail \in PayoutSettlementRail : Earn(rail)
             \/ VerifyRecipient
             \/ \E t \in TransferId : OmiseMoves(t)
             \/ UNCHANGED vars
      PROVE  /\ OpsOK' /\ UNCHANGED <<payout, job>>
             /\ UNCHANGED money \/ \E rail \in PayoutSettlementRail : Earn(rail)
  <2>1. /\ UNCHANGED <<payout, job>>
        /\ UNCHANGED money \/ \E rail \in PayoutSettlementRail : Earn(rail)
    BY <1>3 DEF Earn, VerifyRecipient, OmiseMoves, vars, money
  <2> QED BY <2>1 DEF OpsOK
<1> QED BY <1>2, <1>3 DEF Next

-----------------------------------------------------------------------------
(* Money: payouts within what was earned                                   *)

(* Nothing earned, nothing paid out.                                       *)
LEMMA MoneyInit == ASSUME PayoutsAssumption PROVE Init => MoneyInv /\ OpsOK
<1> SUFFICES ASSUME Init PROVE MoneyInv /\ OpsOK  OBVIOUS
<1>1. PayInv  BY PayInit
<1>2. \A r \in Req : OpOK(job[r]) /\ ~Holding(job[r])
  BY IdleIsJob DEF Init, OpOK, Holding, Posting, Claiming, Hearing, Idle
<1>3. ASSUME NEW rail \in PayoutSettlementRail PROVE calculateTotalPaidOut(rail) = 0
  <2>1. InRail(rail, PAID_OUT_STATUSES) = {}
    BY <1>1 DEF InRail, Init, NoRow, PAID_OUT_STATUSES
  <2>2. calculateTotalPaidOut(rail) = SumOver(Amounts(payout), {})  BY <1>1, <2>1, Totals DEF PayInv
  <2> QED BY <2>2, SumUnfolds, FS_EmptySet
<1>4. \A rail \in PayoutSettlementRail : earned[rail] = 0 /\ peak[rail] = 0  BY DEF Init
<1> QED BY <1>2, <1>3, <1>4 DEF MoneyInv, NoOverdraft, OpsOK

(* The totals follow what a handler does.                                  *)
LEMMA TotalsKept ==
  ASSUME PayoutsAssumption, PayInv, TypeOK', MoneyInv, NEW r \in Req, Acts(r),
         NEW rail \in PayoutSettlementRail
  PROVE  calculateTotalPaidOut(rail)' <= peak[rail]
<1>0. /\ calculateTotalPaidOut(rail) \in Nat /\ calculateTotalPaidOut(rail) <= peak[rail]
      /\ earned[rail] <= peak[rail] /\ earned[rail] \in Nat /\ peak[rail] \in Nat
      /\ payout \in [PayoutId -> Payout] /\ payout' \in [PayoutId -> Payout]
  BY Totals DEF PayInv, TypeOK, MoneyInv, NoOverdraft, PayoutsAssumption
<1>1. ASSUME InRail(rail, PAID_OUT_STATUSES)' \subseteq InRail(rail, PAID_OUT_STATUSES),
             \A p \in InRail(rail, PAID_OUT_STATUSES)' : payout'[p].amount = payout[p].amount
      PROVE  calculateTotalPaidOut(rail)' <= peak[rail]
  <2>1. /\ calculateTotalPaidOut(rail)' \in Nat
        /\ calculateTotalPaidOut(rail)' <= calculateTotalPaidOut(rail)
    BY <1>0, <1>1, TotalFalls DEF PayInv
  <2> QED BY <1>0, <2>1
<1>2. CASE payout' = payout  BY <1>1, <1>2 DEF InRail
<1>3. ASSUME NEW p \in PayoutId, NEW row \in Payout, payout' = [payout EXCEPT ![p] = row],
             payout[p].status \in PAID_OUT_STATUSES, row.settlementRail = payout[p].settlementRail,
             row.amount = payout[p].amount
      PROVE  calculateTotalPaidOut(rail)' <= peak[rail]
  <2>1. payout'[p] = row /\ \A q \in PayoutId : q # p => payout'[q] = payout[q]  BY <1>0, <1>3
  <2> QED BY <1>1, <1>3, <2>1 DEF InRail
<1>4. CASE Inserts(r)
  <2>1. PICK p \in PayoutId, row \in Payout :
          /\ ~Exists(p) /\ payout' = [payout EXCEPT ![p] = row]
          /\ row.status = "pending"
          /\ row.amount <= AvailableBalance(row.settlementRail)
    BY <1>4 DEF Inserts
  <2>2. payout'[p] = row /\ \A q \in PayoutId : q # p => payout'[q] = payout[q]  BY <1>0, <2>1
  <2>3. p \notin InRail(rail, PAID_OUT_STATUSES)  BY <2>1 DEF Exists, InRail, PAID_OUT_STATUSES
  <2>4. CASE row.settlementRail # rail  BY <1>1, <2>2, <2>4 DEF InRail
  <2>5. CASE row.settlementRail = rail
    <3>1. InRail(rail, PAID_OUT_STATUSES)' = InRail(rail, PAID_OUT_STATUSES) \cup {p}
      BY <2>1, <2>2, <2>5 DEF InRail, PAID_OUT_STATUSES
    <3>2. \A q \in InRail(rail, PAID_OUT_STATUSES) : payout'[q].amount = payout[q].amount
      BY <2>2, <2>3 DEF InRail
    <3>3. calculateTotalPaidOut(rail)' = calculateTotalPaidOut(rail) + row.amount
      BY <1>0, <2>2, <2>3, <3>1, <3>2, TotalRises DEF PayInv
    <3>4. /\ AvailableBalance(rail) \in Nat
          /\ AvailableBalance(rail) > 0 =>
               calculateTotalPaidOut(rail) + AvailableBalance(rail) = earned[rail]
      BY Totals DEF PayInv
    <3>5. row.amount \in Nat /\ row.amount <= AvailableBalance(rail)  BY <2>1, <2>5 DEF Payout
    <3> QED BY <1>0, <3>3, <3>4, <3>5
  <2> QED BY <2>4, <2>5
<1>5. CASE Claims(r)  BY <1>3, <1>5 DEF Claims, PAID_OUT_STATUSES
<1>6. CASE Saves(r)
  <2>1. PICK p \in PayoutId, row \in Payout :
          /\ p = job[r].payout /\ Exists(p) /\ payout' = [payout EXCEPT ![p] = row]
          /\ row.settlementRail = payout[p].settlementRail /\ row.amount = payout[p].amount
          /\ Holding(job[r]) \/ payout[p].status = "pending"
    BY <1>6 DEF Saves
  <2>2. payout[p].status \in PAID_OUT_STATUSES
    BY <1>0, <2>1 DEF MoneyInv, Exists, Payout, PayoutStatus, PAID_OUT_STATUSES
  <2> QED BY <1>3, <2>1, <2>2
<1> QED BY <1>2, <1>4, <1>5, <1>6 DEF Acts, GoesOn, Hears

(* Every step keeps MoneyInv: a saved row counted before, and a new one    *)
(* fits under the lock; only a webhook fails a payout that another handler *)
(* might hold.                                                             *)
LEMMA MoneyNext ==
  ASSUME PayoutsAssumption, NoLateWebhook, PayInv, OpsOK, MoneyInv, [Next]_vars
  PROVE  MoneyInv'
<1>0. PayInv' /\ TypeOK'  BY PayNext DEF PayInv
<1>1. ASSUME UNCHANGED money, NEW r \in Req, Others(r), Acts(r) PROVE MoneyInv'
  <2>1. NoOverdraft'
    BY <1>0, <1>1, TotalsKept DEF NoOverdraft, money
  <2>2. \A rail \in PayoutSettlementRail : (earned[rail] <= peak[rail])'
    BY <1>1 DEF MoneyInv, money
  <2>3. ASSUME NEW q \in Req, Holding(job'[q]) PROVE payout'[job'[q].payout].status # "failed"
    <3>1. q # r => /\ Holding(job[q]) /\ job'[q] = job[q] /\ payout[job[q].payout].status # "failed"
                   /\ Exists(job[q].payout) /\ payout[job[q].payout].settlementRail = "omise"
      BY <1>1, <2>3, JobType DEF Others, MoneyInv, JobKnows
    <3>2. payout \in [PayoutId -> Payout]  BY DEF PayInv, TypeOK
    <3>3. CASE GoesOn(r)  BY <2>3, <3>1, <3>3 DEF GoesOn, MoneyInv
    <3>4. CASE Hears(r)  BY <2>3, <3>1, <3>4 DEF Hears, PENDING_STATUSES
    <3>5. CASE Inserts(r)
      <4>1. PICK p \in PayoutId, row \in Payout :
              /\ ~Exists(p) /\ payout' = [payout EXCEPT ![p] = row] /\ row.status = "pending"
              /\ Holding(job'[r]) => job'[r].payout = p
        BY <3>5 DEF Inserts
      <4>2. payout'[p] = row /\ \A o \in PayoutId : o # p => payout'[o] = payout[o]  BY <3>2, <4>1
      <4> QED BY <2>3, <3>1, <4>1, <4>2 DEF Exists
    <3>6. CASE Claims(r)
      <4>1. PICK p \in PayoutId, row \in Payout :
              /\ payout' = [payout EXCEPT ![p] = row] /\ row.status = "processing"
              /\ job'[r].payout = p
        BY <3>6 DEF Claims
      <4>2. payout'[p] = row /\ \A o \in PayoutId : o # p => payout'[o] = payout[o]  BY <3>2, <4>1
      <4> QED BY <2>3, <3>1, <4>1, <4>2 DEF Exists
    <3>7. CASE Saves(r)
      <4>1. PICK p \in PayoutId, row \in Payout :
              /\ payout' = [payout EXCEPT ![p] = row] /\ row.settlementRail = payout[p].settlementRail
              /\ row.status = "failed" /\ row.settlementRail = "omise" => Hearing(job[r])
              /\ ~Holding(job'[r])
        BY <3>7 DEF Saves
      <4>2. payout'[p] = row /\ \A o \in PayoutId : o # p => payout'[o] = payout[o]  BY <3>2, <4>1
      <4>3. q # r  BY <2>3, <4>1
      <4>4. "webhook" \notin Handlers  BY <4>3 DEF NoLateWebhook, OneRequest
      <4>5. ~Hearing(job[r])  BY <4>4 DEF OpsOK, OpOK, Hearing
      <4> QED BY <3>1, <4>1, <4>2, <4>3, <4>5 DEF Exists
    <3> QED BY <1>1, <3>3, <3>4, <3>5, <3>6, <3>7 DEF Acts
  <2> QED BY <2>1, <2>2, <2>3 DEF MoneyInv, Holding, Posting, Claiming, Hearing
<1>2. ASSUME UNCHANGED <<payout, job>>, UNCHANGED money \/ \E rail \in PayoutSettlementRail : Earn(rail)
      PROVE  MoneyInv'
  <2>1. /\ \A rail \in PayoutSettlementRail :
              /\ earned'[rail] <= peak'[rail] /\ peak[rail] <= peak'[rail]
              /\ peak[rail] \in Nat /\ peak'[rail] \in Nat
    <3>0. \A rail \in PayoutSettlementRail : /\ earned[rail] \in Nat /\ peak[rail] \in Nat
                                             /\ peak'[rail] \in Nat /\ earned[rail] <= peak[rail]
      BY <1>0 DEF PayInv, TypeOK, MoneyInv, PayoutsAssumption
    <3>1. CASE UNCHANGED money  BY <3>0, <3>1 DEF money
    <3>2. ASSUME NEW rail \in PayoutSettlementRail, Earn(rail)
          PROVE  \A o \in PayoutSettlementRail : earned'[o] <= peak'[o] /\ peak[o] <= peak'[o]
      BY <3>0, <3>2 DEF Earn, PayInv, TypeOK
    <3> QED BY <1>2, <3>0, <3>1, <3>2
  <2>2. NoOverdraft'
    <3> SUFFICES ASSUME NEW rail \in PayoutSettlementRail
                 PROVE  calculateTotalPaidOut(rail)' <= peak'[rail]
      BY DEF NoOverdraft
    <3>1. payout' \in [PayoutId -> Payout]  BY <1>0 DEF TypeOK
    <3>2. /\ calculateTotalPaidOut(rail)' \in Nat
          /\ calculateTotalPaidOut(rail)' <= calculateTotalPaidOut(rail)
      BY <1>2, <3>1, TotalFalls DEF PayInv, InRail
    <3>3. calculateTotalPaidOut(rail) \in Nat /\ calculateTotalPaidOut(rail) <= peak[rail]
      BY Totals DEF PayInv, MoneyInv, NoOverdraft
    <3> QED BY <2>1, <3>2, <3>3
  <2> QED BY <1>2, <2>1, <2>2 DEF MoneyInv, Holding, Posting, Claiming, Hearing
<1> QED BY <1>1, <1>2, StepActs

(* Whatever orders come and go, requests race, calls fail and handlers     *)
(* die: the payouts of a rail that are not failed never exceed the most    *)
(* the store earned on it, unless a webhook overlaps another handler.      *)
THEOREM PayoutsWithinEarned ==
  ASSUME PayoutsAssumption, NoLateWebhook
  PROVE  Spec => []NoOverdraft
<1>1. Init => PayInv /\ MoneyInv /\ OpsOK  BY PayInit, MoneyInit
<1>2. PayInv /\ MoneyInv /\ OpsOK /\ [Next]_vars => PayInv' /\ MoneyInv' /\ OpsOK'
  BY PayNext, MoneyNext, StepActs
<1>3. MoneyInv => NoOverdraft  BY DEF MoneyInv
<1> QED BY <1>1, <1>2, <1>3, PTL DEF Spec

-----------------------------------------------------------------------------
(* One payout under way                                                    *)

(* At first nothing is under way.                                          *)
LEMMA PendingInit == ASSUME PayoutsAssumption PROVE Init => PendingInv
<1> SUFFICES ASSUME Init PROVE PendingInv  OBVIOUS
<1>1. \A r \in Req : ~Holding(job[r])  BY IdleIsJob DEF Init
<1>2. \A rail : InRail(rail, PENDING_STATUSES) = {}  BY DEF InRail, Init, NoRow, PENDING_STATUSES
<1> QED BY <1>1, <1>2 DEF PendingInv

(* While no handler retries another's orphan, a step leaves one payout     *)
(* under way, with its holder, and the settled ones settled.               *)
LEMMA PendingNext ==
  ASSUME PayoutsAssumption, NoRetries, PayInv, OpsOK, PendingInv, [Next]_vars
  PROVE  PendingInv' /\ SettledIsFinal
<1>0. payout \in [PayoutId -> Payout]  BY DEF PayInv, TypeOK
<1>1. CASE UNCHANGED <<payout, job>>
  BY <1>1 DEF PendingInv, SettledIsFinal, InRail, Holding, Posting, Claiming, Hearing
<1>2. ASSUME NEW r \in Req, Others(r), Acts(r) PROVE PendingInv' /\ SettledIsFinal
  <2>1. ASSUME NEW q \in Req, q # r, Holding(job'[q])
        PROVE  /\ Holding(job[q]) /\ job'[q] = job[q] /\ payout[job[q].payout].status \in PENDING_STATUSES
               /\ Exists(job[q].payout) /\ payout[job[q].payout].settlementRail = "omise"
               /\ \A o \in Req : Holding(job[o]) /\ job[o].payout = job[q].payout => o = q
               /\ ~OneRequest
    BY <1>2, <2>1, JobType DEF Others, PendingInv, JobKnows, OneRequest
  <2>2. ASSUME payout' = payout,
               Holding(job'[r]) => payout[job'[r].payout].status \in PENDING_STATUSES,
               OneRequest \/ (Holding(job'[r]) => Holding(job[r]) /\ job'[r].payout = job[r].payout)
        PROVE  PendingInv' /\ SettledIsFinal
    <3>1. ASSUME NEW q \in Req, Holding(job'[q]) PROVE
              /\ payout'[job'[q].payout].status \in PENDING_STATUSES
              /\ \A o \in Req : Holding(job'[o]) /\ job'[o].payout = job'[q].payout => o = q
      BY <2>1, <2>2, <3>1 DEF OneRequest
    <3> QED BY <2>2, <3>1 DEF PendingInv, SettledIsFinal, InRail, Holding, Posting, Claiming, Hearing
  <2>3. CASE GoesOn(r)  BY <2>2, <2>3 DEF GoesOn, PendingInv
  <2>4. CASE Hears(r)
    <3>1. OpOK(job'[r])  BY StepActs DEF OpsOK, OpOK, Hearing
    <3>2. "webhook" \in Handlers  BY <2>4, <3>1 DEF Hears, OpOK, Hearing
    <3>3. OneRequest  BY <3>2 DEF NoRetries
    <3> QED BY <2>2, <2>4, <3>3 DEF Hears
  <2>5. ASSUME NEW p \in PayoutId, NEW row \in Payout, payout' = [payout EXCEPT ![p] = row],
               \/ ~Exists(p) /\ InRail(row.settlementRail, PENDING_STATUSES) = {}
               \/ payout[p].status \in PENDING_STATUSES /\ row.settlementRail = payout[p].settlementRail,
               Holding(job'[r]) => job'[r].payout = p /\ row.status \in PENDING_STATUSES,
               \A q \in Req : q # r /\ Holding(job'[q]) => job'[q].payout # p
        PROVE  PendingInv' /\ SettledIsFinal
    <3>1. payout'[p] = row /\ \A o \in PayoutId : o # p => payout'[o] = payout[o]  BY <1>0, <2>5
    <3>2. ASSUME NEW rail \in PayoutSettlementRail,
                 NEW o \in InRail(rail, PENDING_STATUSES)', NEW q \in InRail(rail, PENDING_STATUSES)'
          PROVE  o = q
      BY <2>5, <3>1 DEF PendingInv, InRail
    <3>3. ASSUME NEW q \in Req, Holding(job'[q])
          PROVE  /\ payout'[job'[q].payout].status \in PENDING_STATUSES
                 /\ \A o \in Req : Holding(job'[o]) /\ job'[o].payout = job'[q].payout => o = q
      <4>1. CASE q = r  BY <2>5, <3>1, <3>3, <4>1
      <4>2. CASE q # r
        <5>1. payout'[job'[q].payout] = payout[job[q].payout]  BY <2>1, <2>5, <3>1, <3>3, <4>2 DEF Exists
        <5>2. ASSUME NEW o \in Req, Holding(job'[o]), job'[o].payout = job'[q].payout PROVE o = q
          BY <2>1, <2>5, <3>3, <4>2, <5>2
        <5> QED BY <2>1, <3>3, <4>2, <5>1, <5>2
      <4> QED BY <4>1, <4>2
    <3>4. SettledIsFinal
      BY <2>5, <3>1 DEF SettledIsFinal, Exists, PENDING_STATUSES
    <3> QED BY <3>2, <3>3, <3>4 DEF PendingInv, Holding, Posting, Claiming, Hearing
  <2>6. CASE Inserts(r)
    <3>1. PICK p \in PayoutId, row \in Payout :
            /\ ~Exists(p) /\ payout' = [payout EXCEPT ![p] = row] /\ row.status = "pending"
            /\ InRail(row.settlementRail, PENDING_STATUSES) = {}
            /\ Holding(job'[r]) => job'[r].payout = p
      BY <2>6 DEF Inserts
    <3>2. \A q \in Req : q # r /\ Holding(job'[q]) => job'[q].payout # p  BY <2>1, <3>1
    <3> QED BY <2>5, <3>1, <3>2 DEF PENDING_STATUSES
  <2>7. CASE Claims(r)
    <3>1. PICK p \in PayoutId, row \in Payout :
            /\ payout[p].status = "pending" /\ payout' = [payout EXCEPT ![p] = row]
            /\ row.status = "processing" /\ row.settlementRail = payout[p].settlementRail
            /\ job'[r].payout = p /\ job'[r].at = "claimedPost"
      BY <2>7 DEF Claims
    <3>2. OpOK(job'[r])  BY StepActs DEF OpsOK, OpOK, Hearing
    <3>3. OneRequest  BY <3>1, <3>2 DEF NoRetries, OpOK
    <3>4. \A q \in Req : q # r /\ Holding(job'[q]) => job'[q].payout # p  BY <3>3 DEF OneRequest
    <3> QED BY <2>5, <3>1, <3>4 DEF PENDING_STATUSES
  <2>8. CASE Saves(r)
    <3>1. PICK p \in PayoutId, row \in Payout :
            /\ p = job[r].payout /\ Exists(p) /\ payout' = [payout EXCEPT ![p] = row]
            /\ row.settlementRail = payout[p].settlementRail
            /\ Holding(job[r]) \/ (payout[p].status = "pending" /\ row.settlementRail = "manual")
            /\ ~Holding(job'[r])
      BY <2>8 DEF Saves
    <3>2. payout[p].status \in PENDING_STATUSES  BY <3>1 DEF PendingInv, PENDING_STATUSES
    <3>3. \A q \in Req : q # r /\ Holding(job'[q]) => job'[q].payout # p  BY <2>1, <3>1
    <3> QED BY <2>5, <3>1, <3>2, <3>3
  <2> QED BY <1>2, <2>3, <2>4, <2>6, <2>7, <2>8 DEF Acts
<1> QED BY <1>1, <1>2, StepActs

(* A set whose elements are all the same has at most one.                  *)
LEMMA AtMostOne ==
  ASSUME NEW S, \A x, y \in S : x = y
  PROVE  Cardinality(S) <= 1
<1>1. CASE S = {}  BY <1>1, FS_EmptySet
<1>2. ASSUME NEW x \in S PROVE Cardinality(S) <= 1
  <2>1. S = {x}  BY <1>2
  <2> QED BY <2>1, FS_Singleton
<1> QED BY <1>1, <1>2

(* Uniqueness is a cardinality.                                            *)
LEMMA PendingGives == PendingInv => OnePendingPayout
  BY AtMostOne DEF PendingInv, OnePendingPayout

(* One payout of a rail is under way at a time, and a decision on a payout *)
(* stands: of handlers beside each other where none retries an orphan and  *)
(* no webhook is among them, and of any handlers one at a time.            *)
THEOREM OnePayoutUnderWay ==
  ASSUME PayoutsAssumption, NoRetries
  PROVE  Spec => []OnePendingPayout /\ [][SettledIsFinal]_vars
<1>1. Init => PayInv /\ PendingInv /\ OpsOK  BY PayInit, PendingInit, MoneyInit
<1>2. PayInv /\ PendingInv /\ OpsOK /\ [Next]_vars => PayInv' /\ PendingInv' /\ OpsOK'
  BY PayNext, PendingNext, StepActs
<1>3. PendingInv => OnePendingPayout  BY PendingGives
<1>4. PayInv /\ PendingInv /\ OpsOK /\ [Next]_vars => [SettledIsFinal]_vars  BY PendingNext
<1> QED BY <1>1, <1>2, <1>3, <1>4, PTL DEF Spec

-----------------------------------------------------------------------------
(* One caller retries                                                      *)

(* At first nothing is claimed.                                            *)
LEMMA ClaimInit == ASSUME PayoutsAssumption PROVE Init => ClaimInv
<1> SUFFICES ASSUME Init PROVE ClaimInv  OBVIOUS
<1>1. \A r \in Req : job[r].at = "idle"  BY IdleIsJob DEF Init
<1> QED BY <1>1 DEF ClaimInv, ClaimIsExclusive, Claimed, Claiming

(* Who claims finds the payout pending, which nobody makes of a claimed    *)
(* payout but its claimer, who then is done with it.                       *)
LEMMA ClaimNext ==
  ASSUME PayoutsAssumption, PayInv, OpsOK, ClaimInv, [Next]_vars
  PROVE  ClaimInv'
<1>0. payout \in [PayoutId -> Payout]  BY DEF PayInv, TypeOK
<1>1. CASE UNCHANGED <<payout, job>>
  BY <1>1 DEF ClaimInv, ClaimIsExclusive, Claimed, Claiming
<1>2. ASSUME NEW r \in Req, Others(r), Acts(r) PROVE ClaimInv'
  <2>1. ASSUME NEW q \in Req, q # r, Claiming(job'[q])
        PROVE  /\ Claiming(job[q]) /\ job'[q] = job[q] /\ Exists(job[q].payout)
               /\ payout[job[q].payout].status # "pending"
               /\ \A o \in Req : Claimed(o, job[q].payout) => o = q
    <3>1. Claiming(job[q]) /\ job'[q] = job[q] /\ JobKnows(job[q])  BY <1>2, <2>1, JobType DEF Others
    <3>2. Exists(job[q].payout)  BY <3>1 DEF JobKnows, Holding, Posting, Claiming
    <3> QED BY <3>1, <3>2 DEF ClaimInv, ClaimIsExclusive, Claimed, Claiming, Exists
  <2>2. ASSUME \A q \in Req : Claiming(job'[q]) => payout'[job'[q].payout].status # "pending",
               \A q \in Req : q # r /\ Claiming(job'[q]) /\ Claiming(job'[r]) => job'[q].payout # job'[r].payout
        PROVE  ClaimInv'
    <3>1. ASSUME NEW p \in PayoutId, NEW q \in Req, NEW o \in Req, Claimed(q, p)', Claimed(o, p)'
          PROVE  q = o
      <4>1. Claiming(job'[q]) /\ Claiming(job'[o]) /\ job'[q].payout = p /\ job'[o].payout = p
        BY <3>1 DEF Claimed, Claiming
      <4>2. CASE q # r /\ o # r
        <5>1. job[q].payout = p /\ Claimed(o, p)  BY <2>1, <4>1, <4>2 DEF Claimed, Claiming
        <5> QED BY <2>1, <4>1, <4>2, <5>1
      <4> QED BY <2>2, <4>1, <4>2
    <3> QED BY <2>2, <3>1 DEF ClaimInv, ClaimIsExclusive, Claiming
  <2>3. CASE GoesOn(r)
    <3>1. Claiming(job'[r]) => Claiming(job[r]) /\ job'[r].payout = job[r].payout
      BY <2>3 DEF GoesOn, Claiming, Holding, Posting
    <3>2. \A q \in Req : Claiming(job'[q]) => Claiming(job[q]) /\ job'[q].payout = job[q].payout
      BY <2>1, <3>1
    <3>3. \A q \in Req : Claiming(job'[q]) => payout'[job'[q].payout].status # "pending"
      BY <2>3, <3>2 DEF GoesOn, ClaimInv
    <3>4. \A q \in Req : q # r /\ Claiming(job'[q]) /\ Claiming(job'[r]) => job'[q].payout # job'[r].payout
      BY <2>1, <3>1 DEF Claimed, Claiming
    <3> QED BY <2>2, <3>3, <3>4
  <2>4. CASE Hears(r)
    <3>1. payout' = payout /\ ~Claiming(job'[r])  BY <2>4 DEF Hears, Hearing, Claiming
    <3> QED BY <2>1, <2>2, <3>1
  <2>5. ASSUME NEW p \in PayoutId, NEW row \in Payout, payout' = [payout EXCEPT ![p] = row],
               \A q \in Req : q # r /\ Claiming(job'[q]) /\ job'[q].payout = p => row.status # "pending",
               Claiming(job'[r]) => job'[r].payout = p /\ row.status # "pending",
               \A q \in Req : q # r /\ Claiming(job'[q]) /\ Claiming(job'[r]) => job'[q].payout # p
        PROVE  ClaimInv'
    <3>1. payout'[p] = row /\ \A o \in PayoutId : o # p => payout'[o] = payout[o]  BY <1>0, <2>5
    <3>2. ASSUME NEW q \in Req, Claiming(job'[q]) PROVE payout'[job'[q].payout].status # "pending"
      <4>1. CASE q = r  BY <2>5, <3>1, <3>2, <4>1
      <4>2. CASE q # r  BY <2>1, <2>5, <3>1, <3>2, <4>2 DEF Exists
      <4> QED BY <4>1, <4>2
    <3> QED BY <2>2, <2>5, <3>2
  <2>6. CASE Inserts(r)
    <3>1. PICK p \in PayoutId, row \in Payout :
            ~Exists(p) /\ payout' = [payout EXCEPT ![p] = row] /\ ~Claiming(job'[r])
      BY <2>6 DEF Inserts
    <3>2. \A q \in Req : q # r /\ Claiming(job'[q]) => job'[q].payout # p  BY <2>1, <3>1
    <3> QED BY <2>5, <3>1, <3>2
  <2>7. CASE Claims(r)
    <3>1. PICK p \in PayoutId, row \in Payout :
            /\ payout[p].status = "pending" /\ payout' = [payout EXCEPT ![p] = row]
            /\ row.status = "processing" /\ job'[r].payout = p
      BY <2>7 DEF Claims
    <3>2. \A q \in Req : q # r /\ Claiming(job'[q]) => job'[q].payout # p  BY <2>1, <3>1
    <3> QED BY <2>5, <3>1, <3>2
  <2>8. CASE Saves(r)
    <3>1. PICK p \in PayoutId, row \in Payout :
            /\ p = job[r].payout /\ payout' = [payout EXCEPT ![p] = row] /\ ~Holding(job'[r])
            /\ row.status = "pending" => Claiming(job[r])
      BY <2>8 DEF Saves
    <3>2. ~Claiming(job'[r])  BY <3>1 DEF Claiming, Holding, Posting
    <3>3. ASSUME NEW q \in Req, q # r, Claiming(job'[q]), job'[q].payout = p, Claiming(job[r]) PROVE FALSE
      <4>1. Claimed(r, p)  BY <3>1, <3>3 DEF Claimed, Claiming
      <4> QED BY <2>1, <3>3, <4>1
    <3> QED BY <2>5, <3>1, <3>2, <3>3
  <2> QED BY <1>2, <2>3, <2>4, <2>6, <2>7, <2>8 DEF Acts
<1> QED BY <1>1, <1>2, StepActs

(* Of the handlers that retry a payout without a transfer one calls Omise  *)
(* and saves, however many there are, whichever webhooks overlap them,     *)
(* whatever is refused or lost and whoever dies.                           *)
THEOREM OneCallerRetries ==
  ASSUME PayoutsAssumption
  PROVE  Spec => []ClaimIsExclusive
<1>1. Init => PayInv /\ OpsOK /\ ClaimInv  BY PayInit, MoneyInit, ClaimInit
<1>2. PayInv /\ OpsOK /\ ClaimInv /\ [Next]_vars => PayInv' /\ OpsOK' /\ ClaimInv'
  BY PayNext, StepActs, ClaimNext
<1>3. ClaimInv => ClaimIsExclusive  BY DEF ClaimInv
<1> QED BY <1>1, <1>2, <1>3, PTL DEF Spec
=============================================================================
