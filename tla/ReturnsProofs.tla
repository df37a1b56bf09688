--------------------------- MODULE ReturnsProofs ---------------------------
(***************************************************************************)
(* Proofs about what comes back of an order: its money, in Refunds, for    *)
(* any number of returns, approval requests and webhook handlers and any   *)
(* total; and its goods, in ReverseLogistics, for any number of cases,     *)
(* lines and quarantine moves and any prices.  The two specifications      *)
(* share no variable; they share the sums over finite sets that come       *)
(* first.                                                                  *)
(***************************************************************************)
EXTENDS Refunds, ReverseLogistics, FiniteSetTheorems, WellFoundedInduction, TLAPS

-----------------------------------------------------------------------------
(***************************************************************************)
(* Sums over finite sets.  A fold takes the elements in an order of its    *)
(* own; by minimal counterexample among the subsets of a finite set, the   *)
(* order does not matter and sums behave as one expects.                   *)
(***************************************************************************)

\* Of finitely many things, every nonempty collection of sets has a smallest.
LEMMA SmallestSet ==
    ASSUME NEW S, IsFiniteSet(S), NEW B, B \subseteq SUBSET S, B # {}
    PROVE  \E T \in B : \A U \in B : ~(U \subseteq T /\ U # T)
<1>1. IsWellFoundedOn(StrictSubsetOrdering(S), SUBSET S)
    BY FS_StrictSubsetOrderingWellFounded, FS_FiniteSubsetsOfFinite
<1>2. PICK T \in B : \A U \in B : ~(<<U, T>> \in StrictSubsetOrdering(S))
    BY <1>1, WFMin
<1>3. ASSUME NEW U \in B, U \subseteq T, U # T
      PROVE  FALSE
    BY <1>2, <1>3 DEF StrictSubsetOrdering
<1> QED
    BY <1>2, <1>3

Member(T) == CHOOSE x \in T : TRUE

\* g sums f over every subset of S, in the order in which a fold takes them.
Sums(g, f, S) ==
    g = [T \in SUBSET S |-> IF T = {} THEN 0 ELSE f[Member(T)] + g[T \ {Member(T)}]]

LEMMA SumIsFold ==
    ASSUME NEW f, NEW S
    PROVE  SumFunctionOnSet(f, S) = (CHOOSE g : Sums(g, f, S))[S]
BY Zenon DEF SumFunctionOnSet, FoldFunctionOnSet, MapThenFoldSet, Sums, Member

\* Two such functions agree where both are defined.
LEMMA SumsCoincide ==
    ASSUME NEW f, NEW S, IsFiniteSet(S), NEW g, NEW h, NEW W \in SUBSET S, NEW V,
           NEW T \in SUBSET W, W \subseteq V,
           Sums(g, f, W), Sums(h, f, V)
    PROVE  g[T] = h[T]
<1> DEFINE B == {U \in SUBSET W : g[U] # h[U]}
<1> SUFFICES ASSUME B # {} PROVE FALSE
    OBVIOUS
<1>1. B \subseteq SUBSET S
    OBVIOUS
<1>2. PICK U \in B : \A D \in B : ~(D \subseteq U /\ D # U)
    <2> HIDE DEF B
    <2> QED BY <1>1, SmallestSet
<1>3. U # {}
    BY DEF Sums
<1>4. Member(U) \in U
    BY <1>3 DEF Member
<1>5. g[U \ {Member(U)}] = h[U \ {Member(U)}]
    BY <1>2, <1>4
<1>6. g[U] = f[Member(U)] + g[U \ {Member(U)}] /\ h[U] = f[Member(U)] + h[U \ {Member(U)}]
    BY <1>3 DEF Sums
<1> QED
    BY <1>5, <1>6

\* There is one for every finite set.
LEMMA SumsExist ==
    ASSUME NEW f, NEW S, IsFiniteSet(S)
    PROVE  \E g : Sums(g, f, S)
<1> DEFINE B == {U \in SUBSET S : ~ \E g : Sums(g, f, U)}
<1> SUFFICES ASSUME B # {} PROVE FALSE
    OBVIOUS
<1>1. PICK U \in B : \A D \in B : ~(D \subseteq U /\ D # U)
    <2>1. B \subseteq SUBSET S
        OBVIOUS
    <2> HIDE DEF B
    <2> QED BY <2>1, SmallestSet
<1> DEFINE part(D) == CHOOSE g : Sums(g, f, D)
           value(T) == IF T = {} THEN 0
                       ELSE f[Member(T)] + part(T \ {Member(T)})[T \ {Member(T)}]
           h == [T \in SUBSET U |-> value(T)]
<1>2. ASSUME NEW D \in SUBSET U, D # U
      PROVE  Sums(part(D), f, D)
    BY <1>1, <1>2
<1>3. ASSUME NEW T \in SUBSET U, T # {}
      PROVE  h[T \ {Member(T)}] = part(T \ {Member(T)})[T \ {Member(T)}]
    <2> DEFINE D == T \ {Member(T)}
    <2>1. Member(T) \in T
        BY <1>3 DEF Member
    <2>2. D \in SUBSET U /\ D # U
        BY <2>1
    <2>3. Sums(part(D), f, D)
        BY <1>2, <2>2
    <2>4. CASE D = {}
        BY <2>3, <2>4 DEF Sums
    <2>5. CASE D # {}
        <3> DEFINE E == D \ {Member(D)}
        <3>1. Member(D) \in D
            BY <2>5 DEF Member
        <3>2. E \in SUBSET D /\ E \in SUBSET U /\ E # U
            BY <2>2, <3>1
        <3>3. Sums(part(E), f, E)
            BY <1>2, <3>2
        <3>4. part(E)[E] = part(D)[E]
            <4> HIDE DEF part, E, D
            <4> QED BY <2>2, <2>3, <3>2, <3>3, SumsCoincide
        <3>5. part(D)[D] = f[Member(D)] + part(D)[E]
            BY <2>3, <2>5 DEF Sums
        <3> QED
            BY <2>2, <2>5, <3>4, <3>5
    <2> QED
        BY <2>4, <2>5
<1>4. h = [T \in SUBSET U |-> IF T = {} THEN 0 ELSE f[Member(T)] + h[T \ {Member(T)}]]
    <2>1. ASSUME NEW T \in SUBSET U
          PROVE  value(T) = IF T = {} THEN 0 ELSE f[Member(T)] + h[T \ {Member(T)}]
        <3> HIDE DEF h, part
        <3>1. CASE T = {}
            BY <3>1
        <3>2. CASE T # {}
            BY <1>3, <3>2
        <3> QED BY <3>1, <3>2
    <2> HIDE DEF value
    <2> QED BY <2>1, Zenon
<1>5. Sums(h, f, U)
    <2> HIDE DEF h
    <2> QED BY <1>4 DEF Sums
<1> QED
    BY <1>5

LEMMA SumTake ==
    ASSUME NEW f, NEW S, IsFiniteSet(S)
    PROVE  SumFunctionOnSet(f, S) =
             IF S = {} THEN 0
             ELSE f[Member(S)] + SumFunctionOnSet(f, S \ {Member(S)})
<1> DEFINE D == S \ {Member(S)}
           g == CHOOSE k : Sums(k, f, S)
           h == CHOOSE k : Sums(k, f, D)
<1>1. IsFiniteSet(D)
    BY FS_Subset
<1>2. Sums(g, f, S) /\ Sums(h, f, D)
    BY <1>1, SumsExist
<1>3. SumFunctionOnSet(f, S) = g[S] /\ SumFunctionOnSet(f, D) = h[D]
    BY SumIsFold
<1>4. g[D] = h[D]
    <2>1. D \in SUBSET S /\ D \in SUBSET D /\ D \subseteq S
        OBVIOUS
    <2> HIDE DEF g, h, D
    <2> QED BY <1>2, <2>1, SumsCoincide
<1>5. g[S] = IF S = {} THEN 0 ELSE f[Member(S)] + g[D]
    <2> HIDE DEF g
    <2> QED BY <1>2 DEF Sums
<1> QED
    BY <1>3, <1>4, <1>5

\* The sum of numbers of one kind is of that kind.
LEMMA SumClosed ==
    ASSUME NEW f, NEW S, IsFiniteSet(S), NEW D, \A x \in S : f[x] \in D,
           0 \in D, \A m, n \in D : m + n \in D
    PROVE  SumFunctionOnSet(f, S) \in D
<1> DEFINE B == {T \in SUBSET S : SumFunctionOnSet(f, T) \notin D}
<1> SUFFICES ASSUME B # {} PROVE FALSE
    OBVIOUS
<1>1. PICK T \in B : \A U \in B : ~(U \subseteq T /\ U # T)
    <2>1. B \subseteq SUBSET S
        OBVIOUS
    <2> HIDE DEF B
    <2> QED BY <2>1, SmallestSet
<1>2. IsFiniteSet(T)
    BY FS_Subset
<1>3. T # {}
    <2>1. SumFunctionOnSet(f, {}) = 0
        BY FS_EmptySet, SumTake
    <2> QED BY <2>1
<1>4. Member(T) \in T
    BY <1>3 DEF Member
<1>5. SumFunctionOnSet(f, T \ {Member(T)}) \in D
    BY <1>1, <1>4
<1>6. SumFunctionOnSet(f, T) = f[Member(T)] + SumFunctionOnSet(f, T \ {Member(T)})
    BY <1>2, <1>3, SumTake
<1> QED
    BY <1>4, <1>5, <1>6

LEMMA SumType ==
    ASSUME NEW f, NEW S, IsFiniteSet(S), NEW D \in {Int, Nat}, \A x \in S : f[x] \in D
    PROVE  SumFunctionOnSet(f, S) \in D
<1>1. 0 \in D /\ \A m, n \in D : m + n \in D
    OBVIOUS
<1> QED
    BY <1>1, SumClosed

LEMMA SumZero ==
    ASSUME NEW f, NEW S, IsFiniteSet(S), \A x \in S : f[x] = 0
    PROVE  SumFunctionOnSet(f, S) = 0
<1>1. \A m, n \in {0} : m + n \in {0}
    OBVIOUS
<1>2. SumFunctionOnSet(f, S) \in {0}
    BY <1>1, SumClosed
<1> QED
    BY <1>2

\* Member element can be taken first.
LEMMA SumRemove ==
    ASSUME NEW f, NEW S, IsFiniteSet(S), \A x \in S : f[x] \in Int, NEW x \in S
    PROVE  SumFunctionOnSet(f, S) = f[x] + SumFunctionOnSet(f, S \ {x})
<1> DEFINE B == {T \in SUBSET S : \E y \in T :
                    SumFunctionOnSet(f, T) # f[y] + SumFunctionOnSet(f, T \ {y})}
<1> SUFFICES ASSUME B # {} PROVE FALSE
    OBVIOUS
<1>1. PICK T \in B : \A D \in B : ~(D \subseteq T /\ D # T)
    <2>1. B \subseteq SUBSET S
        OBVIOUS
    <2> HIDE DEF B
    <2> QED BY <2>1, SmallestSet
<1>2. PICK y \in T : SumFunctionOnSet(f, T) # f[y] + SumFunctionOnSet(f, T \ {y})
    OBVIOUS
<1> DEFINE z == Member(T)
           C == T \ {y, z}
<1>3. z \in T
    BY DEF Member
<1>4. SumFunctionOnSet(f, T) = f[z] + SumFunctionOnSet(f, T \ {z})
    <2>1. IsFiniteSet(T)
        BY FS_Subset
    <2> QED BY <1>2, <2>1, SumTake
<1>5. y # z
    BY <1>2, <1>4
<1>6. SumFunctionOnSet(f, T \ {z}) = f[y] + SumFunctionOnSet(f, C)
    <2>1. (T \ {z}) \ {y} = C /\ T \ {z} # T /\ y \in T \ {z}
        BY <1>3, <1>5
    <2> QED BY <1>1, <2>1
<1>7. SumFunctionOnSet(f, T \ {y}) = f[z] + SumFunctionOnSet(f, C)
    <2>1. (T \ {y}) \ {z} = C /\ T \ {y} # T /\ z \in T \ {y}
        BY <1>3, <1>5
    <2> QED BY <1>1, <2>1
<1>8. SumFunctionOnSet(f, C) \in Int /\ f[y] \in Int /\ f[z] \in Int
    <2>1. IsFiniteSet(C) /\ C \subseteq S
        BY FS_Subset
    <2> QED BY <1>3, <2>1, SumType
<1> HIDE DEF z, C
<1> QED
    BY <1>2, <1>4, <1>6, <1>7, <1>8

\* A sum grows with its values.
LEMMA SumGrows ==
    ASSUME NEW f, NEW g, NEW S, IsFiniteSet(S),
           \A x \in S : f[x] \in Int /\ g[x] \in Int /\ f[x] =< g[x]
    PROVE  SumFunctionOnSet(f, S) =< SumFunctionOnSet(g, S)
<1> DEFINE B == {T \in SUBSET S :
                    ~(SumFunctionOnSet(f, T) =< SumFunctionOnSet(g, T))}
<1> SUFFICES ASSUME B # {} PROVE FALSE
    OBVIOUS
<1>1. PICK T \in B : \A D \in B : ~(D \subseteq T /\ D # T)
    <2>1. B \subseteq SUBSET S
        OBVIOUS
    <2> HIDE DEF B
    <2> QED BY <2>1, SmallestSet
<1> DEFINE z == Member(T)
           D == T \ {z}
<1>2. IsFiniteSet(T) /\ IsFiniteSet(D) /\ D \subseteq S
    BY FS_Subset
<1>3. T # {}
    <2>1. SumFunctionOnSet(f, {}) = 0 /\ SumFunctionOnSet(g, {}) = 0
        BY FS_EmptySet, SumTake
    <2> QED BY <2>1
<1>4. z \in T /\ D # T
    BY <1>3 DEF Member
<1>5. SumFunctionOnSet(f, D) =< SumFunctionOnSet(g, D)
    BY <1>1, <1>4
<1>6. /\ SumFunctionOnSet(f, T) = f[z] + SumFunctionOnSet(f, D)
      /\ SumFunctionOnSet(g, T) = g[z] + SumFunctionOnSet(g, D)
    BY <1>2, <1>3, SumTake
<1>7. SumFunctionOnSet(f, D) \in Int /\ SumFunctionOnSet(g, D) \in Int
    BY <1>2, SumType
<1>8. f[z] \in Int /\ g[z] \in Int /\ f[z] =< g[z]
    BY <1>4
<1> HIDE DEF z, D
<1> QED
    BY <1>5, <1>6, <1>7, <1>8

\* Functions that agree have the same sum.
LEMMA SumSame ==
    ASSUME NEW f, NEW g, NEW S, IsFiniteSet(S),
           \A x \in S : f[x] \in Int /\ f[x] = g[x]
    PROVE  SumFunctionOnSet(f, S) = SumFunctionOnSet(g, S)
<1>1. /\ SumFunctionOnSet(f, S) =< SumFunctionOnSet(g, S)
      /\ SumFunctionOnSet(g, S) =< SumFunctionOnSet(f, S)
    BY SumGrows
<1>2. SumFunctionOnSet(f, S) \in Int /\ SumFunctionOnSet(g, S) \in Int
    BY SumType
<1> QED
    BY <1>1, <1>2

\* A sum is less if no value is greater and one is less.
LEMMA SumGrowsStrictly ==
    ASSUME NEW f, NEW g, NEW S, IsFiniteSet(S),
           \A x \in S : f[x] \in Int /\ g[x] \in Int /\ f[x] =< g[x],
           NEW s \in S, f[s] < g[s]
    PROVE  SumFunctionOnSet(f, S) < SumFunctionOnSet(g, S)
<1> DEFINE D == S \ {s}
<1>1. IsFiniteSet(D)
    BY FS_Subset
<1>2. SumFunctionOnSet(f, D) =< SumFunctionOnSet(g, D)
    BY <1>1, SumGrows
<1>3. SumFunctionOnSet(f, D) \in Int /\ SumFunctionOnSet(g, D) \in Int
    BY <1>1, SumType
<1>4. /\ SumFunctionOnSet(f, S) = f[s] + SumFunctionOnSet(f, D)
      /\ SumFunctionOnSet(g, S) = g[s] + SumFunctionOnSet(g, D)
    BY SumRemove
<1> HIDE DEF D
<1> QED
    BY <1>2, <1>3, <1>4

-----------------------------------------------------------------------------

(***************************************************************************)
(* The inductive invariant.  What an actor has seen may be stale, but the  *)
(* provider never takes back a success or a cancellation, so an outcome    *)
(* that somebody still carries is the refund's outcome.                    *)
(***************************************************************************)

\* Statuses of a return that nobody has approved yet.
Unapproved == {"none", "requested"}

\* A bound return has a refund at the provider, one that has was approved, and
\* an approval is what fixes an amount.
BoundIsKnown ==
    \A r \in Returns :
        /\ db.ret[r].bound => prov[r] # "none"
        /\ prov[r] # "none" => db.ret[r].amount > 0
        /\ db.ret[r].amount > 0 <=> db.ret[r].status \notin Unapproved

\* A webhook handler carries a success.
HooksAreReal == \A h \in hooks : prov[h.ret] = "succeeded"

\* An answer worth applying to return r.
Trustworthy(r, seen) ==
    /\ seen \in ProviderStatus
    /\ seen # "pending" => prov[r] = seen

\* An approval works on a return with a fixed amount, and an answer is real.
ApprovalIsReal(a) ==
    appr[a].pc # "idle" =>
        /\ db.ret[appr[a].ret].amount > 0
        /\ appr[a].pc = "apply" =>
              prov[appr[a].ret] # "none" /\ Trustworthy(appr[a].ret, appr[a].seen)
        /\ appr[a].pc = "review" => prov[appr[a].ret] # "none"

ApprovalsAreReal == \A a \in Approvers : ApprovalIsReal(a)

\* The job works on bound returns, and a usable answer is real.
JobIsReal ==
    /\ \A r \in job.todo : db.ret[r].bound
    /\ job.pc # "idle" => db.ret[job.ret].bound
    /\ job.pc = "apply" => job.seen = "bad" \/ Trustworthy(job.ret, job.seen)

IInv == /\ TypeOK /\ OutcomeIsReal /\ UnderWayHasReturn
        /\ BoundIsKnown /\ HooksAreReal /\ ApprovalsAreReal /\ JobIsReal

(***************************************************************************)
(* What every domain function leaves alone: the other returns, what this   *)
(* one consists of and its refund id.                                      *)
(***************************************************************************)
Moved(d, e, r) ==
    /\ e \in Database
    /\ \A s \in Returns \ {r} : e.ret[s] = d.ret[s]
    /\ e.ret[r].amount = d.ret[r].amount
    /\ e.ret[r].item = d.ret[r].item /\ e.ret[r].units = d.ret[r].units
    /\ e.ret[r].bound = d.ret[r].bound

\* The order is under way because of this return, or was before and still is.
UnderWayOK(d, e, r) ==
    e.pay \in UnderWay =>
        \/ e.ret[r].status \in InFlight
        \/ /\ d.pay \in UnderWay
           /\ d.ret[r].status \notin InFlight

\* The two databases differ in return r, whose refund stays known and real.
Backed(d, e, r) ==
    /\ e \in Database
    /\ \A s \in Returns \ {r} : e.ret[s] = d.ret[s]
    /\ d.ret[r].amount > 0 => e.ret[r].amount > 0
    /\ e.ret[r].amount > 0 <=> e.ret[r].status \notin Unapproved
    /\ d.ret[r].bound => e.ret[r].bound
    /\ e.ret[r].bound => prov[r] # "none"
    /\ e.ret[r].status \in Final => prov[r] = "succeeded" /\ e.ret[r].bound
    /\ e.ret[r].status = "failed" => prov[r] = "canceled" /\ e.ret[r].bound
    /\ UnderWayOK(d, e, r)

(***************************************************************************)
(* The two effects a transaction may have on the money: none, or return r  *)
(* is paid back.                                                           *)
(***************************************************************************)

\* The two databases agree on the other returns and on what r consists of.
SameParts(d, e, r) ==
    /\ \A s \in Returns \ {r} : e.ret[s] = d.ret[s]
    /\ e.ret[r].amount = d.ret[r].amount
    /\ e.ret[r].item = d.ret[r].item /\ e.ret[r].units = d.ret[r].units

\* The order waits for a refund, stays as it is, or r's was canceled.
PaysNothing(d, e, r) ==
    /\ SameParts(d, e, r)
    /\ d.ret[r].status \notin Final /\ e.ret[r].status \notin Final
    /\ e.restored = d.restored
    /\ \/ e.pay \in UnderWay
       \/ /\ e.pay = d.pay
          /\ e.ret[r].status \in InFlight => d.ret[r].status \in InFlight
       \/ /\ e.ret[r].status = "failed"
          /\ e.pay = IF CompletedBesides(d, r) > 0 THEN "partially_refunded" ELSE "paid"

PaysBack(d, e, r) ==
    /\ SameParts(d, e, r)
    /\ d.ret[r].status \notin Final /\ e.ret[r].status \in Final
    /\ IF CompletedBesides(d, r) + d.ret[r].amount = Total
       THEN e.pay = "refunded" /\ e.restored = d.restored + 1
       ELSE e.pay = "partially_refunded" /\ e.restored = d.restored

-----------------------------------------------------------------------------
\* The statuses are strings of disjoint sets; stated once for the leaves below.
LEMMA Statuses ==
    /\ Final \subseteq ReturnStatus /\ InFlight \subseteq ReturnStatus
    /\ "failed" \in ReturnStatus /\ "requested" \in ReturnStatus
    /\ "failed" \notin Final \cup InFlight
    /\ "requested" \notin Final \cup InFlight /\ "none" \notin Final \cup InFlight
    /\ \A s \in Final \cup InFlight \cup {"failed"} : s \notin Unapproved
    /\ "requested" \in Unapproved /\ "none" \in Unapproved
    /\ \A s \in Final : s # "failed" /\ s \notin InFlight /\ s \in JobFinal
    /\ {"processing", "refund_pending", "refund_review_required",
        "refund_retry_required"} \subseteq InFlight
BY DEF Final, InFlight, ReturnStatus, OpenReturn, JobFinal, Unapproved

\* A database with a return's status and the order's columns replaced.
Updated(d, r, fate, order, pay, restored) ==
    [d EXCEPT !.ret = [d.ret EXCEPT ![r] = [@ EXCEPT !.status = fate]],
              !.status = order, !.pay = pay, !.restored = restored]

\* It is a database, and the rest is left alone.
LEMMA UpdatedMoves ==
    ASSUME NEW d \in Database, NEW r \in Returns, NEW fate \in ReturnStatus,
           NEW order \in OrderStatus, NEW pay \in OrderPayment, NEW restored \in Nat
    PROVE  /\ Moved(d, Updated(d, r, fate, order, pay, restored), r)
           /\ Updated(d, r, fate, order, pay, restored).ret[r].status = fate
           /\ Updated(d, r, fate, order, pay, restored).pay = pay
           /\ Updated(d, r, fate, order, pay, restored).restored = restored
BY DEF Updated, Moved, Database, ReturnRow

\* A success makes the return final and takes the order out of its refund.
LEMMA SucceededMoves ==
    ASSUME NEW d \in Database, NEW r \in Returns
    PROVE  /\ Moved(d, Succeeded(d, r), r)
           /\ Succeeded(d, r).ret[r].status \in Final
           /\ Succeeded(d, r).pay \notin UnderWay
           /\ IF CompletedBesides(d, r) + d.ret[r].amount = Total
              THEN /\ Succeeded(d, r).pay = "refunded"
                   /\ Succeeded(d, r).restored = d.restored + 1
              ELSE /\ Succeeded(d, r).pay = "partially_refunded"
                   /\ Succeeded(d, r).restored = d.restored
<1>1. CASE CompletedBesides(d, r) + d.ret[r].amount = Total
    <2>1. Succeeded(d, r) =
            Updated(d, r, "approved", "refunded", "refunded", d.restored + 1)
        BY <1>1 DEF Succeeded, SetOrder, Database, Updated
    <2>2. d.restored + 1 \in Nat
        BY DEF Database
    <2>3. /\ "refunded" \in OrderStatus /\ "refunded" \in OrderPayment
          /\ "refunded" \notin UnderWay
          /\ "approved" \in Final /\ "approved" \in ReturnStatus
        BY DEF OrderStatus, OrderPayment, UnderWay, Final, ReturnStatus
    <2> QED
        BY <1>1, <2>1, <2>2, <2>3, UpdatedMoves
<1>2. CASE CompletedBesides(d, r) + d.ret[r].amount # Total
    BY <1>2 DEF Succeeded, SetOrder, Moved, Database, ReturnRow, ReturnStatus,
       OpenReturn, InFlight, Final, OrderStatus, OrderPayment, Approvable, UnderWay
<1> QED
    BY <1>1, <1>2

\* A cancellation fails the return and takes the order out of its refund.
LEMMA CanceledMoves ==
    ASSUME NEW d \in Database, NEW r \in Returns
    PROVE  /\ Moved(d, Canceled(d, r), r)
           /\ Canceled(d, r).ret[r].status = "failed"
           /\ Canceled(d, r).pay \notin UnderWay
           /\ Canceled(d, r).pay = IF CompletedBesides(d, r) > 0
                                  THEN "partially_refunded" ELSE "paid"
           /\ Canceled(d, r).restored = d.restored
<1>1. CASE CompletedBesides(d, r) > 0
    BY <1>1 DEF Canceled, SetOrder, Moved, Database, ReturnRow, ReturnStatus,
       OpenReturn, InFlight, OrderStatus, OrderPayment, Approvable, UnderWay
<1>2. CASE ~(CompletedBesides(d, r) > 0)
    BY <1>2 DEF Canceled, SetOrder, Moved, Database, ReturnRow, ReturnStatus,
       OpenReturn, InFlight, OrderStatus, OrderPayment, Approvable, UnderWay
<1> QED
    BY <1>1, <1>2

\* Pending and review keep the order's refund under way with the return's.
LEMMA PendingMoves ==
    ASSUME NEW d \in Database, NEW r \in Returns
    PROVE  /\ Moved(d, Pending(d, r), r) /\ Pending(d, r).ret[r].status \in InFlight
           /\ Pending(d, r).pay \in UnderWay /\ Pending(d, r).restored = d.restored
BY DEF Pending, SetOrder, Moved, Database, ReturnRow, ReturnStatus,
   OpenReturn, InFlight, OrderStatus, OrderPayment, Approvable, UnderWay

LEMMA ReviewMoves ==
    ASSUME NEW d \in Database, NEW r \in Returns
    PROVE  /\ Moved(d, Review(d, r), r) /\ Review(d, r).ret[r].status \in InFlight
           /\ Review(d, r).pay \in UnderWay /\ Review(d, r).restored = d.restored
BY DEF Review, SetOrder, Moved, Database, ReturnRow, ReturnStatus,
   OpenReturn, InFlight, OrderStatus, OrderPayment, Approvable, UnderWay

\* A retry moves the order only if it was processing, the return likewise.
LEMMA MarkRetryMoves ==
    ASSUME NEW d \in Database, NEW r \in Returns
    PROVE  /\ Moved(d, MarkRetry(d, r), r)
           /\ \/ MarkRetry(d, r).ret[r].status = d.ret[r].status
              \/ /\ MarkRetry(d, r).ret[r].status \in InFlight
                 /\ d.ret[r].status \in InFlight
           /\ \/ MarkRetry(d, r).pay = d.pay
              \/ d.pay \in UnderWay /\ MarkRetry(d, r).pay \in UnderWay
           /\ MarkRetry(d, r).restored = d.restored
<1>1. CASE d.ret[r].status \in Final
    <2>1. MarkRetry(d, r) = d
        BY <1>1 DEF MarkRetry
    <2> QED
        BY <2>1 DEF Moved
<1>2. CASE d.ret[r].status \notin Final
    <2> DEFINE fate == IF d.ret[r].status = "processing"
                         THEN "refund_retry_required" ELSE d.ret[r].status
               taken == d.pay = "refund_processing"
               order == IF taken THEN "refund_requested" ELSE d.status
               pay == IF taken THEN "refund_pending" ELSE d.pay
    <2>1. MarkRetry(d, r) = Updated(d, r, fate, order, pay, d.restored)
        <3>1. CASE d.ret[r].status = "processing"
            BY <1>2, <3>1 DEF MarkRetry, SetOrder, Database, Updated
        <3>2. CASE d.ret[r].status # "processing"
            BY <1>2, <3>2 DEF MarkRetry, SetOrder, Database, ReturnRow, Updated
        <3> QED
            BY <3>1, <3>2
    <2>2. /\ d.restored \in Nat /\ d.status \in OrderStatus /\ d.pay \in OrderPayment
          /\ d.ret[r].status \in ReturnStatus
        BY DEF Database, ReturnRow
    <2>3. /\ "refund_requested" \in OrderStatus /\ "refund_pending" \in OrderPayment
          /\ "refund_processing" \in UnderWay /\ "refund_pending" \in UnderWay
          /\ "processing" \in InFlight /\ "refund_retry_required" \in InFlight
          /\ "refund_retry_required" \in ReturnStatus
        BY DEF OrderStatus, OrderPayment, Approvable, UnderWay, InFlight,
           ReturnStatus, OpenReturn
    <2>4. fate \in ReturnStatus /\ order \in OrderStatus /\ pay \in OrderPayment
        BY <2>2, <2>3
    <2>5. /\ Moved(d, MarkRetry(d, r), r)
          /\ MarkRetry(d, r).ret[r].status = fate
          /\ MarkRetry(d, r).pay = pay /\ MarkRetry(d, r).restored = d.restored
        <3> HIDE DEF fate, order, pay
        <3> QED
            BY <2>1, <2>2, <2>4, UpdatedMoves
    <2> QED
        BY <2>3, <2>5
<1> QED
    BY <1>1, <1>2

\* Binding a return's refund changes nothing else.
Bind(d, r, bound) == [d EXCEPT !.ret[r].bound = bound]

LEMMA BindMoves ==
    ASSUME NEW d \in Database, NEW r \in Returns, NEW bound \in BOOLEAN
    PROVE  /\ Bind(d, r, bound) \in Database
           /\ \A s \in Returns \ {r} : Bind(d, r, bound).ret[s] = d.ret[s]
           /\ Bind(d, r, bound).ret[r].amount = d.ret[r].amount
           /\ Bind(d, r, bound).ret[r].status = d.ret[r].status
           /\ Bind(d, r, bound).ret[r].item = d.ret[r].item
           /\ Bind(d, r, bound).ret[r].units = d.ret[r].units
           /\ Bind(d, r, bound).ret[r].bound = bound
           /\ Bind(d, r, bound).pay = d.pay
           /\ Bind(d, r, bound).restored = d.restored
BY DEF Bind, Database, ReturnRow

\* What applying a trustworthy answer does to a return that is not final.
LEMMA ApplyMoves ==
    ASSUME NEW d \in Database, NEW r \in Returns, NEW seen \in ProviderStatus,
           d.ret[r].status \notin Final, NEW e, e = Apply(d, r, seen)
    PROVE  /\ Moved(d, e, r) /\ UnderWayOK(d, e, r)
           /\ \/ seen = "succeeded" /\ e.ret[r].status \in Final
              \/ seen = "canceled" /\ e.ret[r].status = "failed"
              \/ seen = "pending" /\ e.ret[r].status \in InFlight
           /\ \/ seen = "succeeded" /\ PaysBack(d, e, r)
              \/ PaysNothing(d, e, r)
<1>1. CASE seen = "succeeded"
    <2>1. e = Succeeded(d, r)
        BY <1>1 DEF Apply
    <2>2. PaysBack(d, e, r)
        BY <2>1, SucceededMoves DEF PaysBack, SameParts, Moved
    <2> QED
        BY <1>1, <2>1, <2>2, SucceededMoves DEF UnderWayOK
<1>2. CASE seen = "canceled"
    <2>1. e = Canceled(d, r)
        BY <1>2 DEF Apply
    <2>2. PaysNothing(d, e, r)
        BY <2>1, CanceledMoves, Statuses DEF PaysNothing, SameParts, Moved
    <2> QED
        BY <1>2, <2>1, <2>2, CanceledMoves DEF UnderWayOK
<1>3. CASE seen = "pending"
    <2>1. e = Pending(d, r)
        BY <1>3 DEF Apply
    <2>2. PaysNothing(d, e, r)
        BY <2>1, PendingMoves, Statuses DEF PaysNothing, SameParts, Moved
    <2> QED
        BY <1>3, <2>1, <2>2, PendingMoves DEF UnderWayOK
<1> QED
    BY <1>1, <1>2, <1>3 DEF ProviderStatus

-----------------------------------------------------------------------------
\* From the database with the refund bound or not, a real outcome is backed.
LEMMA MovedIsBacked ==
    ASSUME TypeOK, NEW r \in Returns, NEW d, NEW e, Moved(d, e, r),
           UnderWayOK(d, e, r),
           \A s \in Returns \ {r} : d.ret[s] = db.ret[s],
           d.ret[r].amount = db.ret[r].amount, d.ret[r].status = db.ret[r].status,
           d.pay = db.pay,
           db.ret[r].bound => d.ret[r].bound,
           d.ret[r].bound => prov[r] # "none",
           db.ret[r].amount > 0 <=> e.ret[r].status \notin Unapproved,
           e.ret[r].status \in Final => prov[r] = "succeeded" /\ d.ret[r].bound,
           e.ret[r].status = "failed" => prov[r] = "canceled" /\ d.ret[r].bound
    PROVE  Backed(db, e, r)
BY DEF Moved, Backed, UnderWayOK

\* A transaction that keeps the refunds backed keeps the invariant's parts.
LEMMA BackedStep ==
    ASSUME IInv, NEW r \in Returns, Backed(db, db', r), UNCHANGED prov
    PROVE  /\ OutcomeIsReal' /\ UnderWayHasReturn' /\ BoundIsKnown'
           /\ hooks' \subseteq hooks => HooksAreReal'
           /\ \A a \in Approvers :
                 UNCHANGED appr[a] \/ appr'[a].pc = "idle" => ApprovalIsReal(a)'
           /\ job'.pc = "idle" /\ job'.todo \subseteq job.todo => JobIsReal'
           /\ UNCHANGED job => JobIsReal'
<1> USE DEF Backed
<1>1. OutcomeIsReal'
    BY DEF IInv, OutcomeIsReal
<1>2. UnderWayHasReturn'
    BY DEF IInv, UnderWayHasReturn, UnderWayOK
<1>3. BoundIsKnown'
    BY DEF IInv, BoundIsKnown
<1>4. hooks' \subseteq hooks => HooksAreReal'
    BY DEF IInv, HooksAreReal
<1>5. ASSUME NEW a \in Approvers, UNCHANGED appr[a] \/ appr'[a].pc = "idle"
      PROVE  ApprovalIsReal(a)'
    <2>1. SUFFICES ASSUME UNCHANGED appr[a], appr[a].pc # "idle"
                   PROVE  ApprovalIsReal(a)'
        BY <1>5 DEF ApprovalIsReal
    <2>2. appr[a].ret \in Returns /\ ApprovalIsReal(a)
        BY <2>1 DEF IInv, TypeOK, ApprovalsAreReal
    <2>3. db.ret[appr[a].ret].amount > 0 => db'.ret[appr[a].ret].amount > 0
        BY <2>2
    <2> QED
        BY <2>1, <2>2, <2>3 DEF ApprovalIsReal, Trustworthy
<1>6. \A s \in Returns : db.ret[s].bound => db'.ret[s].bound
    OBVIOUS
<1>7. job.todo \subseteq Returns /\ (job.pc # "idle" => job.ret \in Returns)
    BY DEF IInv, TypeOK, Job
<1>8. job'.pc = "idle" /\ job'.todo \subseteq job.todo => JobIsReal'
    BY <1>6, <1>7 DEF IInv, JobIsReal
<1>9. UNCHANGED job => JobIsReal'
    BY <1>6, <1>7 DEF IInv, JobIsReal, Trustworthy
<1> QED
    BY <1>1, <1>2, <1>3, <1>4, <1>5, <1>8, <1>9

\* A transaction that leaves the database as it is.
LEMMA SameStep ==
    ASSUME IInv, UNCHANGED <<db, prov>>
    PROVE  /\ OutcomeIsReal' /\ UnderWayHasReturn' /\ BoundIsKnown'
           /\ hooks' \subseteq hooks => HooksAreReal'
           /\ \A a \in Approvers :
                 UNCHANGED appr[a] \/ appr'[a].pc = "idle" => ApprovalIsReal(a)'
           /\ job'.pc = "idle" /\ job'.todo \subseteq job.todo => JobIsReal'
           /\ UNCHANGED job => JobIsReal'
BY DEF IInv, OutcomeIsReal, UnderWayHasReturn, BoundIsKnown, HooksAreReal,
   ApprovalsAreReal, ApprovalIsReal, JobIsReal, Trustworthy

\* A refund that is created or concludes: nothing the provider said is undone.
LEMMA ProviderStep ==
    ASSUME IInv, NEW r \in Returns, NEW s \in ProviderStatus, UNCHANGED db,
           prov' = [prov EXCEPT ![r] = s], prov[r] \in {"none", "pending", s},
           db.ret[r].amount > 0
    PROVE  /\ OutcomeIsReal' /\ UnderWayHasReturn' /\ BoundIsKnown'
           /\ UNCHANGED hooks => HooksAreReal'
           /\ \A a \in Approvers : UNCHANGED appr[a] => ApprovalIsReal(a)'
           /\ UNCHANGED job => JobIsReal'
           /\ prov' \in [Returns -> ProviderStatus \cup {"none"}]
           /\ prov'[r] = s
<1>1. /\ prov' \in [Returns -> ProviderStatus \cup {"none"}]
      /\ \A q \in Returns : /\ prov[q] \in {"succeeded", "canceled"} => prov'[q] = prov[q]
                            /\ prov[q] # "none" => prov'[q] # "none"
      /\ prov'[r] = s
    BY DEF IInv, TypeOK, ProviderStatus
<1>2. OutcomeIsReal' /\ UnderWayHasReturn' /\ BoundIsKnown'
    BY <1>1 DEF IInv, OutcomeIsReal, UnderWayHasReturn, BoundIsKnown
<1>3. UNCHANGED hooks => HooksAreReal'
    BY <1>1 DEF IInv, TypeOK, Hook, HooksAreReal
<1>4. ASSUME NEW q \in Returns, NEW seen, Trustworthy(q, seen)
      PROVE  Trustworthy(q, seen)'
    BY <1>1, <1>4 DEF Trustworthy, ProviderStatus
<1>5. ASSUME NEW a \in Approvers, UNCHANGED appr[a] PROVE ApprovalIsReal(a)'
    BY <1>1, <1>4, <1>5 DEF IInv, TypeOK, ApprovalsAreReal, ApprovalIsReal
<1>6. UNCHANGED job => JobIsReal'
    BY <1>1, <1>4 DEF IInv, TypeOK, JobIsReal
<1> QED
    BY <1>1, <1>2, <1>3, <1>5, <1>6

-----------------------------------------------------------------------------
\* The initial states satisfy the invariant.
LEMMA InitIInv == Init => IInv
<1> SUFFICES ASSUME Init PROVE IInv
    OBVIOUS
<1>1. TypeOK
    <2>1. db \in Database
        BY TotalAssumption, QuantityAssumption DEF Init, Database, ReturnRow, ReturnStatus, OrderStatus,
           OrderPayment, Approvable
    <2> QED
        BY <2>1 DEF Init, TypeOK, Approval, IdleApproval, Hook, Job, IdleJob, Answers
<1>2. \A r \in Returns : db.ret[r].status = "none" /\ ~db.ret[r].bound
    BY DEF Init
<1>3. db.pay \notin UnderWay
    BY DEF Init, UnderWay
<1> QED
    BY <1>1, <1>2, <1>3, Statuses DEF Init, IInv, OutcomeIsReal, UnderWayHasReturn,
       BoundIsKnown, HooksAreReal, ApprovalsAreReal, ApprovalIsReal, IdleApproval,
       JobIsReal, IdleJob

\* Opening a return request: the order's payment is not touched.
LEMMA CreateReturnStep ==
    ASSUME IInv, NEW r \in Returns, CreateReturn(r)
    PROVE  IInv'
<1>1. /\ db' \in Database
      /\ \A s \in Returns \ {r} : db'.ret[s] = db.ret[s]
      /\ db'.ret[r].amount = db.ret[r].amount /\ db'.ret[r].bound = db.ret[r].bound
      /\ db'.ret[r].status = "requested" /\ db.ret[r].status = "none"
      /\ db'.pay = db.pay
    BY DEF IInv, TypeOK, CreateReturn, Database, ReturnRow, ReturnStatus, OpenReturn,
       OrderStatus
<1>2. Backed(db, db', r)
    BY <1>1, Statuses DEF Backed, UnderWayOK, IInv, BoundIsKnown
<1>3. UNCHANGED <<prov, appr, hooks, job>>
    BY DEF CreateReturn
<1>4. TypeOK'
    BY <1>1, <1>3 DEF IInv, TypeOK
<1> QED
    BY <1>2, <1>3, <1>4, BackedStep DEF IInv, ApprovalsAreReal

\* The first transaction of an approval reserves an amount for the return.
LEMMA ApproveStep ==
    ASSUME IInv, NEW a \in Approvers, NEW r \in Returns, NEW c \in Compositions,
           Approve(a, r, c)
    PROVE  IInv'
<1>1. /\ db' \in Database
      /\ \A s \in Returns \ {r} : db'.ret[s] = db.ret[s]
      /\ db'.ret[r].amount = c.amount /\ db'.ret[r].bound = db.ret[r].bound
      /\ db'.ret[r].status = "processing"
    <2>1. "processing" \in ReturnStatus /\ "refund_requested" \in OrderStatus
          /\ "refund_processing" \in OrderPayment
        BY DEF ReturnStatus, OpenReturn, InFlight, OrderStatus, OrderPayment,
           Approvable, UnderWay
    <2>2. db'.ret[r] = [status |-> "processing", amount |-> c.amount, item |-> c.item,
                        units |-> c.units, bound |-> db.ret[r].bound]
        BY DEF IInv, TypeOK, Approve, SetOrder, Database, ReturnRow
    <2>3. db'.ret[r] \in ReturnRow
        BY <2>1, <2>2, TotalAssumption, QuantityAssumption
        DEF Compositions, IInv, TypeOK, Database, ReturnRow
    <2>4. db' = [db EXCEPT !.ret = [db.ret EXCEPT ![r] = db'.ret[r]],
                           !.status = "refund_requested", !.pay = "refund_processing"]
        BY <2>2 DEF IInv, TypeOK, Approve, SetOrder, Database
    <2>5. db' \in Database
        <3>1. db \in Database
            BY DEF IInv, TypeOK
        <3>2. [db.ret EXCEPT ![r] = db'.ret[r]] \in [Returns -> ReturnRow]
            BY <2>3, <3>1 DEF Database
        <3> QED
            BY <2>1, <2>4, <3>1, <3>2 DEF Database
    <2>6. \A s \in Returns \ {r} : db'.ret[s] = db.ret[s]
        BY <2>4 DEF IInv, TypeOK, Database
    <2> QED
        BY <2>2, <2>5, <2>6
<1>2. Backed(db, db', r)
    BY <1>1, Statuses, TotalAssumption
    DEF Compositions, Backed, UnderWayOK, IInv, BoundIsKnown
<1>3. /\ UNCHANGED <<prov, hooks, job>>
      /\ appr' = [appr EXCEPT ![a] = [pc |-> "call", ret |-> r, seen |-> "none"]]
    BY DEF Approve
<1>4. TypeOK'
    BY <1>1, <1>3 DEF IInv, TypeOK, Approval, Answers
<1>5. ASSUME NEW b \in Approvers PROVE ApprovalIsReal(b)'
    <2>1. CASE b = a
        BY <1>1, <1>3, <2>1, TotalAssumption DEF Compositions, ApprovalIsReal, IInv, TypeOK
    <2>2. CASE b # a
        BY <1>2, <1>3, <2>2, BackedStep DEF IInv, TypeOK
    <2> QED
        BY <2>1, <2>2
<1> QED
    BY <1>2, <1>3, <1>4, <1>5, BackedStep DEF IInv, ApprovalsAreReal

\* The provider's answer is what its refund was at that moment.
LEMMA CallProviderStep ==
    ASSUME IInv, NEW a \in Approvers, CallProvider(a)
    PROVE  IInv'
<1> DEFINE r == appr[a].ret
<1>1. r \in Returns /\ db.ret[r].amount > 0 /\ ApprovalIsReal(a)
    BY DEF CallProvider, IInv, TypeOK, ApprovalsAreReal, ApprovalIsReal
<1>2. UNCHANGED <<db, hooks, job>>
    BY DEF CallProvider
<1>3. CASE prov' \in Posted(r) /\ \/ Answered(a, "apply", prov'[r])
                                  \/ Answered(a, "review", "bad")
                                  \/ Answered(a, "retry", "none")
    <2>1. PICK s \in ProviderStatus :
             prov' = [prov EXCEPT ![r] = s] /\ prov[r] \in {"none", "pending", s}
        BY <1>1, <1>3 DEF Posted, IInv, TypeOK
    <2>2. /\ OutcomeIsReal' /\ UnderWayHasReturn' /\ BoundIsKnown' /\ HooksAreReal'
          /\ JobIsReal' /\ prov' \in [Returns -> ProviderStatus \cup {"none"}]
          /\ prov'[r] = s
          /\ \A b \in Approvers : UNCHANGED appr[b] => ApprovalIsReal(b)'
        BY <1>1, <1>2, <2>1, ProviderStep
    <2>3. PICK pc \in {"apply", "review", "retry"}, seen \in Answers :
             /\ appr' = [appr EXCEPT ![a].pc = pc, ![a].seen = seen]
             /\ pc = "apply" => seen = s
        BY <1>3, <2>2 DEF Answered, Answers
    <2>4. TypeOK'
        <3>1. appr' \in [Approvers -> Approval]
              /\ appr'[a].pc = pc /\ appr'[a].seen = seen /\ appr'[a].ret = r
              /\ \A b \in Approvers \ {a} : appr'[b] = appr[b]
            BY <2>3 DEF IInv, TypeOK, Approval
        <3> QED
            BY <1>1, <1>2, <2>2, <3>1 DEF IInv, TypeOK
    <2>5. ASSUME NEW b \in Approvers PROVE ApprovalIsReal(b)'
        <3>1. CASE b = a
            <4>1. /\ appr'[a].pc = pc /\ appr'[a].seen = seen /\ appr'[a].ret = r
                BY <2>3 DEF IInv, TypeOK, Approval
            <4> QED
                BY <1>1, <1>2, <2>2, <2>3, <3>1, <4>1
                   DEF ApprovalIsReal, Trustworthy, ProviderStatus
        <3>2. CASE b # a
            BY <2>2, <2>3, <3>2 DEF IInv, TypeOK
        <3> QED
            BY <3>1, <3>2
    <2> QED
        BY <2>2, <2>4, <2>5 DEF IInv, ApprovalsAreReal
<1>4. CASE UNCHANGED prov /\ Answered(a, "retry", "none")
    <2>1. appr' = [appr EXCEPT ![a].pc = "retry", ![a].seen = "none"]
        BY <1>4 DEF Answered
    <2>2. /\ appr' \in [Approvers -> Approval]
          /\ appr'[a].pc = "retry" /\ appr'[a].ret = r
          /\ \A b \in Approvers \ {a} : appr'[b] = appr[b]
        BY <2>1 DEF IInv, TypeOK, Approval, Answers
    <2>3. TypeOK'
        BY <1>1, <1>2, <1>4, <2>2 DEF IInv, TypeOK
    <2>4. ASSUME NEW b \in Approvers PROVE ApprovalIsReal(b)'
        <3>1. CASE b = a
            BY <1>1, <1>2, <2>2, <3>1 DEF ApprovalIsReal
        <3>2. CASE b # a
            BY <1>2, <1>4, <2>2, <3>2, SameStep
        <3> QED
            BY <3>1, <3>2
    <2> QED
        BY <1>2, <1>4, <2>3, <2>4, SameStep DEF IInv, ApprovalsAreReal
<1> QED
    BY <1>3, <1>4 DEF CallProvider

\* An approval that is done, its transaction's effect being backed or nothing.
LEMMA ApprovalEnds ==
    ASSUME IInv, NEW a \in Approvers, NEW r \in Returns, Done(a),
           UNCHANGED <<prov, hooks, job>>, Backed(db, db', r) \/ UNCHANGED db
    PROVE  IInv'
<1>1. appr' = [appr EXCEPT ![a] = IdleApproval]
    BY DEF Done
<1>2. \A b \in Approvers : UNCHANGED appr[b] \/ appr'[b].pc = "idle"
    BY <1>1 DEF IInv, TypeOK, IdleApproval
<1>3. db' \in Database
    BY DEF IInv, TypeOK, Backed
<1>4. TypeOK'
    BY <1>1, <1>3 DEF IInv, TypeOK, Approval, IdleApproval, Answers
<1>5. CASE Backed(db, db', r)
    BY <1>2, <1>4, <1>5, BackedStep DEF IInv, ApprovalsAreReal
<1>6. CASE UNCHANGED db
    BY <1>2, <1>4, <1>6, SameStep DEF IInv, ApprovalsAreReal
<1> QED
    BY <1>5, <1>6

LEMMA MarkRetryStep ==
    ASSUME IInv, NEW a \in Approvers, MarkRetryRequired(a)
    PROVE  IInv'
<1> DEFINE r == appr[a].ret
<1>1. r \in Returns /\ db \in Database /\ db' = MarkRetry(db, r)
    BY DEF MarkRetryRequired, IInv, TypeOK
<1>2. UnderWayOK(db, db', r)
    BY <1>1, MarkRetryMoves DEF UnderWayOK
<1>3. Backed(db, db', r)
    BY <1>1, <1>2, MarkRetryMoves, MovedIsBacked, Statuses
       DEF IInv, OutcomeIsReal, BoundIsKnown
<1> QED
    BY <1>1, <1>3, ApprovalEnds DEF MarkRetryRequired

\* Putting an approved return in review is backed whatever it was.
LEMMA ReviewIsBacked ==
    ASSUME IInv, NEW r \in Returns, db.ret[r].amount > 0
    PROVE  Backed(db, Review(db, r), r)
<1>1. /\ db \in Database
      /\ db.ret[r].bound => prov[r] # "none"
    BY DEF IInv, TypeOK, BoundIsKnown
<1>2. Moved(db, Review(db, r), r) /\ Review(db, r).ret[r].status \in InFlight
    BY <1>1, ReviewMoves
<1>3. UnderWayOK(db, Review(db, r), r)
    BY <1>2 DEF UnderWayOK
<1> QED
    BY <1>1, <1>2, <1>3, MovedIsBacked, Statuses DEF IInv

LEMMA MarkReviewStep ==
    ASSUME IInv, NEW a \in Approvers, MarkReviewRequired(a)
    PROVE  IInv'
<1> DEFINE r == appr[a].ret
<1>1. r \in Returns /\ db \in Database /\ Done(a) /\ UNCHANGED <<prov, hooks, job>>
    BY DEF MarkReviewRequired, IInv, TypeOK
<1>2. CASE db.ret[r].status \in Final
    BY <1>1, <1>2, ApprovalEnds DEF MarkReviewRequired
<1>3. CASE db.ret[r].status \notin Final
    <2>1. PICK named \in BOOLEAN :
             db' = Review([db EXCEPT !.ret[r].bound = @ \/ named], r)
        BY <1>3 DEF MarkReviewRequired
    <2>2. CASE ~named
        <3>1. db' = Review(db, r)
            BY <1>1, <2>1, <2>2 DEF Database, ReturnRow
        <3>2. db.ret[r].amount > 0
            BY DEF MarkReviewRequired, IInv, ApprovalsAreReal, ApprovalIsReal
        <3> QED
            BY <1>1, <3>1, <3>2, ReviewIsBacked, ApprovalEnds
    <2>3. CASE named
        <3> DEFINE d == Bind(db, r, TRUE)
        <3>1. db' = Review(d, r)
            BY <1>1, <2>1, <2>3 DEF Bind, Database, ReturnRow
        <3>2. /\ d \in Database
              /\ \A s \in Returns \ {r} : d.ret[s] = db.ret[s]
              /\ d.ret[r].amount = db.ret[r].amount /\ d.ret[r].status = db.ret[r].status
              /\ d.ret[r].bound = TRUE /\ d.pay = db.pay
            BY <1>1, BindMoves
        <3>3. prov[r] # "none" /\ db.ret[r].amount > 0
            BY DEF MarkReviewRequired, IInv, ApprovalsAreReal, ApprovalIsReal
        <3> HIDE DEF d
        <3>4. Moved(d, db', r) /\ db'.ret[r].status \in InFlight
            BY <1>1, <3>1, <3>2, ReviewMoves
        <3>5. UnderWayOK(d, db', r)
            BY <3>4 DEF UnderWayOK
        <3>6. Backed(db, db', r)
            BY <1>1, <3>2, <3>3, <3>4, <3>5, MovedIsBacked, Statuses DEF IInv
        <3> QED
            BY <1>1, <3>6, ApprovalEnds
    <2> QED
        BY <2>2, <2>3
<1> QED
    BY <1>2, <1>3

LEMMA FinalizeStep ==
    ASSUME IInv, NEW a \in Approvers, FinalizeApproval(a)
    PROVE  IInv'
<1> DEFINE r == appr[a].ret
           seen == appr[a].seen
<1>1. r \in Returns /\ db \in Database /\ Done(a) /\ UNCHANGED <<prov, hooks, job>>
    BY DEF FinalizeApproval, IInv, TypeOK
<1>2. CASE db.ret[r].status \in Final \/ ApplyRaises(db, r, seen)
    BY <1>1, <1>2, ApprovalEnds DEF FinalizeApproval
<1>3. CASE ~(db.ret[r].status \in Final \/ ApplyRaises(db, r, seen))
    <2> DEFINE d == Bind(db, r, TRUE)
    <2>1. db' = Apply(d, r, seen)
        BY <1>3 DEF FinalizeApproval, Bind
    <2>2. /\ d \in Database
          /\ \A s \in Returns \ {r} : d.ret[s] = db.ret[s]
          /\ d.ret[r].amount = db.ret[r].amount /\ d.ret[r].status = db.ret[r].status
          /\ d.ret[r].bound = TRUE /\ d.pay = db.pay
        BY <1>1, BindMoves
    <2>3. prov[r] # "none" /\ db.ret[r].amount > 0 /\ Trustworthy(r, seen)
        BY DEF FinalizeApproval, IInv, ApprovalsAreReal, ApprovalIsReal
    <2> HIDE DEF d
    <2>4. /\ Moved(d, db', r) /\ UnderWayOK(d, db', r)
          /\ \/ seen = "succeeded" /\ db'.ret[r].status \in Final
             \/ seen = "canceled" /\ db'.ret[r].status = "failed"
             \/ seen = "pending" /\ db'.ret[r].status \in InFlight
        BY <1>1, <1>3, <2>1, <2>2, <2>3, ApplyMoves DEF Trustworthy
    <2>5. /\ db'.ret[r].status \in Final => prov[r] = "succeeded"
          /\ db'.ret[r].status = "failed" => prov[r] = "canceled"
          /\ db'.ret[r].status \notin Unapproved
        BY <2>3, <2>4, Statuses DEF Trustworthy
    <2>6. Backed(db, db', r)
        BY <1>1, <2>2, <2>3, <2>4, <2>5, MovedIsBacked DEF IInv
    <2> QED
        BY <1>1, <2>6, ApprovalEnds
<1> QED
    BY <1>2, <1>3

-----------------------------------------------------------------------------
\* Applying a trustworthy answer to a bound return is backed.
LEMMA ApplyIsBacked ==
    ASSUME IInv, NEW r \in Returns, NEW seen, db.ret[r].bound, Trustworthy(r, seen)
    PROVE  Backed(db, Apply(db, r, seen), r)
<1> DEFINE e == Apply(db, r, seen)
<1>1. db \in Database /\ seen \in ProviderStatus
    BY DEF IInv, TypeOK, Trustworthy
<1>2. prov[r] # "none" /\ db.ret[r].amount > 0
    BY DEF IInv, BoundIsKnown
<1>3. CASE db.ret[r].status \in Final
    <2>1. e = db
        BY <1>3 DEF Apply
    <2> QED
        BY <1>1, <1>2, <1>3, <2>1, Statuses DEF Backed, UnderWayOK, IInv, OutcomeIsReal
<1>4. CASE db.ret[r].status \notin Final
    <2> HIDE DEF e
    <2>1. /\ Moved(db, e, r) /\ UnderWayOK(db, e, r)
          /\ \/ seen = "succeeded" /\ e.ret[r].status \in Final
             \/ seen = "canceled" /\ e.ret[r].status = "failed"
             \/ seen = "pending" /\ e.ret[r].status \in InFlight
        BY <1>1, <1>4, ApplyMoves DEF e
    <2>2. /\ e.ret[r].status \in Final => prov[r] = "succeeded"
          /\ e.ret[r].status = "failed" => prov[r] = "canceled"
          /\ e.ret[r].status \notin Unapproved
        BY <2>1, Statuses DEF Trustworthy
    <2>3. Backed(db, e, r)
        BY <1>1, <1>2, <2>1, <2>2, MovedIsBacked DEF IInv
    <2> QED
        BY <2>3 DEF e
<1> QED
    BY <1>3, <1>4

LEMMA ProviderConcludesStep ==
    ASSUME IInv, NEW r \in Returns, ProviderConcludes(r)
    PROVE  IInv'
<1>1. PICK s \in ProviderStatus : prov' = [prov EXCEPT ![r] = s] /\ prov[r] = "pending"
    BY DEF ProviderConcludes, ProviderStatus
<1>2. UNCHANGED <<db, appr, hooks, job>> /\ db.ret[r].amount > 0
    BY <1>1 DEF ProviderConcludes, IInv, BoundIsKnown
<1>3. /\ OutcomeIsReal' /\ UnderWayHasReturn' /\ BoundIsKnown' /\ HooksAreReal'
      /\ JobIsReal' /\ prov' \in [Returns -> ProviderStatus \cup {"none"}]
      /\ \A b \in Approvers : ApprovalIsReal(b)'
    BY <1>1, <1>2, ProviderStep
<1>4. TypeOK'
    BY <1>2, <1>3 DEF IInv, TypeOK
<1> QED
    BY <1>3, <1>4 DEF IInv, ApprovalsAreReal

-----------------------------------------------------------------------------
\* A webhook handler that is done, or goes on to the review of a success.
LEMMA HookStep ==
    ASSUME IInv, NEW r \in Returns, UNCHANGED <<prov, appr, job>>,
           Backed(db, db', r) \/ UNCHANGED db,
           hooks' \subseteq Hook, \A h \in hooks' : prov[h.ret] = "succeeded"
    PROVE  IInv'
<1>1. db' \in Database
    BY DEF IInv, TypeOK, Backed
<1>2. TypeOK' /\ HooksAreReal'
    BY <1>1 DEF IInv, TypeOK, HooksAreReal
<1>3. CASE Backed(db, db', r)
    BY <1>2, <1>3, BackedStep DEF IInv, ApprovalsAreReal
<1>4. CASE UNCHANGED db
    BY <1>2, <1>4, SameStep DEF IInv, ApprovalsAreReal
<1> QED
    BY <1>3, <1>4

LEMMA HookFetchStep ==
    ASSUME IInv, NEW r \in Returns, HookFetch(r)
    PROVE  IInv'
<1>1. hooks' \subseteq Hook /\ \A h \in hooks' : prov[h.ret] = "succeeded"
    BY DEF HookFetch, IInv, TypeOK, Hook, HooksAreReal
<1> QED
    BY <1>1, HookStep DEF HookFetch

LEMMA HookApplyStep ==
    ASSUME IInv, NEW h \in hooks, HookApply(h)
    PROVE  IInv'
<1>1. h \in Hook /\ h.ret \in Returns /\ prov[h.ret] = "succeeded"
    BY DEF IInv, TypeOK, Hook, HooksAreReal
<1>2. hooks' \subseteq Hook /\ \A g \in hooks' : prov[g.ret] = "succeeded"
    <2>1. \A g \in hooks' : g \in hooks \/ g = [h EXCEPT !.pc = "review"]
        BY DEF HookApply
    <2>2. [h EXCEPT !.pc = "review"] \in Hook /\ [h EXCEPT !.pc = "review"].ret = h.ret
        BY <1>1 DEF Hook
    <2> QED
        BY <1>1, <2>1, <2>2 DEF IInv, TypeOK, HooksAreReal
<1>3. Trustworthy(h.ret, "succeeded")
    BY <1>1 DEF Trustworthy, ProviderStatus
<1>4. Backed(db, db', h.ret) \/ UNCHANGED db
    BY <1>1, <1>3, ApplyIsBacked DEF HookApply
<1> QED
    BY <1>1, <1>2, <1>4, HookStep DEF HookApply

\* The handlers' and the job's review respects a final return.
LEMMA MarkReviewIsBacked ==
    ASSUME IInv, NEW r \in Returns, db.ret[r].amount > 0
    PROVE  Backed(db, MarkReview(db, r), r) \/ MarkReview(db, r) = db
BY ReviewIsBacked DEF MarkReview

LEMMA HookReviewStep ==
    ASSUME IInv, NEW h \in hooks, HookReview(h) \/ HookFails(h)
    PROVE  IInv'
<1>1. h.ret \in Returns /\ db.ret[h.ret].amount > 0
    BY DEF IInv, TypeOK, Hook, HooksAreReal, BoundIsKnown
<1>2. hooks' \subseteq Hook /\ \A g \in hooks' : prov[g.ret] = "succeeded"
    BY DEF HookReview, HookFails, IInv, TypeOK, HooksAreReal
<1>3. Backed(db, db', h.ret) \/ UNCHANGED db
    BY <1>1, MarkReviewIsBacked DEF HookReview, HookFails
<1> QED
    BY <1>1, <1>2, <1>3, HookStep DEF HookReview, HookFails

-----------------------------------------------------------------------------
\* A step of the job: its candidates were bound when it listed them.
LEMMA JobStep ==
    ASSUME IInv, NEW r \in Returns, UNCHANGED <<prov, appr, hooks>>,
           Backed(db, db', r) \/ UNCHANGED db, job' \in Job,
           job'.pc # "idle" => job'.ret \in Returns, JobIsReal'
    PROVE  IInv'
<1>1. db' \in Database
    BY DEF IInv, TypeOK, Backed
<1>2. TypeOK'
    BY <1>1 DEF IInv, TypeOK
<1>3. CASE Backed(db, db', r)
    BY <1>2, <1>3, BackedStep DEF IInv, ApprovalsAreReal
<1>4. CASE UNCHANGED db
    BY <1>2, <1>4, SameStep DEF IInv, ApprovalsAreReal
<1> QED
    BY <1>3, <1>4

\* A step after which the job is idle.
LEMMA JobIdleStep ==
    ASSUME IInv, NEW r \in Returns, UNCHANGED <<prov, appr, hooks>>,
           Backed(db, db', r) \/ UNCHANGED db,
           NEW todo, todo \subseteq job.todo, job' = IdleJob(todo)
    PROVE  IInv'
<1>1. todo \subseteq Returns
    BY DEF IInv, TypeOK, Job
<1>2. job' \in Job /\ job'.pc = "idle" /\ job'.todo = todo
    BY <1>1 DEF IdleJob, Job, Answers
<1>3. JobIsReal'
    BY <1>2, BackedStep, SameStep
<1> QED
    BY <1>2, <1>3, JobStep

LEMMA JobStartStep ==
    ASSUME IInv, JobStart
    PROVE  IInv'
<1>1. UNCHANGED <<db, prov, appr, hooks>> /\ job' = IdleJob(Candidates)
    BY DEF JobStart
<1>2. Candidates \subseteq Returns /\ \A q \in Candidates : db.ret[q].bound
    BY DEF Candidates
<1>3. job' \in Job /\ job'.pc = "idle" /\ job'.todo = Candidates
    BY <1>1, <1>2 DEF IdleJob, Job, Answers
<1>4. JobIsReal'
    BY <1>1, <1>2, <1>3 DEF JobIsReal
<1>5. 1 \in Returns
    BY MaxReturnsAssumption DEF Returns
<1> QED
    BY <1>1, <1>3, <1>4, <1>5, JobStep

LEMMA JobFetchStep ==
    ASSUME IInv, NEW r \in Returns, JobFetch(r)
    PROVE  IInv'
<1>1. UNCHANGED <<db, prov, appr, hooks>> /\ r \in job.todo /\ db.ret[r].bound
    BY DEF JobFetch, IInv, JobIsReal
<1>2. PICK seen \in {prov[r], "bad"} :
         job' = [todo |-> job.todo \ {r}, pc |-> "apply", ret |-> r, seen |-> seen]
    BY DEF JobFetch
<1>3. prov[r] \in ProviderStatus
    BY <1>1 DEF IInv, TypeOK, BoundIsKnown
<1>4. job' \in Job /\ job'.pc = "apply" /\ job'.ret = r /\ job'.seen = seen
      /\ job'.todo \subseteq job.todo
    BY <1>2, <1>3 DEF IInv, TypeOK, Job, Answers
<1>5. JobIsReal'
    BY <1>1, <1>3, <1>4 DEF IInv, JobIsReal, Trustworthy
<1> QED
    BY <1>1, <1>4, <1>5, JobStep

LEMMA JobApplyStep ==
    ASSUME IInv, NEW r \in Returns, JobApply(r)
    PROVE  IInv'
<1>1. UNCHANGED <<prov, appr, hooks>> /\ job.ret = r /\ job.pc = "apply"
      /\ db.ret[r].bound /\ (job.seen = "bad" \/ Trustworthy(r, job.seen))
      /\ db.ret[r].amount > 0
    BY DEF JobApply, IInv, JobIsReal, BoundIsKnown
<1>2. CASE /\ Backed(db, db', r) \/ UNCHANGED db
           /\ job' = IdleJob(job.todo)
    BY <1>1, <1>2, JobIdleStep
<1>3. CASE UNCHANGED db /\ job' = [job EXCEPT !.pc = "review"]
    <2>1. job' \in Job /\ job'.pc = "review" /\ job'.ret = r /\ job'.todo = job.todo
        BY <1>1, <1>3 DEF IInv, TypeOK, Job
    <2>2. JobIsReal'
        BY <1>1, <1>3, <2>1 DEF IInv, JobIsReal
    <2> QED
        BY <1>1, <1>3, <2>1, <2>2, JobStep
<1>4. \/ /\ Backed(db, db', r) \/ UNCHANGED db
         /\ job' = IdleJob(job.todo)
      \/ UNCHANGED db /\ job' = [job EXCEPT !.pc = "review"]
    BY <1>1, ReviewIsBacked, ApplyIsBacked DEF JobApply
<1> QED
    BY <1>2, <1>3, <1>4

\* The steps after which the job has nothing in hand.
LEMMA JobOtherSteps ==
    ASSUME IInv, NEW r \in Returns, JobSkips(r) \/ JobReview(r) \/ JobStops
    PROVE  IInv'
<1>1. CASE JobSkips(r)
    BY <1>1, JobIdleStep DEF JobSkips
<1>2. CASE JobReview(r)
    <2>1. db.ret[r].amount > 0
        BY <1>2 DEF JobReview, IInv, JobIsReal, BoundIsKnown
    <2> QED
        BY <1>2, <2>1, MarkReviewIsBacked, JobIdleStep DEF JobReview
<1>3. CASE JobStops
    BY <1>3, JobIdleStep DEF JobStops
<1> QED
    BY <1>1, <1>2, <1>3

-----------------------------------------------------------------------------
\* Every step of the system preserves the invariant.
LEMMA NextIInv == IInv /\ [Next]_vars => IInv'
<1> SUFFICES ASSUME IInv, [Next]_vars PROVE IInv'
    OBVIOUS
<1>1. ASSUME NEW r \in Returns, CreateReturn(r) \/ ProviderConcludes(r) \/ HookFetch(r)
      PROVE  IInv'
    BY <1>1, CreateReturnStep, ProviderConcludesStep, HookFetchStep
<1>2. ASSUME NEW a \in Approvers, NEW r \in Returns, NEW c \in Compositions,
             Approve(a, r, c)
      PROVE  IInv'
    BY <1>2, ApproveStep
<1>3. ASSUME NEW a \in Approvers,
             \/ CallProvider(a) \/ MarkRetryRequired(a)
             \/ MarkReviewRequired(a) \/ FinalizeApproval(a)
      PROVE  IInv'
    BY <1>3, CallProviderStep, MarkRetryStep, MarkReviewStep, FinalizeStep
<1>4. ASSUME NEW a \in Approvers, ApprovalStops(a) PROVE IInv'
    <2>1. 1 \in Returns
        BY MaxReturnsAssumption DEF Returns
    <2> QED
        BY <1>4, <2>1, ApprovalEnds DEF ApprovalStops
<1>5. ASSUME NEW h \in hooks, HookApply(h) \/ HookReview(h) \/ HookFails(h)
      PROVE  IInv'
    BY <1>5, HookApplyStep, HookReviewStep
<1>6. ASSUME NEW r \in Returns, JobFetch(r) \/ JobSkips(r) \/ JobApply(r) \/ JobReview(r)
      PROVE  IInv'
    BY <1>6, JobFetchStep, JobApplyStep, JobOtherSteps
<1>7. CASE JobStart \/ JobStops
    <2>1. 1 \in Returns
        BY MaxReturnsAssumption DEF Returns
    <2> QED
        BY <1>7, <2>1, JobStartStep, JobOtherSteps
<1>8. CASE UNCHANGED vars
    BY <1>8 DEF vars, IInv, TypeOK, OutcomeIsReal, UnderWayHasReturn, BoundIsKnown,
       HooksAreReal, ApprovalsAreReal, ApprovalIsReal, JobIsReal, Trustworthy
<1> QED
    BY <1>1, <1>2, <1>3, <1>4, <1>5, <1>6, <1>7, <1>8 DEF Next

(***************************************************************************)
(* The invariant holds always: whatever an actor still carries of the      *)
(* provider's answers is true, or no longer matters.                       *)
(***************************************************************************)
THEOREM Invariance == Spec => []IInv
<1> QED
    BY InitIInv, NextIInv, PTL DEF Spec

(***************************************************************************)
(* The state stays within its types: in particular the order's statuses    *)
(* are ones the rest of the backend knows.                                 *)
(***************************************************************************)
THEOREM TypeCorrect == Spec => []TypeOK
<1>1. IInv => TypeOK
    BY DEF IInv
<1> QED
    BY <1>1, Invariance, PTL

(***************************************************************************)
(* A return is recorded as refunded or failed only if the provider says    *)
(* so, however late or often approvals, webhooks and the job answer.       *)
(***************************************************************************)
THEOREM OutcomeIsRealAlways == Spec => []OutcomeIsReal
<1>1. IInv => OutcomeIsReal
    BY DEF IInv
<1> QED
    BY <1>1, Invariance, PTL

(***************************************************************************)
(* An order never waits for a refund none of its returns is waiting for.   *)
(***************************************************************************)
THEOREM UnderWayHasReturnAlways == Spec => []UnderWayHasReturn
<1>1. IInv => UnderWayHasReturn
    BY DEF IInv
<1> QED
    BY <1>1, Invariance, PTL

-----------------------------------------------------------------------------
(***************************************************************************)
(* What a step does to the money.                                          *)
(***************************************************************************)
Effect(r) ==
    \/ PaysNothing(db, db', r)
    \/ /\ PaysBack(db, db', r)
       /\ db.ret[r].amount > 0
       /\ ~ApplyRaises(db, r, "succeeded")

\* Binding a refund first makes no difference to the money.
LEMMA BindingKeepsMoney ==
    ASSUME NEW d \in Database, NEW e, NEW r \in Returns
    PROVE  /\ PaysNothing(Bind(d, r, TRUE), e, r) => PaysNothing(d, e, r)
           /\ PaysBack(Bind(d, r, TRUE), e, r) => PaysBack(d, e, r)
<1> DEFINE b == Bind(d, r, TRUE)
<1>1. /\ \A s \in Returns \ {r} : b.ret[s] = d.ret[s]
      /\ b.ret[r].amount = d.ret[r].amount /\ b.ret[r].status = d.ret[r].status
      /\ b.ret[r].item = d.ret[r].item /\ b.ret[r].units = d.ret[r].units
      /\ b.pay = d.pay /\ b.restored = d.restored
    BY BindMoves
<1> HIDE DEF b
<1>2. Amounts(b, Final) = Amounts(d, Final)
    BY <1>1 DEF Amounts
<1>3. CompletedBesides(b, r) = CompletedBesides(d, r)
    BY <1>2 DEF CompletedBesides
<1>4. PaysNothing(b, e, r) => PaysNothing(d, e, r)
    BY <1>1, <1>3 DEF PaysNothing, SameParts
<1>5. PaysBack(b, e, r) => PaysBack(d, e, r)
    BY <1>1, <1>3 DEF PaysBack, SameParts
<1> QED
    BY <1>4, <1>5 DEF b

\* Applying a trustworthy answer to a bound return.
LEMMA ApplyEffect ==
    ASSUME IInv, NEW r \in Returns, NEW seen, db.ret[r].bound, Trustworthy(r, seen),
           ~ApplyRaises(db, r, seen), db' = Apply(db, r, seen)
    PROVE  UNCHANGED db \/ Effect(r)
<1>1. CASE db.ret[r].status \in Final
    BY <1>1 DEF Apply
<1>2. CASE db.ret[r].status \notin Final
    <2>1. db.ret[r].amount > 0
        BY DEF IInv, BoundIsKnown
    <2> QED
        BY <1>2, <2>1, ApplyMoves DEF Trustworthy, IInv, TypeOK, Effect
<1> QED
    BY <1>1, <1>2

\* Reviews pay nothing.
LEMMA ReviewEffect ==
    ASSUME NEW d \in Database, NEW r \in Returns, d.ret[r].status \notin Final
    PROVE  PaysNothing(d, Review(d, r), r)
BY ReviewMoves, Statuses DEF PaysNothing, SameParts, Moved

LEMMA MarkReviewEffect ==
    ASSUME IInv, NEW r \in Returns, db' = MarkReview(db, r)
    PROVE  UNCHANGED db \/ Effect(r)
<1>1. Final \subseteq JobFinal
    BY Statuses
<1> QED
    BY <1>1, ReviewEffect DEF MarkReview, Effect, IInv, TypeOK

\* The transactions of an approval after the first.
LEMMA ApproverEffect ==
    ASSUME IInv, NEW a \in Approvers,
           \/ CallProvider(a) \/ MarkRetryRequired(a) \/ MarkReviewRequired(a)
           \/ FinalizeApproval(a) \/ ApprovalStops(a)
    PROVE  UNCHANGED db \/ \E r \in Returns : Effect(r)
<1> DEFINE r == appr[a].ret
           seen == appr[a].seen
<1>1. CASE CallProvider(a) \/ ApprovalStops(a)
    BY <1>1 DEF CallProvider, ApprovalStops
<1>2. CASE MarkRetryRequired(a)
    <2>1. r \in Returns /\ db \in Database /\ db' = MarkRetry(db, r)
        BY <1>2 DEF MarkRetryRequired, IInv, TypeOK
    <2>2. CASE db.ret[r].status \in Final
        BY <2>1, <2>2 DEF MarkRetry
    <2>3. CASE db.ret[r].status \notin Final
        <3>1. PaysNothing(db, db', r)
            BY <2>1, <2>3, MarkRetryMoves, Statuses DEF PaysNothing, SameParts, Moved
        <3> QED
            BY <2>1, <3>1 DEF Effect
    <2> QED
        BY <2>2, <2>3
<1>3. CASE MarkReviewRequired(a)
    <2>1. r \in Returns /\ db \in Database
        BY <1>3 DEF MarkReviewRequired, IInv, TypeOK
    <2>2. CASE db.ret[r].status \in Final
        BY <1>3, <2>2 DEF MarkReviewRequired
    <2>3. CASE db.ret[r].status \notin Final
        <3>1. PICK named \in BOOLEAN :
                 db' = Review([db EXCEPT !.ret[r].bound = @ \/ named], r)
            BY <1>3, <2>3 DEF MarkReviewRequired
        <3>2. CASE ~named
            <4>1. db' = Review(db, r)
                BY <2>1, <3>1, <3>2 DEF Database, ReturnRow
            <4> QED
                BY <2>1, <2>3, <4>1, ReviewEffect DEF Effect
        <3>3. CASE named
            <4>1. db' = Review(Bind(db, r, TRUE), r)
                BY <2>1, <3>1, <3>3 DEF Bind, Database, ReturnRow
            <4>2. PaysNothing(Bind(db, r, TRUE), db', r)
                BY <2>1, <2>3, <4>1, BindMoves, ReviewEffect
            <4> QED
                BY <2>1, <4>2, BindingKeepsMoney DEF Effect
        <3> QED
            BY <3>2, <3>3
    <2> QED
        BY <2>2, <2>3
<1>4. CASE FinalizeApproval(a)
    <2>1. r \in Returns /\ db \in Database
        BY <1>4 DEF FinalizeApproval, IInv, TypeOK
    <2>2. CASE db.ret[r].status \in Final \/ ApplyRaises(db, r, seen)
        BY <1>4, <2>2 DEF FinalizeApproval
    <2>3. CASE ~(db.ret[r].status \in Final \/ ApplyRaises(db, r, seen))
        <3>1. db' = Apply(Bind(db, r, TRUE), r, seen)
            BY <1>4, <2>3 DEF FinalizeApproval, Bind
        <3>2. db.ret[r].amount > 0 /\ seen \in ProviderStatus
            BY <1>4 DEF FinalizeApproval, IInv, ApprovalsAreReal, ApprovalIsReal, Trustworthy
        <3>3. /\ Bind(db, r, TRUE) \in Database
              /\ Bind(db, r, TRUE).ret[r].status \notin Final
            BY <2>1, <2>3, BindMoves
        <3>4. \/ seen = "succeeded" /\ PaysBack(Bind(db, r, TRUE), db', r)
              \/ PaysNothing(Bind(db, r, TRUE), db', r)
            BY <2>1, <3>1, <3>2, <3>3, ApplyMoves
        <3> QED
            BY <2>1, <2>3, <3>2, <3>4, BindingKeepsMoney DEF Effect
    <2> QED
        BY <2>2, <2>3
<1> QED
    BY <1>1, <1>2, <1>3, <1>4

\* The webhook's and the job's transactions.
LEMMA HandlerEffect ==
    ASSUME IInv,
           \/ \E h \in hooks : HookApply(h) \/ HookReview(h) \/ HookFails(h)
           \/ \E r \in Returns : JobFetch(r) \/ JobSkips(r) \/ JobApply(r) \/ JobReview(r)
           \/ JobStart \/ JobStops
    PROVE  UNCHANGED db \/ \E r \in Returns : Effect(r)
<1>1. ASSUME NEW h \in hooks, HookApply(h)
      PROVE  UNCHANGED db \/ \E r \in Returns : Effect(r)
    <2>1. h.ret \in Returns /\ Trustworthy(h.ret, "succeeded")
        BY DEF IInv, TypeOK, Hook, HooksAreReal, Trustworthy, ProviderStatus
    <2>2. CASE ~ApplyRaises(db, h.ret, "succeeded") /\ db' = Apply(db, h.ret, "succeeded")
        BY <1>1, <2>1, <2>2, ApplyEffect DEF HookApply
    <2> QED
        BY <1>1, <2>2 DEF HookApply
<1>2. ASSUME NEW h \in hooks, HookReview(h) \/ HookFails(h)
      PROVE  UNCHANGED db \/ \E r \in Returns : Effect(r)
    <2>1. h.ret \in Returns
        BY DEF IInv, TypeOK, Hook
    <2> QED
        BY <1>2, <2>1, MarkReviewEffect DEF HookReview, HookFails
<1>3. ASSUME NEW r \in Returns, JobApply(r)
      PROVE  UNCHANGED db \/ Effect(r)
    <2>1. db.ret[r].bound /\ (job.seen = "bad" \/ Trustworthy(r, job.seen))
        BY <1>3 DEF JobApply, IInv, JobIsReal
    <2>2. CASE db.ret[r].status \notin JobFinal /\ db' = Review(db, r)
        BY <2>2, ReviewEffect, Statuses DEF Effect, IInv, TypeOK
    <2>3. CASE /\ job.seen # "bad" /\ ~ApplyRaises(db, r, job.seen)
               /\ db' = Apply(db, r, job.seen)
        BY <2>1, <2>3, ApplyEffect
    <2> QED
        BY <1>3, <2>2, <2>3 DEF JobApply
<1>4. ASSUME NEW r \in Returns, JobReview(r) PROVE UNCHANGED db \/ Effect(r)
    BY <1>4, MarkReviewEffect DEF JobReview
<1>5. ASSUME NEW r \in Returns, JobFetch(r) \/ JobSkips(r) PROVE UNCHANGED db
    BY <1>5 DEF JobFetch, JobSkips
<1>6. JobStart \/ JobStops => UNCHANGED db
    BY DEF JobStart, JobStops
<1> QED
    BY <1>1, <1>2, <1>3, <1>4, <1>5, <1>6

\* Every step but an approval's first has an effect on at most one return.
LEMMA NextEffect ==
    ASSUME IInv, [Next]_vars
    PROVE  \/ UNCHANGED db
           \/ \E r \in Returns : Effect(r)
           \/ \E a \in Approvers, r \in Returns, c \in Compositions : Approve(a, r, c)
<1>1. ASSUME NEW r \in Returns, CreateReturn(r) PROVE Effect(r)
    <2>1. /\ SameParts(db, db', r)
          /\ db'.ret[r].status = "requested" /\ db.ret[r].status = "none"
          /\ db'.pay = db.pay /\ db'.restored = db.restored
        BY <1>1 DEF CreateReturn, IInv, TypeOK, Database, ReturnRow, SameParts
    <2> QED
        BY <2>1, Statuses DEF Effect, PaysNothing
<1>2. ASSUME NEW r \in Returns, ProviderConcludes(r) \/ HookFetch(r)
      PROVE  UNCHANGED db
    BY <1>2 DEF ProviderConcludes, HookFetch
<1>3. UNCHANGED vars => UNCHANGED db
    BY DEF vars
<1> QED
    BY <1>1, <1>2, <1>3, ApproverEffect, HandlerEffect DEF Next

-----------------------------------------------------------------------------
(***************************************************************************)
(* The money.  A refund the provider has not canceled claims its return's  *)
(* amount even before it exists.  Only an approval adds a claim, and what  *)
(* it validates covers the claims of the others: their returns reserve.    *)
(***************************************************************************)
Claims == [r \in Returns |-> IF prov[r] # "canceled" THEN db.ret[r].amount ELSE 0]

ClaimsWithinTotal == SumFunctionOnSet(Claims, Returns) <= Total

\* A part of the returns that reserve, and of those that were paid back.
Held(d, part) ==
    [r \in Returns |-> IF d.ret[r].status \in Reserving THEN d.ret[r][part] ELSE 0]
Paid(d, part) ==
    [r \in Returns |-> IF d.ret[r].status \in Final THEN d.ret[r][part] ELSE 0]

LEMMA FiniteReturns ==
    /\ IsFiniteSet(Returns)
    /\ \A r \in Returns : IsFiniteSet(Returns \ {r})
<1>1. IsFiniteSet(Returns)
    BY FS_Interval, MaxReturnsAssumption DEF Returns
<1> QED
    BY <1>1, FS_Subset

LEMMA AmountsArePaid ==
    ASSUME NEW d
    PROVE  Amounts(d, Final) = Paid(d, "amount")
BY DEF Amounts, Paid

LEMMA ReservedIsHeld ==
    ASSUME NEW d, NEW part, NEW S
    PROVE  Reserved(d, part, S) = SumFunctionOnSet(Held(d, part), S)
BY DEF Reserved, Held

\* What was paid back of a part is held, and both are amounts.
LEMMA PartsAreNat ==
    ASSUME NEW d \in Database, NEW part \in {"amount", "item", "units"}
    PROVE  \A r \in Returns : /\ d.ret[r][part] \in Nat
                              /\ Held(d, part)[r] \in Nat /\ Paid(d, part)[r] \in Nat
                              /\ Paid(d, part)[r] =< Held(d, part)[r]
<1>1. ASSUME NEW r \in Returns PROVE d.ret[r][part] \in Nat
    <2>1. d.ret[r] \in ReturnRow
        BY DEF Database
    <2>2. d.ret[r].amount \in Nat /\ d.ret[r].item \in Nat /\ d.ret[r].units \in Nat
        BY <2>1, TotalAssumption, QuantityAssumption DEF ReturnRow
    <2> QED
        BY <2>2
<1> QED
    BY <1>1 DEF Held, Paid, Reserving

\* A sum of a part is the return's and the others'.
LEMMA PartSum ==
    ASSUME NEW d \in Database, NEW part \in {"amount", "item", "units"},
           NEW r \in Returns
    PROVE  LET held == SumFunctionOnSet(Held(d, part), Returns \ {r})
               paid == SumFunctionOnSet(Paid(d, part), Returns \ {r})
           IN  /\ held \in Nat /\ paid \in Nat /\ paid =< held
               /\ SumFunctionOnSet(Paid(d, part), Returns) = Paid(d, part)[r] + paid
<1>1. \A s \in Returns : /\ Held(d, part)[s] \in Nat /\ Paid(d, part)[s] \in Nat
                         /\ Paid(d, part)[s] =< Held(d, part)[s]
    BY PartsAreNat
<1>2. /\ SumFunctionOnSet(Held(d, part), Returns \ {r}) \in Nat
      /\ SumFunctionOnSet(Paid(d, part), Returns \ {r}) \in Nat
    BY <1>1, FiniteReturns, SumType
<1>3. SumFunctionOnSet(Paid(d, part), Returns \ {r})
          =< SumFunctionOnSet(Held(d, part), Returns \ {r})
    BY <1>1, FiniteReturns, SumGrows
<1>4. SumFunctionOnSet(Paid(d, part), Returns)
          = Paid(d, part)[r] + SumFunctionOnSet(Paid(d, part), Returns \ {r})
    BY <1>1, FiniteReturns, SumRemove
<1> QED
    BY <1>2, <1>3, <1>4

\* If all the others hold was paid back, none of them holds it only.
LEMMA AllPaid ==
    ASSUME NEW d \in Database, NEW part \in {"amount", "item", "units"},
           NEW r \in Returns,
           SumFunctionOnSet(Paid(d, part), Returns \ {r})
               = SumFunctionOnSet(Held(d, part), Returns \ {r}),
           NEW s \in Returns \ {r}, d.ret[s].status \in InFlight
    PROVE  d.ret[s][part] = 0
<1> SUFFICES ASSUME d.ret[s][part] # 0 PROVE FALSE
    OBVIOUS
<1>1. \A q \in Returns : /\ Held(d, part)[q] \in Int /\ Paid(d, part)[q] \in Int
                         /\ Paid(d, part)[q] =< Held(d, part)[q]
    BY PartsAreNat
<1>2. Paid(d, part)[s] < Held(d, part)[s]
    BY PartsAreNat, Statuses DEF Paid, Held, Reserving
<1>3. SumFunctionOnSet(Paid(d, part), Returns \ {r})
          < SumFunctionOnSet(Held(d, part), Returns \ {r})
    BY <1>1, <1>2, FiniteReturns, SumGrowsStrictly
<1>4. /\ SumFunctionOnSet(Paid(d, part), Returns \ {r}) \in Int
      /\ SumFunctionOnSet(Held(d, part), Returns \ {r}) \in Int
    BY <1>1, FiniteReturns, SumType
<1> QED
    BY <1>3, <1>4

-----------------------------------------------------------------------------
\* A cancellation is for good.
LEMMA ProviderKeepsCanceled ==
    ASSUME IInv, [Next]_vars, NEW r \in Returns, prov[r] = "canceled"
    PROVE  prov'[r] = "canceled"
<1>1. CASE UNCHANGED prov
    BY <1>1
<1>2. ASSUME NEW q \in Returns, ProviderConcludes(q) PROVE prov'[r] = "canceled"
    BY <1>2 DEF ProviderConcludes, IInv, TypeOK
<1>3. ASSUME NEW a \in Approvers, CallProvider(a) PROVE prov'[r] = "canceled"
    BY <1>3 DEF CallProvider, Posted, IInv, TypeOK
<1> QED
    BY <1>1, <1>2, <1>3
    DEF Next, vars, CreateReturn, HookFetch, Approve, MarkRetryRequired,
        MarkReviewRequired, FinalizeApproval, ApprovalStops, HookApply, HookReview,
        HookFails, JobFetch, JobSkips, JobApply, JobReview, JobStart, JobStops

\* The claims are numbers.
LEMMA ClaimsAreNat ==
    ASSUME TypeOK
    PROVE  \A r \in Returns : db.ret[r].amount \in Nat /\ Claims[r] \in Nat
<1>1. \A r \in Returns : db.ret[r] \in ReturnRow
    BY DEF TypeOK, Database
<1> QED
    BY <1>1, TotalAssumption DEF ReturnRow, Claims

\* What a first approval does to the database.
LEMMA ApproveRow ==
    ASSUME IInv, NEW a \in Approvers, NEW r \in Returns, NEW c \in Compositions,
           Approve(a, r, c)
    PROVE  /\ \A s \in Returns \ {r} : db'.ret[s] = db.ret[s]
           /\ db'.ret[r].amount = c.amount /\ c.amount \in Nat
           /\ db'.ret[r].status = "processing" /\ db.ret[r].status \notin Final
           /\ db'.pay = "refund_processing" /\ db'.restored = db.restored
           /\ UNCHANGED prov
BY TotalAssumption
DEF Approve, SetOrder, IInv, TypeOK, Database, ReturnRow, Compositions

\* An approval's claim fits what the others claim; nothing else adds one.
LEMMA ClaimsStep ==
    ASSUME IInv, ClaimsWithinTotal, [Next]_vars, TypeOK'
    PROVE  ClaimsWithinTotal'
<1>1. \A r \in Returns : Claims[r] \in Nat /\ Claims'[r] \in Nat
    <2>1. \A r \in Returns : Claims[r] \in Nat
        BY ClaimsAreNat DEF IInv
    <2>2. \A r \in Returns : db'.ret[r] \in ReturnRow
        BY DEF TypeOK, Database
    <2>3. \A r \in Returns : Claims'[r] \in Nat
        BY <2>2, TotalAssumption DEF ReturnRow, Claims
    <2> QED
        BY <2>1, <2>3
<1>2. CASE \A r \in Returns : db'.ret[r].amount = db.ret[r].amount
    <2>1. \A r \in Returns : Claims'[r] =< Claims[r]
        BY <1>1, <1>2, ProviderKeepsCanceled DEF Claims
    <2>2. SumFunctionOnSet(Claims', Returns) =< SumFunctionOnSet(Claims, Returns)
        BY <1>1, <2>1, FiniteReturns, SumGrows
    <2>3. /\ SumFunctionOnSet(Claims', Returns) \in Int
          /\ SumFunctionOnSet(Claims, Returns) \in Int
        BY <1>1, FiniteReturns, SumType
    <2> QED
        BY <2>2, <2>3, TotalAssumption DEF ClaimsWithinTotal
<1>3. ASSUME NEW a \in Approvers, NEW r \in Returns, NEW c \in Compositions,
             Approve(a, r, c)
      PROVE  ClaimsWithinTotal'
    <2> DEFINE others == Returns \ {r}
    <2>1. SumFunctionOnSet(Held(db, "amount"), others) + c.amount <= Total
        BY <1>3, ReservedIsHeld DEF Approve, Allocates, Fits
    <2>2. \A s \in others : Claims'[s] =< Held(db, "amount")[s]
        <3>1. ASSUME NEW s \in others PROVE Claims'[s] =< Held(db, "amount")[s]
            <4>1. prov'[s] = prov[s] /\ db'.ret[s] = db.ret[s]
                BY <1>3, ApproveRow
            <4>2. db.ret[s].amount \in Nat /\ db.ret[s].status \in ReturnStatus
                BY ClaimsAreNat DEF IInv, TypeOK, Database, ReturnRow
            <4>3. CASE db.ret[s].status \in Reserving
                BY <4>1, <4>2, <4>3 DEF Claims, Held
            <4>4. CASE db.ret[s].status = "failed"
                BY <4>1, <4>2, <4>4 DEF Claims, Held, IInv, OutcomeIsReal
            <4>5. CASE db.ret[s].status \in Unapproved
                BY <4>1, <4>2, <4>5 DEF Claims, Held, IInv, BoundIsKnown
            <4> QED
                BY <4>2, <4>3, <4>4, <4>5
                DEF ReturnStatus, OpenReturn, Reserving, Final, Unapproved
        <3> QED
            BY <3>1
    <2>3. Claims'[r] =< c.amount /\ c.amount \in Nat
        BY <1>3, ApproveRow DEF Claims
    <2>4. SumFunctionOnSet(Claims', Returns)
              = Claims'[r] + SumFunctionOnSet(Claims', others)
        BY <1>1, FiniteReturns, SumRemove
    <2>5. SumFunctionOnSet(Claims', others) =< SumFunctionOnSet(Held(db, "amount"), others)
        BY <1>1, <2>2, PartsAreNat, FiniteReturns, SumGrows DEF IInv, TypeOK
    <2>6. /\ SumFunctionOnSet(Claims', others) \in Int
          /\ SumFunctionOnSet(Held(db, "amount"), others) \in Int
        BY <1>1, PartsAreNat, FiniteReturns, SumType DEF IInv, TypeOK
    <2>7. Claims'[r] \in Nat /\ Total \in Nat
        BY <1>1, TotalAssumption
    <2> HIDE DEF others
    <2> QED
        BY <2>1, <2>3, <2>4, <2>5, <2>6, <2>7 DEF ClaimsWithinTotal
<1>4. ASSUME NEW r \in Returns, Effect(r)
      PROVE  \A s \in Returns : db'.ret[s].amount = db.ret[s].amount
    BY <1>4 DEF Effect, PaysNothing, PaysBack, SameParts
<1> QED
    BY <1>2, <1>3, <1>4, NextEffect

-----------------------------------------------------------------------------
\* What an effect adds to a part that was paid back.
LEMMA EffectPaid ==
    ASSUME TypeOK, TypeOK', NEW part \in {"amount", "item", "units"}, NEW r \in Returns,
           SameParts(db, db', r), db.ret[r].status \notin Final
    PROVE  LET others == SumFunctionOnSet(Paid(db, part), Returns \ {r})
           IN  /\ SumFunctionOnSet(Paid(db, part), Returns) = others
               /\ SumFunctionOnSet(Paid(db', part), Returns) =
                      IF db'.ret[r].status \in Final
                      THEN db.ret[r][part] + others ELSE others
<1>1. db \in Database /\ db' \in Database
    BY DEF TypeOK
<1>2. SumFunctionOnSet(Paid(db', part), Returns \ {r})
          = SumFunctionOnSet(Paid(db, part), Returns \ {r})
    <2>1. \A s \in Returns \ {r} : Paid(db', part)[s] = Paid(db, part)[s]
        BY DEF Paid, SameParts
    <2>2. \A s \in Returns \ {r} : Paid(db', part)[s] \in Int
        BY <1>1, PartsAreNat
    <2> QED
        BY <2>1, <2>2, FiniteReturns, SumSame
<1>3. /\ SumFunctionOnSet(Paid(db, part), Returns)
             = Paid(db, part)[r] + SumFunctionOnSet(Paid(db, part), Returns \ {r})
      /\ SumFunctionOnSet(Paid(db', part), Returns)
             = Paid(db', part)[r] + SumFunctionOnSet(Paid(db', part), Returns \ {r})
      /\ SumFunctionOnSet(Paid(db, part), Returns \ {r}) \in Nat
    BY <1>1, PartSum
<1>4. Paid(db, part)[r] = 0
    BY DEF Paid
<1>5. Paid(db', part)[r] = IF db'.ret[r].status \in Final THEN db.ret[r][part] ELSE 0
    BY DEF Paid, SameParts
<1>6. db.ret[r][part] \in Nat
    BY <1>1, PartsAreNat
<1> QED
    BY <1>2, <1>3, <1>4, <1>5, <1>6

\* An approval pays nothing of any part.
LEMMA ApprovePaid ==
    ASSUME IInv, NEW a \in Approvers, NEW r \in Returns, NEW c \in Compositions,
           Approve(a, r, c), NEW part \in {"amount", "item", "units"}
    PROVE  Paid(db', part) = Paid(db, part)
BY ApproveRow, Statuses DEF Paid

\* Where everything was paid back, nothing is left for another return to claim.
LEMMA NothingLeft ==
    ASSUME NEW d \in Database, NEW pv, NEW r \in Returns,
           d.ret[r].status \notin Final, d.ret[r].amount > 0,
           \A s \in Returns : d.ret[s].status \in Final => pv[s] = "succeeded",
           SumFunctionOnSet([s \in Returns |-> IF pv[s] # "canceled"
                                               THEN d.ret[s].amount ELSE 0],
                            Returns) <= Total,
           CompletedTotal(d) = Total
    PROVE  pv[r] = "canceled"
<1> SUFFICES ASSUME pv[r] # "canceled" PROVE FALSE
    OBVIOUS
<1> DEFINE claims == [s \in Returns |-> IF pv[s] # "canceled" THEN d.ret[s].amount ELSE 0]
           paid == Paid(d, "amount")
<1>1. \A s \in Returns : d.ret[s].amount \in Nat
    <2>1. \A s \in Returns : d.ret[s] \in ReturnRow
        BY DEF Database
    <2> QED
        BY <2>1, TotalAssumption DEF ReturnRow
<1>2. \A s \in Returns : /\ paid[s] \in Int /\ claims[s] \in Int
                         /\ paid[s] =< claims[s]
    BY <1>1 DEF Paid
<1>3. paid[r] < claims[r]
    BY <1>1 DEF Paid
<1>4. SumFunctionOnSet(paid, Returns) = Total
    BY AmountsArePaid DEF CompletedTotal
<1>5. SumFunctionOnSet(claims, Returns) <= Total
    OBVIOUS
<1> HIDE DEF paid, claims
<1>6. SumFunctionOnSet(paid, Returns) < SumFunctionOnSet(claims, Returns)
    BY <1>2, <1>3, FiniteReturns, SumGrowsStrictly
<1>7. SumFunctionOnSet(claims, Returns) \in Int /\ Total \in Nat
    BY <1>2, FiniteReturns, SumType, TotalAssumption
<1> QED
    BY <1>4, <1>5, <1>6, <1>7

\* A full refund shows, or an answer about a canceled one came late.
FullRefundShows ==
    CompletedTotal(db) = Total =>
        db.pay = "refunded" \/ \E r \in Returns : prov[r] = "canceled"

\* A step that leaves what was paid back alone cannot hide a full refund.
LEMMA FullStep ==
    ASSUME IInv, IInv', ClaimsWithinTotal', FullRefundShows, [Next]_vars,
           CompletedTotal(db') = CompletedTotal(db),
           \/ db'.pay = db.pay \/ db'.pay \in UnderWay
           \/ \E r \in Returns : db'.ret[r].status = "failed"
    PROVE  FullRefundShows'
<1> SUFFICES ASSUME CompletedTotal(db') = Total, db'.pay # "refunded"
             PROVE  \E r \in Returns : prov'[r] = "canceled"
    BY DEF FullRefundShows
<1>1. CASE db'.pay = db.pay
    <2>1. PICK r \in Returns : prov[r] = "canceled"
        BY <1>1 DEF FullRefundShows
    <2> QED
        BY <2>1, ProviderKeepsCanceled
<1>2. CASE db'.pay \in UnderWay
    <2>1. PICK r \in Returns : db'.ret[r].status \in InFlight
        BY <1>2 DEF IInv, UnderWayHasReturn
    <2>2. db' \in Database
        BY DEF IInv, TypeOK
    <2>3. db'.ret[r].status \notin Final /\ db'.ret[r].amount > 0
        BY <2>1, Statuses DEF IInv, BoundIsKnown
    <2>4. \A s \in Returns : db'.ret[s].status \in Final => prov'[s] = "succeeded"
        BY DEF IInv, OutcomeIsReal
    <2>5. SumFunctionOnSet([s \in Returns |-> IF prov'[s] # "canceled"
                                              THEN db'.ret[s].amount ELSE 0],
                           Returns) <= Total
        BY DEF ClaimsWithinTotal, Claims
    <2>6. prov'[r] = "canceled"
        BY <2>2, <2>3, <2>4, <2>5, NothingLeft
    <2> QED
        BY <2>6
<1>3. ASSUME NEW r \in Returns, db'.ret[r].status = "failed"
      PROVE  \E q \in Returns : prov'[q] = "canceled"
    BY <1>3 DEF IInv, OutcomeIsReal
<1> QED
    BY <1>1, <1>2, <1>3

\* The order's status follows the sum of what was paid back.
LEMMA OrderStep ==
    ASSUME IInv, IInv', ClaimsWithinTotal', OrderMatchesRefunds, [Next]_vars
    PROVE  OrderMatchesRefunds'
<1>0. FullRefundShows /\ TypeOK'
    BY DEF OrderMatchesRefunds, FullRefundShows, IInv
<1>1. ASSUME NEW d
      PROVE  CompletedTotal(d) = SumFunctionOnSet(Paid(d, "amount"), Returns)
    BY AmountsArePaid DEF CompletedTotal
<1>2. CASE UNCHANGED db
    <2>1. FullRefundShows'
        BY <1>0, <1>2, FullStep
    <2> QED
        BY <1>2, <2>1 DEF OrderMatchesRefunds, FullRefundShows
<1>3. ASSUME NEW r \in Returns, Effect(r)
      PROVE  OrderMatchesRefunds'
    <2> DEFINE others == SumFunctionOnSet(Paid(db, "amount"), Returns \ {r})
               amount == db.ret[r].amount
    <2>1. CompletedBesides(db, r) = others
        BY AmountsArePaid DEF CompletedBesides
    <2>2. others \in Nat /\ amount \in Nat /\ Total \in Nat /\ Total > 0
        <3>1. db \in Database
            BY DEF IInv, TypeOK
        <3>2. others \in Nat
            BY <3>1, PartSum
        <3> HIDE DEF others
        <3> QED
            BY <3>2, ClaimsAreNat, TotalAssumption DEF IInv
    <2>3. CompletedTotal(db) = others
        BY <1>0, <1>1, <1>3, EffectPaid DEF IInv, Effect, PaysNothing, PaysBack
    <2>4. CASE PaysNothing(db, db', r)
        <3>1. CompletedTotal(db') = others
            BY <1>0, <1>1, <2>4, EffectPaid DEF IInv, PaysNothing
        <3>2. db'.restored = db.restored
            BY <2>4 DEF PaysNothing
        <3>3. \/ db'.pay \in UnderWay
              \/ db'.pay = db.pay
              \/ db'.pay = IF others > 0 THEN "partially_refunded" ELSE "paid"
            BY <2>1, <2>4 DEF PaysNothing
        <3>4. \/ db'.pay = db.pay \/ db'.pay \in UnderWay
              \/ db'.ret[r].status = "failed"
            BY <2>4 DEF PaysNothing
        <3>5. FullRefundShows'
            BY <1>0, <2>3, <3>1, <3>4, FullStep
        <3> HIDE DEF others
        <3> QED
            BY <2>2, <2>3, <3>1, <3>2, <3>3, <3>5
            DEF OrderMatchesRefunds, FullRefundShows, UnderWay
    <2>5. CASE /\ PaysBack(db, db', r) /\ amount > 0
               /\ ~ApplyRaises(db, r, "succeeded")
        <3>1. CompletedTotal(db') = db.ret[r]["amount"] + others
            BY <1>0, <1>1, <2>5, EffectPaid DEF IInv, PaysBack
        <3>2. ~(others + amount > Total)
            BY <2>1, <2>5 DEF ApplyRaises, PaysBack
        <3>3. IF others + amount = Total
              THEN db'.pay = "refunded" /\ db'.restored = db.restored + 1
              ELSE db'.pay = "partially_refunded" /\ db'.restored = db.restored
            BY <2>1, <2>5 DEF PaysBack
        <3>4. CompletedTotal(db') = others + amount
            BY <2>2, <3>1
        <3>5. db.restored = 0
            BY <2>2, <2>3, <2>5, <3>2 DEF OrderMatchesRefunds
        <3> HIDE DEF others, amount
        <3> QED
            BY <2>2, <2>5, <3>2, <3>3, <3>4, <3>5 DEF OrderMatchesRefunds
    <2> QED
        BY <1>3, <2>4, <2>5 DEF Effect
<1>4. ASSUME NEW a \in Approvers, NEW r \in Returns, NEW c \in Compositions,
             Approve(a, r, c)
      PROVE  OrderMatchesRefunds'
    <2>1. CompletedTotal(db') = CompletedTotal(db)
        BY <1>1, <1>4, ApprovePaid
    <2>2. db'.pay = "refund_processing" /\ db'.restored = db.restored
        BY <1>4, ApproveRow
    <2>3. FullRefundShows'
        BY <1>0, <2>1, <2>2, FullStep DEF UnderWay
    <2> QED
        BY <2>1, <2>2, <2>3 DEF OrderMatchesRefunds, FullRefundShows
<1> QED
    BY <1>2, <1>3, <1>4, NextEffect

\* When everything is paid back, nothing is left that others could hold.
LEMMA RetryStep ==
    ASSUME IInv, UnfinishedCanBeRetried, [Next]_vars, TypeOK'
    PROVE  UnfinishedCanBeRetried'
<1> DEFINE Open(d) == \A r \in Returns : d.ret[r].status \in InFlight => d.pay # "refunded"
<1>1. ASSUME NEW d \in Database PROVE d.pay \in Approvable <=> d.pay # "refunded"
    BY DEF Database, OrderPayment, Approvable, UnderWay
<1>2. Open(db) /\ db \in Database /\ db' \in Database
    BY <1>1 DEF UnfinishedCanBeRetried, IInv, TypeOK
<1>3. CASE UNCHANGED db
    BY <1>3 DEF UnfinishedCanBeRetried
<1>4. ASSUME NEW r \in Returns, Effect(r) PROVE Open(db')
    <2>1. CASE PaysNothing(db, db', r)
        <3>1. \A s \in UnderWay \cup {"paid", "partially_refunded"} : s # "refunded"
            BY DEF UnderWay
        <3> QED
            BY <1>2, <2>1, <3>1 DEF PaysNothing, SameParts
    <2>2. CASE /\ PaysBack(db, db', r) /\ db.ret[r].amount > 0
               /\ ~ApplyRaises(db, r, "succeeded")
        <3> DEFINE paid == SumFunctionOnSet(Paid(db, "amount"), Returns \ {r})
                   held == SumFunctionOnSet(Held(db, "amount"), Returns \ {r})
                   amount == db.ret[r].amount
        <3>1. SUFFICES ASSUME NEW s \in Returns, db'.ret[s].status \in InFlight,
                              db'.pay = "refunded"
                       PROVE  FALSE
            OBVIOUS
        <3>2. s # r /\ db.ret[s].status \in InFlight
            BY <2>2, <3>1, Statuses DEF PaysBack, SameParts
        <3>3. paid + amount = Total
            BY <2>2, <3>1, AmountsArePaid DEF PaysBack, CompletedBesides
        <3>4. held + amount <= Total
            BY <2>2, ReservedIsHeld DEF ApplyRaises, PaysBack, StillFits, Fits
        <3>5. paid \in Nat /\ held \in Nat /\ paid =< held
            BY <1>2, PartSum
        <3>6. amount \in Nat /\ Total \in Nat
            BY ClaimsAreNat, TotalAssumption DEF IInv
        <3>7. paid = held
            <4> HIDE DEF paid, held, amount
            <4> QED
                BY <3>3, <3>4, <3>5, <3>6
        <3>8. db.ret[s]["amount"] = 0
            BY <1>2, <3>2, <3>7, AllPaid
        <3>9. db.ret[s].amount > 0
            BY <3>2, Statuses DEF IInv, BoundIsKnown
        <3> QED
            BY <3>8, <3>9
    <2> QED
        BY <1>4, <2>1, <2>2 DEF Effect
<1>5. ASSUME NEW a \in Approvers, NEW r \in Returns, NEW c \in Compositions,
             Approve(a, r, c)
      PROVE  Open(db')
    BY <1>5, ApproveRow
<1> QED
    BY <1>1, <1>2, <1>3, <1>4, <1>5, NextEffect DEF UnfinishedCanBeRetried

\* A success is applied only if its units and cents fit what others hold.
LEMMA UnitsStep ==
    ASSUME IInv, UnitsPaidExactly, [Next]_vars, TypeOK'
    PROVE  UnitsPaidExactly'
<1> DEFINE final(d, part) == SumFunctionOnSet(Paid(d, part), Returns)
           Exact(d) == /\ final(d, "units") <= Quantity
                       /\ final(d, "units") = Quantity => final(d, "item") = Total
<1>1. (UnitsPaidExactly <=> Exact(db)) /\ (UnitsPaidExactly' <=> Exact(db'))
    BY DEF UnitsPaidExactly, Paid
<1>2. db \in Database /\ db' \in Database
    BY DEF IInv, TypeOK
<1>3. CASE UNCHANGED db
    BY <1>1, <1>3
<1>4. ASSUME NEW a \in Approvers, NEW r \in Returns, NEW c \in Compositions,
             Approve(a, r, c)
      PROVE  Exact(db')
    BY <1>1, <1>4, ApprovePaid
<1>5. ASSUME NEW r \in Returns, Effect(r)
      PROVE  Exact(db')
    <2> DEFINE others == Returns \ {r}
               paidUnits == SumFunctionOnSet(Paid(db, "units"), others)
               paidItem == SumFunctionOnSet(Paid(db, "item"), others)
               heldUnits == SumFunctionOnSet(Held(db, "units"), others)
               heldItem == SumFunctionOnSet(Held(db, "item"), others)
               units == db.ret[r].units
               worth == db.ret[r].item
    <2>1. /\ SameParts(db, db', r) /\ db.ret[r].status \notin Final
          /\ TypeOK
        BY <1>5 DEF Effect, PaysNothing, PaysBack, IInv
    <2>2. /\ final(db, "units") = paidUnits /\ final(db, "item") = paidItem
          /\ db'.ret[r].status \notin Final =>
                 final(db', "units") = paidUnits /\ final(db', "item") = paidItem
          /\ db'.ret[r].status \in Final =>
                 /\ final(db', "units") = db.ret[r]["units"] + paidUnits
                 /\ final(db', "item") = db.ret[r]["item"] + paidItem
        BY <2>1, EffectPaid
    <2>3. CASE db'.ret[r].status \notin Final
        BY <1>1, <2>2, <2>3
    <2>4. CASE db'.ret[r].status \in Final
        <3>1. StillFits(db, r)
            BY <1>5, <2>1, <2>4 DEF Effect, PaysNothing, ApplyRaises
        <3>2. /\ worth <= Total - heldItem
              /\ units > 0 => /\ ~ValueOnlyBesides(db, r)
                              /\ units <= Quantity - heldUnits
                              /\ worth = Share(Total - heldItem, units, Quantity - heldUnits)
            BY <3>1, ReservedIsHeld DEF StillFits, Fits
        <3>3. /\ paidUnits \in Nat /\ heldUnits \in Nat /\ paidUnits =< heldUnits
              /\ paidItem \in Nat /\ heldItem \in Nat /\ paidItem =< heldItem
            BY <1>2, PartSum
        <3>4. units \in Nat /\ worth \in Nat /\ Total \in Nat /\ Quantity \in Nat
            <4>1. db.ret[r] \in ReturnRow
                BY <1>2 DEF Database
            <4> QED
                BY <4>1, TotalAssumption, QuantityAssumption DEF ReturnRow
        <3>5. final(db', "units") = units + paidUnits /\ final(db', "item") = worth + paidItem
            BY <2>2, <2>4
        <3>6. /\ paidUnits <= Quantity
              /\ paidUnits = Quantity => paidItem = Total
            BY <1>1, <2>2
        <3>7. CASE units = 0
            <4> HIDE DEF final, paidUnits, paidItem, heldUnits, heldItem, units, worth
            <4>1. units + paidUnits = paidUnits
                BY <3>3, <3>7
            <4>2. paidUnits = Quantity => worth = 0
                BY <3>2, <3>3, <3>4, <3>6
            <4> QED
                BY <3>3, <3>4, <3>5, <3>6, <4>1, <4>2
        <3>8. CASE units > 0
            <4>1. units + paidUnits <= Quantity
                <5> HIDE DEF paidUnits, heldUnits, units
                <5> QED
                    BY <3>2, <3>3, <3>4, <3>8
            <4>2. ASSUME units + paidUnits = Quantity
                  PROVE  worth + paidItem = Total
                <5>1. paidUnits = heldUnits /\ units = Quantity - heldUnits
                    <6> HIDE DEF paidUnits, heldUnits, units
                    <6> QED
                        BY <3>2, <3>3, <3>4, <3>8, <4>2
                <5>2. worth = Total - heldItem
                    <6> HIDE DEF heldItem, heldUnits, worth, units
                    <6> QED
                        BY <3>2, <3>8, <5>1 DEF Share
                <5>3. ASSUME NEW s \in others
                      PROVE  /\ Paid(db, "item")[s] \in Int
                             /\ Paid(db, "item")[s] = Held(db, "item")[s]
                    <6>1. CASE db.ret[s].status \in InFlight
                        <7>1. db.ret[s]["units"] = 0
                            BY <1>2, <5>1, <6>1, AllPaid
                        <7>2. ~(db.ret[s].item > 0)
                            BY <3>2, <3>8, <6>1, <7>1 DEF ValueOnlyBesides, Reserving
                        <7>3. db.ret[s]["item"] \in Nat
                            BY <1>2, PartsAreNat
                        <7> QED
                            BY <1>2, <6>1, <7>2, <7>3, Statuses DEF Paid, Held
                    <6>2. CASE db.ret[s].status \notin InFlight
                        BY <1>2, <6>2, PartsAreNat DEF Paid, Held, Reserving
                    <6> QED
                        BY <6>1, <6>2
                <5>4. paidItem = heldItem
                    BY <5>3, FiniteReturns, SumSame
                <5> HIDE DEF paidItem, heldItem, worth
                <5> QED
                    BY <3>3, <3>4, <5>2, <5>4
            <4> HIDE DEF final, paidUnits, paidItem, units, worth
            <4> QED
                BY <3>5, <4>1, <4>2
        <3> QED
            BY <3>4, <3>7, <3>8
    <2> QED
        BY <2>3, <2>4
<1> QED
    BY <1>1, <1>3, <1>4, <1>5, NextEffect

(***************************************************************************)
(* The inductive invariant about the money, on top of the other.           *)
(***************************************************************************)
MInv == /\ IInv
        /\ ClaimsWithinTotal /\ OrderMatchesRefunds
        /\ UnfinishedCanBeRetried /\ UnitsPaidExactly

\* At first nothing is claimed, held or paid back.
LEMMA InitMInv == Init => MInv
<1> SUFFICES ASSUME Init PROVE MInv
    OBVIOUS
<1>1. IInv
    BY InitIInv
<1>2. \A r \in Returns : db.ret[r].status = "none" /\ db.ret[r].amount = 0
    BY DEF Init
<1>3. \A r \in Returns : /\ Claims[r] = 0 /\ Amounts(db, Final)[r] = 0
                         /\ Paid(db, "units")[r] = 0
    BY <1>2, Statuses DEF Claims, Amounts, Paid
<1>4. /\ SumFunctionOnSet(Claims, Returns) = 0 /\ CompletedTotal(db) = 0
      /\ SumFunctionOnSet(Paid(db, "units"), Returns) = 0
    BY <1>3, FiniteReturns, SumZero DEF CompletedTotal
<1>5. ClaimsWithinTotal
    BY <1>4, TotalAssumption DEF ClaimsWithinTotal
<1>6. OrderMatchesRefunds
    BY <1>4, TotalAssumption DEF Init, OrderMatchesRefunds
<1>7. UnfinishedCanBeRetried
    BY <1>2, Statuses DEF UnfinishedCanBeRetried
<1>8. UnitsPaidExactly
    BY <1>4, QuantityAssumption DEF UnitsPaidExactly, Paid
<1> QED
    BY <1>1, <1>5, <1>6, <1>7, <1>8 DEF MInv

LEMMA NextMInv == MInv /\ [Next]_vars => MInv'
<1> SUFFICES ASSUME MInv, [Next]_vars PROVE MInv'
    OBVIOUS
<1>1. IInv /\ IInv'
    BY NextIInv DEF MInv
<1>2. TypeOK'
    BY <1>1 DEF IInv
<1>3. ClaimsWithinTotal'
    BY <1>1, <1>2, ClaimsStep DEF MInv
<1> QED
    BY <1>1, <1>2, <1>3, OrderStep, RetryStep, UnitsStep DEF MInv

LEMMA MoneyInvariance == Spec => []MInv
<1> QED
    BY InitMInv, NextMInv, PTL DEF Spec

(***************************************************************************)
(* What the provider sent back or may still send back never exceeds what   *)
(* the customer paid.                                                      *)
(***************************************************************************)
THEOREM MoneyWithinTotalAlways == Spec => []MoneyWithinTotal
<1>1. MInv => MoneyWithinTotal
    <2> SUFFICES ASSUME MInv PROVE MoneyWithinTotal
        OBVIOUS
    <2> DEFINE sent == [r \in Returns |-> IF prov[r] \in {"pending", "succeeded"}
                                          THEN db.ret[r].amount ELSE 0]
    <2>1. \A r \in Returns : /\ sent[r] \in Int /\ Claims[r] \in Int
                             /\ sent[r] =< Claims[r]
        BY ClaimsAreNat DEF Claims, MInv, IInv
    <2>2. SumFunctionOnSet(sent, Returns) =< SumFunctionOnSet(Claims, Returns)
        BY <2>1, FiniteReturns, SumGrows
    <2>3. /\ SumFunctionOnSet(sent, Returns) \in Int
          /\ SumFunctionOnSet(Claims, Returns) \in Int
        BY <2>1, FiniteReturns, SumType
    <2>4. SumFunctionOnSet(sent, Returns) <= Total
        BY <2>2, <2>3, TotalAssumption DEF MInv, ClaimsWithinTotal
    <2> QED
        BY <2>4 DEF MoneyWithinTotal
<1> QED
    BY <1>1, MoneyInvariance, PTL

(***************************************************************************)
(* The order's payment status and the loyalty effects of a full refund     *)
(* agree with the refunds that completed.                                  *)
(***************************************************************************)
THEOREM OrderMatchesRefundsAlways == Spec => []OrderMatchesRefunds
<1>1. MInv => OrderMatchesRefunds
    BY DEF MInv
<1> QED
    BY <1>1, MoneyInvariance, PTL

(***************************************************************************)
(* An order is not closed as refunded over the head of an unfinished       *)
(* refund: an administrator can always approve that one again.             *)
(***************************************************************************)
THEOREM UnfinishedCanBeRetriedAlways == Spec => []UnfinishedCanBeRetried
<1>1. MInv => UnfinishedCanBeRetried
    BY DEF MInv
<1> QED
    BY <1>1, MoneyInvariance, PTL

(***************************************************************************)
(* No more units are paid back than were sold, and the last of them takes  *)
(* the line's money to the cent.                                           *)
(***************************************************************************)
THEOREM UnitsPaidExactlyAlways == Spec => []UnitsPaidExactly
<1>1. MInv => UnitsPaidExactly
    BY DEF MInv
<1> QED
    BY <1>1, MoneyInvariance, PTL

-----------------------------------------------------------------------------
(***************************************************************************)
(* The refinement.  A transaction completes one refund that still fits, or *)
(* leaves what was paid back as it is.                                     *)
(***************************************************************************)
Completes(r) ==
    LET amount == db.ret[r].amount
    IN  /\ amount \in 1..Total
        /\ Amounts(db, Final)[r] = 0
        /\ ~(CompletedBesides(db, r) + amount > Total)
        /\ Amounts(db', Final) = [Amounts(db, Final) EXCEPT ![r] = amount]

KeepsAmounts == Amounts(db', Final) = Amounts(db, Final)

\* The ledger adds up refunds as the model does.
LEMMA SumsAgree ==
    ASSUME NEW f, NEW S
    PROVE  Ledger!SumFunctionOnSet(f, S) = SumFunctionOnSet(f, S)
BY Zenon DEF Ledger!SumFunctionOnSet, SumFunctionOnSet, Ledger!FoldFunctionOnSet,
   FoldFunctionOnSet, Ledger!MapThenFoldSet, MapThenFoldSet

\* Completing a refund is the ledger's action.
LEMMA CompletesIsLedger ==
    ASSUME NEW r \in Returns, Completes(r)
    PROVE  Ledger!Next
<1> DEFINE amount == db.ret[r].amount
<1>1. ~Ledger!Exceeds(r, amount)
    BY SumsAgree DEF Ledger!Exceeds, Completes, CompletedBesides
<1>2. Ledger!Complete(r, amount)
    BY <1>1 DEF Ledger!Complete, Completes
<1> QED
    BY <1>2 DEF Ledger!Next, Completes

\* A return that was not final and is not now counts for nothing.
LEMMA NotFinalKeeps ==
    ASSUME NEW r \in Returns, db.ret[r].status \notin Final,
           db'.ret[r].status \notin Final,
           \A s \in Returns \ {r} : db'.ret[s] = db.ret[s]
    PROVE  KeepsAmounts
BY DEF KeepsAmounts, Amounts

\* A return that is paid back counts with its whole amount.
LEMMA PayingCompletes ==
    ASSUME TypeOK, NEW r \in Returns, PaysBack(db, db', r), db.ret[r].amount > 0,
           ~ApplyRaises(db, r, "succeeded")
    PROVE  Completes(r)
<1>1. db.ret[r].amount \in 1..Total
    BY TotalAssumption DEF TypeOK, Database, ReturnRow
<1>2. Amounts(db', Final) = [Amounts(db, Final) EXCEPT ![r] = db.ret[r].amount]
    BY DEF Amounts, PaysBack, SameParts
<1>3. Amounts(db, Final)[r] = 0
    BY DEF Amounts, PaysBack
<1>4. ~(CompletedBesides(db, r) + db.ret[r].amount > Total)
    BY DEF ApplyRaises, PaysBack
<1> QED
    BY <1>1, <1>2, <1>3, <1>4 DEF Completes

\* Reserving money for a return pays nothing.
LEMMA ApproveKeeps ==
    ASSUME IInv, NEW a \in Approvers, NEW r \in Returns, NEW c \in Compositions,
           Approve(a, r, c)
    PROVE  KeepsAmounts
<1>1. /\ \A s \in Returns \ {r} : db'.ret[s] = db.ret[s]
      /\ db'.ret[r].status = "processing" /\ db.ret[r].status \notin Final
    BY DEF Approve, SetOrder, IInv, TypeOK, Database, ReturnRow
<1> QED
    BY <1>1, NotFinalKeeps, Statuses

\* Every step of the system is a step of the ledger or none.
LEMMA NextLedger ==
    ASSUME IInv, [Next]_vars
    PROVE  [Ledger!Next]_(Amounts(db, Final))
<1>1. ASSUME NEW r \in Returns, Effect(r) PROVE KeepsAmounts \/ Completes(r)
    <2>1. CASE PaysNothing(db, db', r)
        BY <2>1, NotFinalKeeps DEF PaysNothing, SameParts
    <2> QED
        BY <1>1, <2>1, PayingCompletes DEF Effect, IInv
<1>2. UNCHANGED db => KeepsAmounts
    BY DEF KeepsAmounts
<1>3. KeepsAmounts \/ \E r \in Returns : Completes(r)
    BY <1>1, <1>2, NextEffect, ApproveKeeps
<1> QED
    BY <1>3, CompletesIsLedger DEF KeepsAmounts

(***************************************************************************)
(* Every behaviour of the refunds is one of the ledger: whatever is        *)
(* answered twice, late or by several actors, each return is paid back     *)
(* once, for good, and within what the customer paid.                      *)
(***************************************************************************)
THEOREM LedgerImplemented == Spec => ImplementsLedger
<1>1. Init => Ledger!Init
    BY Statuses DEF Init, Ledger!Init, Amounts
<1>2. IInv /\ [Next]_vars => [Ledger!Next]_(Amounts(db, Final))
    BY NextLedger
<1> QED
    BY <1>1, <1>2, Invariance, PTL DEF Spec, ImplementsLedger, Ledger!Spec

-----------------------------------------------------------------------------
(***************************************************************************)
(* The goods that come back (ReverseLogistics): the inductive invariant.   *)
(* What a case counted follows the order authorized, received, inspected,  *)
(* and its status tells how far all its lines have come.                   *)
(***************************************************************************)

\* GoodsTypeOK but for the money of the commands.
GoodsTypes ==
    /\ sale \in Sales
    /\ defective \in BOOLEAN
    /\ status \in [Cases -> CaseStatus]
    /\ item \in [Cases -> [Lines -> Quantities]]
    /\ evidence \in [Cases -> [Lines -> Counts]]
    /\ completed \in Seq(Cases)
    /\ restocked \in [Lines -> Nat]
    /\ demand \in BOOLEAN
    /\ command \in [Cases -> [Dispositions -> CommandStatus]]
    /\ documents \in SUBSET (Cases \X Dispositions)
    /\ move \in [Moves -> MoveRecord \cup {NoMove}]

\* No more is received than was authorized, no more inspected than received,
\* and what was inspected has one disposition or another.
CountsFit(i) ==
    /\ i.received <= i.authorized
    /\ i.inspected <= i.received
    /\ i.resalable + i.damaged + i.quarantine = i.inspected

\* How far the lines of a case in this status have come.
StageFits(s, i) ==
    /\ s \in {"none", "authorized"} => i.received = 0
    /\ s \in {"received", "inspected"} => i.received = i.authorized
    /\ s = "inspected" => i.inspected = i.authorized

CasesFit == \A c \in Cases, l \in Lines :
                CountsFit(item[c][l]) /\ StageFits(status[c], item[c][l])

LEMMA QuantityFields ==
    ASSUME NEW i \in Quantities
    PROVE  /\ i.authorized \in Nat /\ i.received \in Nat /\ i.inspected \in Nat
           /\ i.resalable \in Nat /\ i.damaged \in Nat /\ i.quarantine \in Nat
BY DEF Quantities

\* Sums of which none is greater in any place are equal only place by place.
LEMMA SumsEqual ==
    ASSUME NEW f, NEW g, NEW S, IsFiniteSet(S),
           \A x \in S : f[x] \in Int /\ g[x] \in Int /\ f[x] =< g[x]
    PROVE  SumFunctionOnSet(f, S) = SumFunctionOnSet(g, S) <=> \A x \in S : f[x] = g[x]
<1>1. ASSUME \A x \in S : f[x] = g[x]
      PROVE  SumFunctionOnSet(f, S) = SumFunctionOnSet(g, S)
    BY <1>1, SumSame
<1>2. ASSUME NEW s \in S, f[s] # g[s]
      PROVE  SumFunctionOnSet(f, S) # SumFunctionOnSet(g, S)
    <2>1. f[s] < g[s]
        BY <1>2
    <2>2. SumFunctionOnSet(f, S) < SumFunctionOnSet(g, S)
        BY <2>1, SumGrowsStrictly
    <2>3. SumFunctionOnSet(f, S) \in Int /\ SumFunctionOnSet(g, S) \in Int
        BY SumType
    <2> QED
        BY <2>2, <2>3
<1> QED
    BY <1>1, <1>2

\* The status that _refresh_case computes from the counts.
LEMMA RefreshedIs ==
    ASSUME NEW c \in Cases, NEW its, its[c] \in [Lines -> Quantities],
           \A l \in Lines : CountsFit(its[c][l])
    PROVE  Refreshed(c, its) =
              IF \A l \in Lines : its[c][l].inspected = its[c][l].authorized
              THEN "inspected"
              ELSE IF \A l \in Lines : its[c][l].received = its[c][l].authorized
                   THEN "received"
                   ELSE IF status[c] = "in_transit" THEN "in_transit" ELSE "authorized"
<1> DEFINE total(field) == SumFunction([l \in Lines |-> its[c][l][field]])
           f == [l \in Lines |-> its[c][l].inspected]
           g == [l \in Lines |-> its[c][l].received]
           h == [l \in Lines |-> its[c][l].authorized]
<1>1. \A l \in Lines : /\ f[l] \in Int /\ g[l] \in Int /\ h[l] \in Int
                       /\ f[l] =< h[l] /\ g[l] =< h[l]
    BY QuantityFields DEF CountsFit
<1>2. /\ total("inspected") = SumFunctionOnSet(f, Lines)
      /\ total("received") = SumFunctionOnSet(g, Lines)
      /\ total("authorized") = SumFunctionOnSet(h, Lines)
    BY DEF SumFunction
<1>3. /\ SumFunctionOnSet(f, Lines) = SumFunctionOnSet(h, Lines) <=> \A l \in Lines : f[l] = h[l]
      /\ SumFunctionOnSet(g, Lines) = SumFunctionOnSet(h, Lines) <=> \A l \in Lines : g[l] = h[l]
    <2> HIDE DEF f, g, h
    <2> QED BY <1>1, SumsEqual, LinesAssumption
<1>4. Refreshed(c, its) =
         IF total("inspected") = total("authorized") THEN "inspected"
         ELSE IF total("received") = total("authorized") THEN "received"
         ELSE IF status[c] = "in_transit" THEN "in_transit" ELSE "authorized"
    <2> HIDE DEF total
    <2> QED BY DEF Refreshed, total
<1> QED
    BY <1>2, <1>3, <1>4

-----------------------------------------------------------------------------
(***************************************************************************)
(* What the requests change.                                               *)
(***************************************************************************)

\* Line l of case c counts anew, and nothing else does.
ItemGoes(c, l) ==
    /\ item' \in [Cases -> [Lines -> Quantities]]
    /\ \A x \in Cases, y \in Lines : x # c \/ y # l => item'[x][y] = item[x][y]

LEMMA ItemReplaced ==
    ASSUME GoodsTypes, NEW c \in Cases, NEW l \in Lines, NEW r \in Quantities,
           item' = [item EXCEPT ![c][l] = r]
    PROVE  ItemGoes(c, l) /\ item'[c][l] = r
BY DEF ItemGoes, GoodsTypes

LEMMA UnitsType ==
    ASSUME GoodsTypes, NEW n \in Units
    PROVE  n \in Nat /\ n > 0
BY DEF Units

LEMMA AuthorizeItem ==
    ASSUME GoodsTypes, NEW c \in Cases, NEW l \in Lines, NEW n \in Nat, Authorize(c, l, n)
    PROVE  /\ ItemGoes(c, l)
           /\ item'[c][l] = [item[c][l] EXCEPT !.authorized = n]
<1>1. item[c][l] \in Quantities
    BY DEF GoodsTypes
<1>2. item' = [item EXCEPT ![c][l] = [item[c][l] EXCEPT !.authorized = n]]
    BY DEF Authorize, GoodsTypes
<1>3. [item[c][l] EXCEPT !.authorized = n] \in Quantities
    BY <1>1 DEF Quantities
<1> QED
    BY <1>2, <1>3, ItemReplaced

LEMMA ReceiveItem ==
    ASSUME GoodsTypes, NEW c \in Cases, NEW l \in Lines, NEW n \in Nat, Receive(c, l, n)
    PROVE  /\ ItemGoes(c, l)
           /\ item'[c][l] = [item[c][l] EXCEPT !.received = item[c][l].received + n]
<1>1. item[c][l] \in Quantities
    BY DEF GoodsTypes
<1>2. item' = [item EXCEPT ![c][l] =
                  [item[c][l] EXCEPT !.received = item[c][l].received + n]]
    BY DEF Receive, GoodsTypes
<1>3. [item[c][l] EXCEPT !.received = item[c][l].received + n] \in Quantities
    BY <1>1 DEF Quantities
<1> QED
    BY <1>2, <1>3, ItemReplaced

Fields == {"authorized", "received", "inspected", "resalable", "damaged", "quarantine"}

LEMMA FieldReplaced ==
    ASSUME NEW i \in Quantities, NEW d \in Fields, NEW v \in Nat
    PROVE  /\ [i EXCEPT ![d] = v] \in Quantities
           /\ \A x \in Fields : [i EXCEPT ![d] = v][x] = IF x = d THEN v ELSE i[x]
           /\ \A x \in Fields : i[x] \in Nat
<1>1. CASE d = "authorized"
    BY <1>1 DEF Quantities, Fields
<1>2. CASE d = "received"
    BY <1>2 DEF Quantities, Fields
<1>3. CASE d = "inspected"
    BY <1>3 DEF Quantities, Fields
<1>4. CASE d = "resalable"
    BY <1>4 DEF Quantities, Fields
<1>5. CASE d = "damaged"
    BY <1>5 DEF Quantities, Fields
<1>6. CASE d = "quarantine"
    BY <1>6 DEF Quantities, Fields
<1> QED
    BY <1>1, <1>2, <1>3, <1>4, <1>5, <1>6 DEF Fields

LEMMA InspectItem ==
    ASSUME GoodsTypes, NEW c \in Cases, NEW l \in Lines, NEW n \in Nat,
           NEW d \in Dispositions, Inspect(c, l, n, d)
    PROVE  /\ ItemGoes(c, l)
           /\ item'[c][l].authorized = item[c][l].authorized
           /\ item'[c][l].received = item[c][l].received
           /\ item'[c][l].inspected = item[c][l].inspected + n
           /\ \A x \in Dispositions :
                 item'[c][l][x] = item[c][l][x] + (IF x = d THEN n ELSE 0)
<1> DEFINE i == item[c][l]
           j == [i EXCEPT !["inspected"] = i.inspected + n]
           r == [j EXCEPT ![d] = j[d] + n]
<1>1. i \in Quantities
    BY DEF GoodsTypes
<1>2. d \in Fields /\ "inspected" \in Fields /\ Dispositions \subseteq Fields
    BY DEF Fields, Dispositions
<1>3. item' = [item EXCEPT ![c][l] = r]
    BY Zenon DEF Inspect, Counting
<1>4. /\ j \in Quantities
      /\ \A x \in Fields : j[x] = IF x = "inspected" THEN i.inspected + n ELSE i[x]
      /\ \A x \in Fields : i[x] \in Nat
    <2> HIDE DEF i
    <2>1. i.inspected + n \in Nat
        BY <1>1, QuantityFields
    <2> QED BY <1>1, <1>2, <2>1, FieldReplaced
<1>5. /\ r \in Quantities
      /\ \A x \in Fields : r[x] = IF x = d THEN j[d] + n ELSE j[x]
    <2> HIDE DEF j, i
    <2>1. j[d] + n \in Nat
        BY <1>2, <1>4, QuantityFields
    <2> QED BY <1>2, <1>4, <2>1, FieldReplaced
<1>6. ItemGoes(c, l) /\ item'[c][l] = r
    <2> HIDE DEF r
    <2> QED BY <1>3, <1>5, ItemReplaced
<1> HIDE DEF r, j, i
<1>7. \A x \in Fields : item'[c][l][x] = i[x] + (IF x = d \/ x = "inspected" THEN n ELSE 0)
    <2>1. d # "inspected"
        BY DEF Dispositions
    <2> QED BY <1>2, <1>4, <1>5, <1>6, <2>1
<1> QED
    BY <1>4, <1>6, <1>7 DEF Fields, Dispositions, i

LEMMA ResolveItem ==
    ASSUME GoodsTypes, NEW c \in Cases, NEW l \in Lines, NEW n \in Nat,
           NEW d \in Targets, NEW m \in Moves, ResolveQuarantine(c, l, n, d, m)
    PROVE  /\ n <= item[c][l].quarantine
           /\ ItemGoes(c, l)
           /\ item'[c][l].authorized = item[c][l].authorized
           /\ item'[c][l].received = item[c][l].received
           /\ item'[c][l].inspected = item[c][l].inspected
           /\ item'[c][l].quarantine = item[c][l].quarantine - n
           /\ \A x \in Targets :
                 item'[c][l][x] = item[c][l][x] + (IF x = d THEN n ELSE 0)
<1> DEFINE i == item[c][l]
           j == [i EXCEPT !["quarantine"] = i.quarantine + (-n)]
           r == [j EXCEPT ![d] = j[d] + n]
<1>1. i \in Quantities
    BY DEF GoodsTypes
<1>2. d \in Fields /\ "quarantine" \in Fields /\ Targets \subseteq Fields
    BY DEF Fields, Targets
<1>3. item' = [item EXCEPT ![c][l] = r] /\ n <= i.quarantine
    BY Zenon DEF ResolveQuarantine, InQuarantine, Counting
<1>4. /\ j \in Quantities
      /\ \A x \in Fields : j[x] = IF x = "quarantine" THEN i.quarantine - n ELSE i[x]
      /\ \A x \in Fields : i[x] \in Nat
    <2> HIDE DEF i
    <2>1. i.quarantine + (-n) \in Nat /\ i.quarantine + (-n) = i.quarantine - n
        BY <1>1, <1>3, QuantityFields
    <2>2. /\ j \in Quantities
          /\ \A x \in Fields : j[x] = IF x = "quarantine" THEN i.quarantine + (-n) ELSE i[x]
          /\ \A x \in Fields : i[x] \in Nat
        BY <1>1, <1>2, <2>1, FieldReplaced
    <2> HIDE DEF j
    <2> QED BY <2>1, <2>2
<1>5. /\ r \in Quantities
      /\ \A x \in Fields : r[x] = IF x = d THEN j[d] + n ELSE j[x]
    <2> HIDE DEF j, i
    <2>1. j[d] + n \in Nat
        BY <1>2, <1>3, <1>4, QuantityFields
    <2> QED BY <1>2, <1>4, <2>1, FieldReplaced
<1>6. ItemGoes(c, l) /\ item'[c][l] = r
    <2> HIDE DEF r
    <2> QED BY <1>3, <1>5, ItemReplaced
<1> HIDE DEF r, j, i
<1>7. \A x \in Fields : item'[c][l][x] =
                        IF x = "quarantine" THEN i[x] - n
                        ELSE i[x] + (IF x = d THEN n ELSE 0)
    <2>1. d # "quarantine"
        BY DEF Targets
    <2> QED BY <1>2, <1>4, <1>5, <1>6, <2>1
<1> QED
    BY <1>3, <1>4, <1>6, <1>7 DEF Fields, Targets, i

\* A case that is refreshed shows how far its lines have come.
LEMMA RefreshedFits ==
    ASSUME NEW c \in Cases, NEW its, its[c] \in [Lines -> Quantities],
           \A l \in Lines : CountsFit(its[c][l]),
           \/ status[c] = "in_transit"
           \/ \A l \in Lines : its[c][l].received = its[c][l].authorized
           \/ \A l \in Lines : its[c][l].received = 0
    PROVE  /\ Refreshed(c, its) \in CaseStatus
           /\ \A l \in Lines : StageFits(Refreshed(c, its), its[c][l])
<1>1. \A l \in Lines : its[c][l] \in Quantities
    OBVIOUS
<1>2. \A l \in Lines : /\ its[c][l].received <= its[c][l].authorized
                       /\ its[c][l].inspected <= its[c][l].received
                       /\ its[c][l].received \in Nat /\ its[c][l].authorized \in Nat
                       /\ its[c][l].inspected \in Nat
    BY <1>1, QuantityFields DEF CountsFit
<1>3. CASE \A l \in Lines : its[c][l].inspected = its[c][l].authorized
    BY <1>2, <1>3, RefreshedIs DEF CaseStatus, StageFits
<1>4. CASE /\ ~ \A l \in Lines : its[c][l].inspected = its[c][l].authorized
           /\ \A l \in Lines : its[c][l].received = its[c][l].authorized
    BY <1>2, <1>4, RefreshedIs DEF CaseStatus, StageFits
<1>5. CASE /\ ~ \A l \in Lines : its[c][l].inspected = its[c][l].authorized
           /\ ~ \A l \in Lines : its[c][l].received = its[c][l].authorized
    <2>1. Refreshed(c, its) = IF status[c] = "in_transit" THEN "in_transit" ELSE "authorized"
        BY <1>5, RefreshedIs
    <2> QED
        BY <1>5, <2>1 DEF CaseStatus, StageFits
<1> QED
    BY <1>3, <1>4, <1>5

\* What a request must leave of its case for all cases to fit.
LEMMA CasesStillFit ==
    ASSUME GoodsTypes, CasesFit, NEW c \in Cases, NEW l \in Lines, ItemGoes(c, l),
           \A x \in Cases : x # c => status'[x] = status[x],
           CountsFit(item'[c][l]),
           \A y \in Lines : StageFits(status'[c], item'[c][y])
    PROVE  CasesFit'
<1> SUFFICES ASSUME NEW x \in Cases, NEW y \in Lines
             PROVE  CountsFit(item'[x][y]) /\ StageFits(status'[x], item'[x][y])
    BY DEF CasesFit
<1>1. CountsFit(item[x][y]) /\ StageFits(status[x], item[x][y])
    BY DEF CasesFit
<1>2. CASE x = c /\ y = l
    BY <1>2
<1>3. CASE x = c /\ y # l
    BY <1>1, <1>3 DEF ItemGoes
<1>4. CASE x # c
    BY <1>1, <1>4 DEF ItemGoes
<1> QED
    BY <1>2, <1>3, <1>4

\* The counts of all lines of the case, when those of line l fit.
LEMMA CaseCounts ==
    ASSUME CasesFit, NEW c \in Cases, NEW l \in Lines, ItemGoes(c, l),
           CountsFit(item'[c][l])
    PROVE  \A y \in Lines : CountsFit(item'[c][y])
<1> SUFFICES ASSUME NEW y \in Lines PROVE CountsFit(item'[c][y])
    OBVIOUS
<1>1. CASE y = l
    BY <1>1
<1>2. CASE y # l
    BY <1>2 DEF ItemGoes, CasesFit
<1> QED
    BY <1>1, <1>2

LEMMA AuthorizeFits ==
    ASSUME GoodsTypes, CasesFit, NEW c \in Cases, NEW l \in Lines, NEW n \in Nat,
           Authorize(c, l, n)
    PROVE  CasesFit' /\ status'[c] \in CaseStatus
<1> DEFINE i == item[c][l]
<1>1. /\ ItemGoes(c, l)
      /\ item'[c][l] = [i EXCEPT !.authorized = n]
    BY AuthorizeItem
<1>2. i \in Quantities /\ item'[c][l] \in Quantities
    BY <1>1 DEF GoodsTypes, ItemGoes
<1>3. /\ i.authorized = 0
      /\ CountsFit(i)
      /\ status[c] \in {"none", "authorized"}
      /\ status' = [status EXCEPT ![c] = Refreshed(c, item')]
      /\ status'[c] = Refreshed(c, item')
    BY DEF Authorize, CasesFit, GoodsTypes
<1>4. /\ item'[c][l].authorized = n
      /\ item'[c][l].received = i.received /\ item'[c][l].inspected = i.inspected
      /\ item'[c][l].resalable = i.resalable /\ item'[c][l].damaged = i.damaged
      /\ item'[c][l].quarantine = i.quarantine
    <2> HIDE DEF i
    <2> QED BY <1>1, <1>2 DEF Quantities
<1>5. CountsFit(item'[c][l])
    <2> HIDE DEF i
    <2> QED BY <1>2, <1>3, <1>4, QuantityFields DEF CountsFit
<1>6. \A y \in Lines : item'[c][y].received = 0
    <2>1. \A y \in Lines : item[c][y].received = 0
        BY <1>3 DEF CasesFit, StageFits
    <2> QED BY <1>1, <1>4, <2>1 DEF ItemGoes
<1>7. /\ Refreshed(c, item') \in CaseStatus
      /\ \A y \in Lines : StageFits(Refreshed(c, item'), item'[c][y])
    <2>1. item'[c] \in [Lines -> Quantities]
        BY <1>1 DEF ItemGoes
    <2>2. \A y \in Lines : CountsFit(item'[c][y])
        BY <1>1, <1>5, CaseCounts
    <2> QED BY <1>6, <2>1, <2>2, RefreshedFits
<1>8. \A x \in Cases : x # c => status'[x] = status[x]
    BY <1>3 DEF GoodsTypes
<1> QED
    BY <1>1, <1>3, <1>5, <1>7, <1>8, CasesStillFit

LEMMA ReceiveFits ==
    ASSUME GoodsTypes, CasesFit, NEW c \in Cases, NEW l \in Lines, NEW n \in Nat, n > 0,
           Receive(c, l, n)
    PROVE  CasesFit' /\ status'[c] \in CaseStatus /\ status[c] = "in_transit"
<1> DEFINE i == item[c][l]
<1>1. /\ ItemGoes(c, l)
      /\ item'[c][l] = [i EXCEPT !.received = i.received + n]
    BY ReceiveItem
<1>2. i \in Quantities /\ item'[c][l] \in Quantities
    BY <1>1 DEF GoodsTypes, ItemGoes
<1>3. /\ i.received + n <= i.authorized
      /\ CountsFit(i)
      /\ status[c] \in {"in_transit", "received"}
      /\ status[c] = "received" => i.received = i.authorized
      /\ status' = [status EXCEPT ![c] = Refreshed(c, item')]
      /\ status'[c] = Refreshed(c, item')
    BY DEF Receive, CasesFit, StageFits, GoodsTypes
<1>4. /\ item'[c][l].authorized = i.authorized
      /\ item'[c][l].received = i.received + n /\ item'[c][l].inspected = i.inspected
      /\ item'[c][l].resalable = i.resalable /\ item'[c][l].damaged = i.damaged
      /\ item'[c][l].quarantine = i.quarantine
    <2> HIDE DEF i
    <2> QED BY <1>1, <1>2 DEF Quantities
<1>5. CountsFit(item'[c][l]) /\ status[c] = "in_transit"
    <2> HIDE DEF i
    <2> QED BY <1>2, <1>3, <1>4, QuantityFields DEF CountsFit
<1>6. /\ Refreshed(c, item') \in CaseStatus
      /\ \A y \in Lines : StageFits(Refreshed(c, item'), item'[c][y])
    <2>1. item'[c] \in [Lines -> Quantities]
        BY <1>1 DEF ItemGoes
    <2>2. \A y \in Lines : CountsFit(item'[c][y])
        BY <1>1, <1>5, CaseCounts
    <2> QED BY <1>5, <2>1, <2>2, RefreshedFits
<1>7. \A x \in Cases : x # c => status'[x] = status[x]
    BY <1>3 DEF GoodsTypes
<1> QED
    BY <1>1, <1>3, <1>5, <1>6, <1>7, CasesStillFit

LEMMA InspectFits ==
    ASSUME GoodsTypes, CasesFit, NEW c \in Cases, NEW l \in Lines, NEW n \in Nat, n > 0,
           NEW d \in Dispositions, Inspect(c, l, n, d)
    PROVE  CasesFit' /\ status'[c] \in CaseStatus /\ status[c] = "received"
<1> DEFINE i == item[c][l]
<1>1. /\ ItemGoes(c, l)
      /\ item'[c][l].authorized = i.authorized
      /\ item'[c][l].received = i.received
      /\ item'[c][l].inspected = i.inspected + n
      /\ \A x \in Dispositions : item'[c][l][x] = i[x] + (IF x = d THEN n ELSE 0)
    BY InspectItem
<1>2. i \in Quantities /\ item'[c][l] \in Quantities
    BY <1>1 DEF GoodsTypes, ItemGoes
<1>3. /\ i.inspected + n <= i.received
      /\ CountsFit(i)
      /\ status[c] \in {"received", "inspected"}
      /\ i.received = i.authorized
      /\ status[c] = "inspected" => i.inspected = i.authorized
      /\ status' = [status EXCEPT ![c] = Refreshed(c, item')]
      /\ status'[c] = Refreshed(c, item')
    BY DEF Inspect, CasesFit, StageFits, GoodsTypes
<1>4. /\ item'[c][l].resalable = i.resalable + (IF "resalable" = d THEN n ELSE 0)
      /\ item'[c][l].damaged = i.damaged + (IF "damaged" = d THEN n ELSE 0)
      /\ item'[c][l].quarantine = i.quarantine + (IF "quarantine" = d THEN n ELSE 0)
    BY <1>1 DEF Dispositions
<1>5. CountsFit(item'[c][l]) /\ status[c] = "received"
    <2> HIDE DEF i
    <2>1. d = "resalable" \/ d = "damaged" \/ d = "quarantine"
        BY DEF Dispositions
    <2> QED BY <1>1, <1>2, <1>3, <1>4, <2>1, QuantityFields DEF CountsFit
<1>6. \A y \in Lines : item'[c][y].received = item'[c][y].authorized
    <2>1. \A y \in Lines : item[c][y].received = item[c][y].authorized
        BY <1>3 DEF CasesFit, StageFits
    <2> QED BY <1>1, <2>1 DEF ItemGoes
<1>7. /\ Refreshed(c, item') \in CaseStatus
      /\ \A y \in Lines : StageFits(Refreshed(c, item'), item'[c][y])
    <2>1. item'[c] \in [Lines -> Quantities]
        BY <1>1 DEF ItemGoes
    <2>2. \A y \in Lines : CountsFit(item'[c][y])
        BY <1>1, <1>5, CaseCounts
    <2> QED BY <1>6, <2>1, <2>2, RefreshedFits
<1>8. \A x \in Cases : x # c => status'[x] = status[x]
    BY <1>3 DEF GoodsTypes
<1> QED
    BY <1>1, <1>3, <1>5, <1>7, <1>8, CasesStillFit

LEMMA ResolveFits ==
    ASSUME GoodsTypes, CasesFit, NEW c \in Cases, NEW l \in Lines, NEW n \in Nat,
           NEW d \in Targets, NEW m \in Moves, ResolveQuarantine(c, l, n, d, m)
    PROVE  CasesFit'
<1> DEFINE i == item[c][l]
<1>1. /\ ItemGoes(c, l)
      /\ item'[c][l].authorized = i.authorized
      /\ item'[c][l].received = i.received
      /\ item'[c][l].inspected = i.inspected
      /\ item'[c][l].quarantine = i.quarantine - n
      /\ \A x \in Targets : item'[c][l][x] = i[x] + (IF x = d THEN n ELSE 0)
    BY ResolveItem
<1>2. i \in Quantities /\ item'[c][l] \in Quantities
    BY <1>1 DEF GoodsTypes, ItemGoes
<1>3. CountsFit(i) /\ status[c] = "inspected" /\ status' = status
    BY DEF ResolveQuarantine, CasesFit
<1>4. /\ item'[c][l].resalable = i.resalable + (IF "resalable" = d THEN n ELSE 0)
      /\ item'[c][l].damaged = i.damaged + (IF "damaged" = d THEN n ELSE 0)
    BY <1>1 DEF Targets
<1>5. CountsFit(item'[c][l])
    <2> HIDE DEF i
    <2>1. d = "resalable" \/ d = "damaged"
        BY DEF Targets
    <2> QED BY <1>1, <1>2, <1>3, <1>4, <2>1, QuantityFields DEF CountsFit
<1>6. \A y \in Lines : StageFits(status'[c], item'[c][y])
    <2> SUFFICES ASSUME NEW y \in Lines PROVE StageFits(status'[c], item'[c][y])
        OBVIOUS
    <2>1. StageFits(status[c], item[c][y])
        BY DEF CasesFit
    <2>2. /\ item'[c][y].authorized = item[c][y].authorized
          /\ item'[c][y].received = item[c][y].received
          /\ item'[c][y].inspected = item[c][y].inspected
        BY <1>1 DEF ItemGoes
    <2> QED
        BY <1>3, <2>1, <2>2 DEF StageFits
<1> QED
    BY <1>1, <1>3, <1>5, <1>6, CasesStillFit

-----------------------------------------------------------------------------
(***************************************************************************)
(* Units put back in stock: for each line, the sum over the cases.         *)
(***************************************************************************)

\* A sum of which one value changes.
LEMMA SumAdds ==
    ASSUME NEW f, NEW g, NEW S, IsFiniteSet(S), NEW x \in S,
           \A y \in S : f[y] \in Int /\ g[y] \in Int /\ (y # x => g[y] = f[y])
    PROVE  /\ SumFunctionOnSet(g, S) = SumFunctionOnSet(f, S) + (g[x] - f[x])
           /\ SumFunctionOnSet(f, S) \in Int
<1> DEFINE D == S \ {x}
<1>1. IsFiniteSet(D) /\ D \subseteq S
    BY FS_Subset
<1>2. \A y \in S : f[y] \in Int /\ g[y] \in Int
    OBVIOUS
<1>3. SumFunctionOnSet(g, D) = SumFunctionOnSet(f, D)
    <2>1. \A y \in D : g[y] \in Int /\ g[y] = f[y]
        OBVIOUS
    <2> HIDE DEF D
    <2> QED BY <1>1, <2>1, SumSame
<1>4. /\ SumFunctionOnSet(f, S) = f[x] + SumFunctionOnSet(f, D)
      /\ SumFunctionOnSet(g, S) = g[x] + SumFunctionOnSet(g, D)
    BY <1>2, SumRemove
<1>5. SumFunctionOnSet(f, D) \in Int /\ g[x] \in Int /\ f[x] \in Int
    BY <1>1, <1>2, SumType
<1> HIDE DEF D
<1> QED
    BY <1>3, <1>4, <1>5

CaseItems == [Cases -> [Lines -> Quantities]]
Across(items, l, field) == SumFunction([c \in Cases |-> items[c][l][field]])

LEMMA AcrossIs ==
    ASSUME NEW i \in CaseItems, NEW l \in Lines, NEW field \in Fields
    PROVE  /\ Across(i, l, field) =
                SumFunctionOnSet([c \in Cases |-> i[c][l][field]], Cases)
           /\ Across(i, l, field) \in Nat
           /\ \A c \in Cases : i[c][l] \in Quantities /\ i[c][l][field] \in Nat
<1>1. \A c \in Cases : i[c][l] \in Quantities
    BY DEF CaseItems
<1>2. \A c \in Cases : i[c][l][field] \in Nat
    BY <1>1, FieldReplaced
<1>3. Across(i, l, field) =
        SumFunctionOnSet([c \in Cases |-> i[c][l][field]], Cases)
    BY DEF Across, SumFunction
<1>4. SumFunctionOnSet([c \in Cases |-> i[c][l][field]], Cases) \in Nat
    BY <1>2, SumType, CasesAssumption
<1> QED
    BY <1>1, <1>2, <1>3, <1>4

LEMMA AcrossAdds ==
    ASSUME NEW i \in CaseItems, NEW j \in CaseItems, NEW l \in Lines, NEW field \in Fields,
           NEW c \in Cases, NEW n \in Int,
           \A x \in Cases : j[x][l][field] = i[x][l][field] + (IF x = c THEN n ELSE 0)
    PROVE  Across(j, l, field) = Across(i, l, field) + n
<1> DEFINE f == [x \in Cases |-> i[x][l][field]]
           g == [x \in Cases |-> j[x][l][field]]
<1>1. /\ \A y \in Cases : f[y] \in Int /\ g[y] \in Int /\ (y # c => g[y] = f[y])
      /\ g[c] = f[c] + n
    <2>1. \A y \in Cases : i[y][l][field] \in Nat /\ j[y][l][field] \in Nat
        BY AcrossIs
    <2> QED BY <2>1
<1>2. SumFunctionOnSet(g, Cases) = SumFunctionOnSet(f, Cases) + n
    <2> HIDE DEF f, g
    <2>1. /\ SumFunctionOnSet(g, Cases) = SumFunctionOnSet(f, Cases) + (g[c] - f[c])
          /\ SumFunctionOnSet(f, Cases) \in Int
        BY <1>1, SumAdds, CasesAssumption
    <2> QED BY <1>1, <2>1
<1> QED
    BY <1>2, AcrossIs

LEMMA AcrossSame ==
    ASSUME NEW i \in CaseItems, NEW j \in CaseItems, NEW l \in Lines, NEW field \in Fields,
           \A x \in Cases : j[x][l][field] = i[x][l][field]
    PROVE  Across(j, l, field) = Across(i, l, field)
BY DEF Across

LEMMA AcrossGrows ==
    ASSUME NEW i \in CaseItems, NEW l \in Lines, NEW a \in Fields, NEW b \in Fields,
           \A x \in Cases : i[x][l][a] <= i[x][l][b]
    PROVE  Across(i, l, a) <= Across(i, l, b)
<1> DEFINE f == [x \in Cases |-> i[x][l][a]]
           g == [x \in Cases |-> i[x][l][b]]
<1>1. \A y \in Cases : f[y] \in Int /\ g[y] \in Int /\ f[y] <= g[y]
    <2>1. \A y \in Cases : i[y][l][a] \in Nat /\ i[y][l][b] \in Nat
        BY AcrossIs
    <2> QED BY <2>1
<1>2. SumFunctionOnSet(f, Cases) <= SumFunctionOnSet(g, Cases)
    <2> HIDE DEF f, g
    <2> QED BY <1>1, SumGrows, CasesAssumption
<1> QED
    BY <1>2, AcrossIs

\* What was put back is what was found resalable, and no more comes back than
\* was sold.
RestockFits ==
    \A l \in Lines : /\ restocked[l] = Across(item, l, "resalable")
                     /\ Across(item, l, "authorized") <= sale.quantity[l]

\* When line l of a case counts k units more as resalable, so must the stock.
LEMMA RestockStillFits ==
    ASSUME GoodsTypes, RestockFits, NEW c \in Cases, NEW l \in Lines, NEW k \in Nat,
           ItemGoes(c, l), sale' = sale,
           item'[c][l].resalable = item[c][l].resalable + k,
           \A y \in Lines : restocked'[y] = restocked[y] + (IF y = l THEN k ELSE 0),
           Across(item', l, "authorized") <= sale.quantity[l]
    PROVE  RestockFits'
<1> SUFFICES ASSUME NEW y \in Lines
             PROVE  /\ restocked'[y] = Across(item', y, "resalable")
                    /\ Across(item', y, "authorized") <= sale.quantity[y]
    BY DEF RestockFits
<1>1. item \in CaseItems /\ item' \in CaseItems
    BY DEF GoodsTypes, ItemGoes, CaseItems
<1>2. restocked[y] = Across(item, y, "resalable")
      /\ Across(item, y, "authorized") <= sale.quantity[y]
    BY DEF RestockFits
<1>3. "resalable" \in Fields /\ "authorized" \in Fields
    BY DEF Fields
<1>4. CASE y = l
    <2>1. \A x \in Cases : item'[x][l]["resalable"] =
                              item[x][l]["resalable"] + (IF x = c THEN k ELSE 0)
        <3>1. \A x \in Cases : item[x][l]["resalable"] \in Nat
            BY <1>1, <1>3, AcrossIs
        <3> QED BY <3>1 DEF ItemGoes
    <2>2. Across(item', l, "resalable") = Across(item, l, "resalable") + k
        BY <1>1, <1>3, <2>1, AcrossAdds
    <2> QED
        BY <1>2, <1>4, <2>2
<1>5. CASE y # l
    <2>1. \A x \in Cases : item'[x][y] = item[x][y]
        BY <1>5 DEF ItemGoes
    <2>2. Across(item', y, "resalable") = Across(item, y, "resalable")
          /\ Across(item', y, "authorized") = Across(item, y, "authorized")
        BY <1>1, <1>3, <2>1, AcrossSame
    <2>3. restocked'[y] = restocked[y]
        BY <1>5 DEF GoodsTypes
    <2> QED
        BY <1>2, <2>2, <2>3
<1> QED
    BY <1>4, <1>5

\* So far as a case keeps what was authorized for line l, the line keeps it.
LEMMA AuthorizedStays ==
    ASSUME GoodsTypes, RestockFits, NEW c \in Cases, NEW l \in Lines, ItemGoes(c, l),
           item'[c][l].authorized = item[c][l].authorized
    PROVE  Across(item', l, "authorized") <= sale.quantity[l]
<1>1. item \in CaseItems /\ item' \in CaseItems /\ "authorized" \in Fields
    BY DEF GoodsTypes, ItemGoes, CaseItems, Fields
<1>2. \A x \in Cases : item'[x][l]["authorized"] = item[x][l]["authorized"]
    BY DEF ItemGoes
<1>3. Across(item', l, "authorized") = Across(item, l, "authorized")
    BY <1>1, <1>2, AcrossSame
<1> QED
    BY <1>3 DEF RestockFits

LEMMA AuthorizeRestocks ==
    ASSUME GoodsTypes, RestockFits, NEW c \in Cases, NEW l \in Lines, NEW n \in Nat,
           Authorize(c, l, n)
    PROVE  RestockFits'
<1>1. /\ ItemGoes(c, l)
      /\ item'[c][l] = [item[c][l] EXCEPT !.authorized = n]
    BY AuthorizeItem
<1>2. item[c][l] \in Quantities
    BY DEF GoodsTypes
<1>3. item'[c][l].authorized = n /\ item'[c][l].resalable = item[c][l].resalable + 0
    BY <1>1, <1>2 DEF Quantities
<1>4. Across(item', l, "authorized") <= sale.quantity[l]
    <2> DEFINE f == [x \in Cases |-> item'[x][l]["authorized"]]
               g == [x \in Cases \ {c} |-> item[x][l]["authorized"]]
               D == Cases \ {c}
    <2>1. item \in CaseItems /\ item' \in CaseItems /\ "authorized" \in Fields
        BY <1>1 DEF GoodsTypes, ItemGoes, CaseItems, Fields
    <2>2. \A x \in Cases : f[x] \in Int
        <3>1. \A x \in Cases : item'[x][l]["authorized"] \in Nat
            BY <2>1, AcrossIs
        <3> QED BY <3>1
    <2>3. f[c] = n
        BY <1>3
    <2>4. SumFunctionOnSet(f, Cases) = f[c] + SumFunctionOnSet(f, D)
        <3> HIDE DEF f
        <3> QED BY <2>2, SumRemove, CasesAssumption
    <2>5. SumFunctionOnSet(f, D) = SumFunctionOnSet(g, D)
        <3>1. IsFiniteSet(D)
            BY FS_Subset, CasesAssumption
        <3>2. \A x \in D : f[x] \in Int /\ f[x] = g[x]
            BY <1>1, <2>2 DEF ItemGoes
        <3> HIDE DEF f, g, D
        <3> QED BY <3>1, <3>2, SumSame
    <2>6. AuthorizedElsewhere(c, l) = SumFunctionOnSet(g, D)
        BY DEF AuthorizedElsewhere, SumFunction
    <2>7. SumFunctionOnSet(g, D) \in Nat
        <3>1. IsFiniteSet(D)
            BY FS_Subset, CasesAssumption
        <3>2. \A x \in D : g[x] \in Nat
            BY <2>1, AcrossIs
        <3> HIDE DEF g, D
        <3> QED BY <3>1, <3>2, SumType
    <2>8. AuthorizedElsewhere(c, l) + n <= sale.quantity[l]
        BY DEF Authorize
    <2>9. Across(item', l, "authorized") = SumFunctionOnSet(f, Cases)
        BY <2>1, AcrossIs
    <2> HIDE DEF f, g, D
    <2> QED
        BY <2>3, <2>4, <2>5, <2>6, <2>7, <2>8, <2>9
<1>5. restocked' = restocked /\ sale' = sale
    BY DEF Authorize, Orders
<1>6. \A y \in Lines : restocked'[y] = restocked[y] + (IF y = l THEN 0 ELSE 0)
    BY <1>5 DEF GoodsTypes
<1> QED
    BY <1>1, <1>3, <1>4, <1>5, <1>6, RestockStillFits

LEMMA ReceiveRestocks ==
    ASSUME GoodsTypes, RestockFits, NEW c \in Cases, NEW l \in Lines, NEW n \in Nat,
           Receive(c, l, n)
    PROVE  RestockFits'
<1>1. /\ ItemGoes(c, l)
      /\ item'[c][l] = [item[c][l] EXCEPT !.received = item[c][l].received + n]
    BY ReceiveItem
<1>2. item[c][l] \in Quantities
    BY DEF GoodsTypes
<1>3. /\ item'[c][l].authorized = item[c][l].authorized
      /\ item'[c][l].resalable = item[c][l].resalable + 0
    BY <1>1, <1>2 DEF Quantities
<1>4. restocked' = restocked /\ sale' = sale
    BY DEF Receive, Orders
<1>5. \A y \in Lines : restocked'[y] = restocked[y] + (IF y = l THEN 0 ELSE 0)
    BY <1>4 DEF GoodsTypes
<1> QED
    BY <1>1, <1>3, <1>4, <1>5, AuthorizedStays, RestockStillFits

LEMMA InspectRestocks ==
    ASSUME GoodsTypes, RestockFits, NEW c \in Cases, NEW l \in Lines, NEW n \in Nat,
           NEW d \in Dispositions, Inspect(c, l, n, d)
    PROVE  RestockFits'
<1> DEFINE k == IF d = "resalable" THEN n ELSE 0
<1>1. /\ ItemGoes(c, l)
      /\ item'[c][l].authorized = item[c][l].authorized
      /\ item'[c][l].resalable = item[c][l].resalable + k
    BY InspectItem DEF Dispositions
<1>2. sale' = sale
    BY DEF Inspect, Orders
<1>3. \A y \in Lines : restocked'[y] = restocked[y] + (IF y = l THEN k ELSE 0)
    BY DEF Inspect, GoodsTypes
<1>4. k \in Nat
    OBVIOUS
<1> HIDE DEF k
<1> QED
    BY <1>1, <1>2, <1>3, <1>4, AuthorizedStays, RestockStillFits

LEMMA ResolveRestocks ==
    ASSUME GoodsTypes, RestockFits, NEW c \in Cases, NEW l \in Lines, NEW n \in Nat,
           NEW d \in Targets, NEW m \in Moves, ResolveQuarantine(c, l, n, d, m)
    PROVE  RestockFits'
<1> DEFINE k == IF d = "resalable" THEN n ELSE 0
<1>1. /\ ItemGoes(c, l)
      /\ item'[c][l].authorized = item[c][l].authorized
      /\ item'[c][l].resalable = item[c][l].resalable + k
    BY ResolveItem DEF Targets
<1>2. sale' = sale
    BY DEF ResolveQuarantine, Orders
<1>3. \A y \in Lines : restocked'[y] = restocked[y] + (IF y = l THEN k ELSE 0)
    BY DEF ResolveQuarantine, GoodsTypes
<1>4. k \in Nat
    OBVIOUS
<1> HIDE DEF k
<1> QED
    BY <1>1, <1>2, <1>3, <1>4, AuthorizedStays, RestockStillFits

-----------------------------------------------------------------------------
(***************************************************************************)
(* The commands for MoySklad and the documents it holds.                   *)
(***************************************************************************)

\* A return has its commands when its inspection has ended, one for each
\* disposition it found; a document has a command that was not stopped by the
\* money's defect, and a command that succeeded has its document.
CommandsFit ==
    \A c \in Cases, d \in Dispositions :
       /\ command[c][d] # "none" =>
             /\ status[c] = "inspected"
             /\ defective \/ \E l \in Lines : evidence[c][l][d] > 0
       /\ command[c][d] = "sent" => <<c, d>> \in documents
       /\ <<c, d>> \in documents => command[c][d] # "none" /\ ~defective

LEMMA EvidenceGrows ==
    ASSUME GoodsTypes, NEW c \in Cases, NEW l \in Lines, NEW n \in Nat,
           NEW d \in Dispositions, Inspect(c, l, n, d)
    PROVE  /\ evidence' \in [Cases -> [Lines -> Counts]]
           /\ \A x \in Cases, y \in Lines, z \in Dispositions :
                 evidence'[x][y][z] =
                    evidence[x][y][z] + (IF x = c /\ y = l /\ z = d THEN n ELSE 0)
<1> DEFINE e == [evidence[c][l] EXCEPT ![d] = evidence[c][l][d] + n]
<1>1. evidence \in [Cases -> [Lines -> [Dispositions -> Nat]]]
    BY DEF GoodsTypes, Counts
<1>2. evidence' = [evidence EXCEPT ![c] = [evidence[c] EXCEPT ![l] = e]]
    BY Zenon DEF Inspect
<1>3. e \in [Dispositions -> Nat] /\ e[d] = evidence[c][l][d] + n
      /\ \A z \in Dispositions : z # d => e[z] = evidence[c][l][z]
    BY <1>1
<1>4. /\ evidence' \in [Cases -> [Lines -> [Dispositions -> Nat]]]
      /\ evidence'[c][l] = e
      /\ \A x \in Cases, y \in Lines : x # c \/ y # l => evidence'[x][y] = evidence[x][y]
    <2> HIDE DEF e
    <2> QED BY <1>1, <1>2, <1>3
<1>5. ASSUME NEW x \in Cases, NEW y \in Lines, NEW z \in Dispositions
      PROVE  evidence'[x][y][z] =
                evidence[x][y][z] + (IF x = c /\ y = l /\ z = d THEN n ELSE 0)
    <2> HIDE DEF e
    <2>1. evidence[x][y][z] \in Nat
        BY <1>1
    <2>2. CASE x = c /\ y = l
        BY <1>3, <1>4, <2>1, <2>2
    <2>3. CASE x # c \/ y # l
        BY <1>4, <2>1, <2>3
    <2> QED
        BY <2>2, <2>3
<1> QED
    BY <1>4, <1>5 DEF Counts

\* The commands that the end of an inspection leaves of the case's own.
LEMMA ReturnsEnqueued ==
    ASSUME GoodsTypes, NEW c \in Cases, EnqueueReturns(c),
           evidence' \in [Cases -> [Lines -> Counts]]
    PROVE  /\ command' \in [Cases -> [Dispositions -> CommandStatus]]
           /\ \A x \in Cases : x # c => command'[x] = command[x]
           /\ \A d \in Dispositions :
                 \/ command'[c][d] = "none"
                 \/ /\ command'[c][d] = "pending"
                    /\ defective \/ \E l \in Lines : evidence'[c][l][d] > 0
<1> DEFINE e == [d \in Dispositions |->
                    IF (IF defective THEN d = "resalable" ELSE Inspected(c, d) > 0)
                    THEN "pending" ELSE "none"]
<1>1. command' = [command EXCEPT ![c] = e]
    BY DEF EnqueueReturns
<1>2. e \in [Dispositions -> CommandStatus]
    BY DEF CommandStatus
<1>3. command \in [Cases -> [Dispositions -> CommandStatus]]
    BY DEF GoodsTypes
<1>4. /\ command' \in [Cases -> [Dispositions -> CommandStatus]]
      /\ command'[c] = e
      /\ \A x \in Cases : x # c => command'[x] = command[x]
    <2> HIDE DEF e
    <2> QED BY <1>1, <1>2, <1>3
<1>5. ASSUME NEW d \in Dispositions, ~defective, Inspected(c, d) > 0
      PROVE  \E l \in Lines : evidence'[c][l][d] > 0
    <2> DEFINE f == [l \in Lines |-> evidence'[c][l][d]]
    <2>1. Inspected(c, d) = SumFunctionOnSet(f, Lines)
        BY DEF Inspected, SumFunction
    <2>2. \A l \in Lines : f[l] \in Nat
        BY DEF Counts
    <2>3. PICK l \in Lines : f[l] # 0
        <3> HIDE DEF f
        <3>1. SumFunctionOnSet(f, Lines) # 0
            BY <1>5, <2>1
        <3> QED BY <3>1, SumZero, LinesAssumption
    <2> QED
        BY <2>2, <2>3
<1>6. ASSUME NEW d \in Dispositions, e[d] # "none"
      PROVE  e[d] = "pending" /\ (defective \/ \E l \in Lines : evidence'[c][l][d] > 0)
    <2>1. IF defective THEN d = "resalable" ELSE Inspected(c, d) > 0
        BY <1>6
    <2> QED
        BY <1>5, <2>1
<1> HIDE DEF e
<1> QED
    BY <1>4, <1>6

LEMMA InspectCommands ==
    ASSUME GoodsTypes, CasesFit, CommandsFit, NEW c \in Cases, NEW l \in Lines,
           NEW n \in Nat, n > 0, NEW d \in Dispositions, Inspect(c, l, n, d)
    PROVE  /\ CommandsFit'
           /\ command' \in [Cases -> [Dispositions -> CommandStatus]]
           /\ \A x \in Cases : x # c => command'[x] = command[x]
           /\ \A z \in Dispositions : command[c][z] = "none"
<1>1. status[c] = "received"
    BY InspectFits
<1>2. \A z \in Dispositions : command[c][z] = "none" /\ <<c, z>> \notin documents
    BY <1>1 DEF CommandsFit
<1>3. evidence' \in [Cases -> [Lines -> Counts]]
      /\ \A x \in Cases, y \in Lines : x # c => \A z \in Dispositions :
            evidence'[x][y][z] = evidence[x][y][z]
    <2>1. \A x \in Cases, y \in Lines, z \in Dispositions : evidence[x][y][z] \in Nat
        BY DEF GoodsTypes, Counts
    <2>2. /\ evidence' \in [Cases -> [Lines -> Counts]]
          /\ \A x \in Cases, y \in Lines, z \in Dispositions :
                evidence'[x][y][z] =
                   evidence[x][y][z] + (IF x = c /\ y = l /\ z = d THEN n ELSE 0)
        BY EvidenceGrows
    <2> QED
        BY <2>1, <2>2
<1>4. /\ defective' = defective /\ documents' = documents
      /\ \A x \in Cases : x # c => status'[x] = status[x]
    BY DEF Inspect, Orders, GoodsTypes
<1>5. /\ command' \in [Cases -> [Dispositions -> CommandStatus]]
      /\ \A x \in Cases : x # c => command'[x] = command[x]
      /\ \A z \in Dispositions :
            \/ command'[c][z] = "none"
            \/ /\ command'[c][z] = "pending"
               /\ status'[c] = "inspected"
               /\ defective \/ \E y \in Lines : evidence'[c][y][z] > 0
    <2>1. CASE status'[c] = "inspected"
        <3>1. EnqueueReturns(c)
            BY <2>1 DEF Inspect
        <3> QED BY <1>3, <2>1, <3>1, ReturnsEnqueued
    <2>2. CASE status'[c] # "inspected"
        <3>1. command' = command
            BY <2>2 DEF Inspect
        <3> QED BY <1>2, <3>1 DEF GoodsTypes
    <2> QED
        BY <2>1, <2>2
<1>6. CommandsFit'
    <2> SUFFICES ASSUME NEW x \in Cases, NEW z \in Dispositions
                 PROVE  /\ command'[x][z] # "none" =>
                              /\ status'[x] = "inspected"
                              /\ defective' \/ \E y \in Lines : evidence'[x][y][z] > 0
                        /\ command'[x][z] = "sent" => <<x, z>> \in documents'
                        /\ <<x, z>> \in documents' => command'[x][z] # "none" /\ ~defective'
        BY DEF CommandsFit
    <2>1. CASE x = c
        BY <1>2, <1>4, <1>5, <2>1
    <2>2. CASE x # c
        <3>1. command'[x][z] = command[x][z] /\ status'[x] = status[x]
            BY <1>4, <1>5, <2>2
        <3>2. \A y \in Lines : evidence'[x][y][z] = evidence[x][y][z]
            BY <1>3, <2>2
        <3> QED
            BY <1>4, <3>1, <3>2 DEF CommandsFit
    <2> QED
        BY <2>1, <2>2
<1> QED
    BY <1>2, <1>5, <1>6

\* A request that is not an inspection leaves commands and documents alone,
\* and the status of a case whose inspection has ended.
LEMMA CommandsStay ==
    ASSUME CommandsFit, UNCHANGED <<defective, evidence, command, documents>>,
           \A c \in Cases : status[c] = "inspected" => status'[c] = "inspected"
    PROVE  CommandsFit'
BY DEF CommandsFit

\* What one attempt of the worker does to the command of c and d.
LEMMA ExportCommands ==
    ASSUME GoodsTypes, CommandsFit, NEW c \in Cases, NEW d \in Dispositions,
           ExportReturn(c, d)
    PROVE  /\ CommandsFit'
           /\ command' \in [Cases -> [Dispositions -> CommandStatus]]
           /\ \A x \in Cases, z \in Dispositions :
                 command[x][z] = "sent" => command'[x][z] = "sent"
<1>1. command[c][d] = "pending"
      /\ UNCHANGED <<sale, defective, status, item, evidence, completed, restocked,
                     payload, demand, move>>
    BY DEF ExportReturn, Warehouse
<1>2. PICK outcome \in {"sent", "review_required", "pending", "failed"} :
         /\ command' = [command EXCEPT ![c][d] = outcome]
         /\ \/ documents' = documents /\ outcome # "sent"
            \/ documents' = documents \cup {<<c, d>>} /\ ~defective
    BY DEF ExportReturn, EvidenceHolds
<1>3. /\ command' \in [Cases -> [Dispositions -> CommandStatus]]
      /\ command'[c][d] = outcome
      /\ \A x \in Cases, z \in Dispositions :
            x # c \/ z # d => command'[x][z] = command[x][z]
    <2>1. outcome \in CommandStatus /\ command \in [Cases -> [Dispositions -> CommandStatus]]
        BY DEF CommandStatus, GoodsTypes
    <2> QED
        BY <1>2, <2>1
<1>4. CommandsFit'
    <2> SUFFICES ASSUME NEW x \in Cases, NEW z \in Dispositions
                 PROVE  /\ command'[x][z] # "none" =>
                              /\ status'[x] = "inspected"
                              /\ defective' \/ \E y \in Lines : evidence'[x][y][z] > 0
                        /\ command'[x][z] = "sent" => <<x, z>> \in documents'
                        /\ <<x, z>> \in documents' => command'[x][z] # "none" /\ ~defective'
        BY DEF CommandsFit
    <2>1. CASE x = c /\ z = d
        BY <1>1, <1>2, <1>3, <2>1 DEF CommandsFit
    <2>2. CASE x # c \/ z # d
        BY <1>1, <1>2, <1>3, <2>2 DEF CommandsFit
    <2> QED
        BY <2>1, <2>2
<1>5. ASSUME NEW x \in Cases, NEW z \in Dispositions, command[x][z] = "sent"
      PROVE  command'[x][z] = "sent"
    BY <1>1, <1>3, <1>5
<1> QED
    BY <1>3, <1>4, <1>5

-----------------------------------------------------------------------------
(***************************************************************************)
(* The quarantine store: what was moved out of it and what it still holds  *)
(* is what the inspections put there.                                      *)
(***************************************************************************)
MoveRows == [Moves -> MoveRecord \cup {NoMove}]
UnitsOf(w, c, l) == IF w.status # "none" /\ w.kase = c /\ w.line = l THEN w.quantity ELSE 0
MovedOut(v, c, l) == SumFunctionOnSet([m \in Moves |-> UnitsOf(v[m], c, l)], Moves)

\* A move waits until MoySklad has confirmed the receipt into quarantine.
QuarantineFits ==
    /\ \A m \in Moves : move[m].status # "none" =>
                           command[move[m].kase]["quarantine"] = "sent"
    /\ \A c \in Cases, l \in Lines :
          MovedOut(move, c, l) + item[c][l].quarantine = evidence[c][l]["quarantine"]

LEMMA RealMove ==
    ASSUME NEW v \in MoveRows, NEW m \in Moves, v[m].status # "none"
    PROVE  v[m] \in MoveRecord
BY DEF MoveRows, NoMove

LEMMA UnitsOfType ==
    ASSUME NEW v \in MoveRows, NEW m \in Moves, NEW c, NEW l
    PROVE  UnitsOf(v[m], c, l) \in Nat
<1>1. CASE v[m].status = "none"
    BY <1>1 DEF UnitsOf
<1>2. CASE v[m].status # "none"
    BY <1>2, RealMove DEF UnitsOf, MoveRecord
<1> QED
    BY <1>1, <1>2

LEMMA MovedOutType ==
    ASSUME NEW v \in MoveRows, NEW c, NEW l
    PROVE  MovedOut(v, c, l) \in Nat
<1> DEFINE f == [m \in Moves |-> UnitsOf(v[m], c, l)]
<1>1. \A m \in Moves : f[m] \in Nat
    BY UnitsOfType
<1>2. SumFunctionOnSet(f, Moves) \in Nat
    <2> HIDE DEF f
    <2> QED BY <1>1, SumType, MovesAssumption
<1> QED
    BY <1>2 DEF MovedOut

\* A move that replaces another changes the sum by the difference.
LEMMA MovedOutChanges ==
    ASSUME NEW v \in MoveRows, NEW w \in MoveRows, NEW m \in Moves,
           \A x \in Moves : x # m => w[x] = v[x], NEW c, NEW l
    PROVE  MovedOut(w, c, l) =
              MovedOut(v, c, l) + (UnitsOf(w[m], c, l) - UnitsOf(v[m], c, l))
<1> DEFINE f == [x \in Moves |-> UnitsOf(v[x], c, l)]
           g == [x \in Moves |-> UnitsOf(w[x], c, l)]
<1>1. \A y \in Moves : f[y] \in Int /\ g[y] \in Int /\ (y # m => g[y] = f[y])
    <2>1. \A y \in Moves : UnitsOf(v[y], c, l) \in Nat /\ UnitsOf(w[y], c, l) \in Nat
        BY UnitsOfType
    <2> QED
        BY <2>1
<1>2. SumFunctionOnSet(g, Moves) = SumFunctionOnSet(f, Moves) + (g[m] - f[m])
    <2> HIDE DEF f, g
    <2> QED BY <1>1, SumAdds, MovesAssumption
<1> QED
    BY <1>2 DEF MovedOut

LEMMA ResolveMoves ==
    ASSUME GoodsTypes, NEW c \in Cases, NEW l \in Lines, NEW n \in Nat,
           NEW d \in Targets, NEW m \in Moves, ResolveQuarantine(c, l, n, d, m)
    PROVE  /\ move[m].status = "none"
           /\ move' \in MoveRows
           /\ move'[m].status = "pending" /\ move'[m].kase = c /\ move'[m].line = l
           /\ move'[m].quantity = n
           /\ \A x \in Moves : x # m => move'[x] = move[x]
<1> DEFINE w == [kase |-> c, line |-> l, quantity |-> n, target |-> d,
                 status |-> "pending", exists |-> FALSE]
<1>1. move \in MoveRows
    BY DEF GoodsTypes, MoveRows
<1>2. w \in MoveRecord
    BY DEF MoveRecord, CommandStatus
<1>3. move' = [move EXCEPT ![m] = w] /\ move[m].status = "none"
    BY DEF ResolveQuarantine
<1>4. w.status = "pending" /\ w.kase = c /\ w.line = l /\ w.quantity = n
    OBVIOUS
<1> HIDE DEF w
<1> QED
    BY <1>1, <1>2, <1>3, <1>4 DEF MoveRows

LEMMA ExportMoveIs ==
    ASSUME GoodsTypes, NEW m \in Moves, ExportMove(m)
    PROVE  /\ move' \in MoveRows
           /\ move[m].status = "pending" /\ move'[m].status # "none"
           /\ move'[m].kase = move[m].kase /\ move'[m].line = move[m].line
           /\ move'[m].quantity = move[m].quantity
           /\ \A x \in Moves : x # m => move'[x] = move[x]
<1>1. move \in MoveRows /\ move[m].status = "pending"
    BY DEF GoodsTypes, MoveRows, ExportMove
<1>2. move[m] \in MoveRecord
    BY <1>1, RealMove
<1>3. PICK outcome \in {"sent", "review_required", "pending", "failed"}, e \in BOOLEAN :
         move' = [move EXCEPT ![m] = [move[m] EXCEPT !.status = outcome, !.exists = e]]
    <2>1. move[m].exists \in BOOLEAN
        BY <1>2 DEF MoveRecord
    <2>2. CASE \E outcome \in {"sent", "review_required", "pending"} :
                  move' = [move EXCEPT ![m].status = outcome, ![m].exists = TRUE]
        <3>1. PICK o \in {"sent", "review_required", "pending"} :
                 move' = [move EXCEPT ![m].status = o, ![m].exists = TRUE]
            BY <2>2
        <3>2. move' = [move EXCEPT ![m] = [move[m] EXCEPT !.status = o, !.exists = TRUE]]
            BY <1>1, <3>1 DEF MoveRows
        <3> QED BY <3>2
    <2>3. CASE \E outcome \in {"failed", "review_required"} :
                  move' = [move EXCEPT ![m].status = outcome]
        <3>1. PICK o \in {"failed", "review_required"} :
                 move' = [move EXCEPT ![m].status = o]
            BY <2>3
        <3>2. [move[m] EXCEPT !.status = o] =
                 [move[m] EXCEPT !.status = o, !.exists = move[m].exists]
            BY <1>2 DEF MoveRecord
        <3>3. move' = [move EXCEPT ![m] = [move[m] EXCEPT !.status = o]]
            BY <3>1
        <3> QED BY <2>1, <3>2, <3>3
    <2> QED
        BY <2>2, <2>3 DEF ExportMove
<1> DEFINE u == [move[m] EXCEPT !.status = outcome]
           w == [u EXCEPT !.exists = e]
<1>4. /\ u \in MoveRecord /\ u.status = outcome
      /\ u.kase = move[m].kase /\ u.line = move[m].line /\ u.quantity = move[m].quantity
    <2>1. outcome \in CommandStatus
        BY DEF CommandStatus
    <2> QED BY <1>2, <2>1 DEF MoveRecord
<1>5. /\ w \in MoveRecord /\ w.status = outcome
      /\ w.kase = move[m].kase /\ w.line = move[m].line /\ w.quantity = move[m].quantity
    <2> HIDE DEF u
    <2> QED BY <1>4 DEF MoveRecord
<1> HIDE DEF w
<1>6. move' = [move EXCEPT ![m] = w]
    BY <1>3 DEF w, u
<1> QED
    BY <1>1, <1>5, <1>6 DEF MoveRows

LEMMA InspectQuarantines ==
    ASSUME GoodsTypes, CasesFit, CommandsFit, QuarantineFits, NEW c \in Cases,
           NEW l \in Lines, NEW n \in Nat, n > 0, NEW d \in Dispositions,
           Inspect(c, l, n, d)
    PROVE  QuarantineFits'
<1>1. move' = move
    BY DEF Inspect
<1>2. ASSUME NEW m \in Moves, move[m].status # "none"
      PROVE  command'[move[m].kase]["quarantine"] = "sent"
    <2>1. command[move[m].kase]["quarantine"] = "sent" /\ move[m].kase \in Cases
        BY <1>2, RealMove DEF QuarantineFits, MoveRecord, MoveRows, GoodsTypes
    <2>2. command[c]["quarantine"] = "none"
        BY InspectCommands DEF Dispositions
    <2>3. move[m].kase # c
        BY <2>1, <2>2
    <2> QED
        BY <2>1, <2>3, InspectCommands
<1>3. ASSUME NEW x \in Cases, NEW y \in Lines
      PROVE  MovedOut(move, x, y) + item'[x][y].quarantine = evidence'[x][y]["quarantine"]
    <2> DEFINE k == IF x = c /\ y = l /\ "quarantine" = d THEN n ELSE 0
    <2>1. MovedOut(move, x, y) + item[x][y].quarantine = evidence[x][y]["quarantine"]
        BY DEF QuarantineFits
    <2>2. evidence'[x][y]["quarantine"] = evidence[x][y]["quarantine"] + k
        BY EvidenceGrows DEF Dispositions
    <2>3. item'[x][y].quarantine = item[x][y].quarantine + k
        <3>1. item[x][y] \in Quantities
            BY DEF GoodsTypes
        <3>2. item[x][y].quarantine \in Nat
            BY <3>1, QuantityFields
        <3>3. /\ ItemGoes(c, l)
              /\ item'[c][l]["quarantine"] =
                    item[c][l]["quarantine"] + (IF "quarantine" = d THEN n ELSE 0)
            BY InspectItem DEF Dispositions
        <3>4. CASE x = c /\ y = l
            BY <3>3, <3>4
        <3>5. CASE x # c \/ y # l
            BY <3>2, <3>3, <3>5 DEF ItemGoes
        <3> QED
            BY <3>4, <3>5
    <2>4. /\ MovedOut(move, x, y) \in Nat /\ item[x][y].quarantine \in Nat
          /\ evidence[x][y]["quarantine"] \in Nat
        <3>1. item[x][y] \in Quantities /\ move \in MoveRows
              /\ evidence[x][y] \in Counts
            BY DEF GoodsTypes, MoveRows
        <3> QED BY <3>1, QuantityFields, MovedOutType DEF Counts, Dispositions
    <2>5. k \in Nat
        OBVIOUS
    <2> HIDE DEF k
    <2> QED
        BY <2>1, <2>2, <2>3, <2>4, <2>5
<1> QED
    BY <1>1, <1>2, <1>3 DEF QuarantineFits

LEMMA ResolveQuarantines ==
    ASSUME GoodsTypes, QuarantineFits, NEW c \in Cases, NEW l \in Lines, NEW n \in Nat,
           NEW d \in Targets, NEW m \in Moves, ResolveQuarantine(c, l, n, d, m)
    PROVE  QuarantineFits'
<1>1. /\ move[m].status = "none"
      /\ move' \in MoveRows /\ move \in MoveRows
      /\ move'[m].status = "pending" /\ move'[m].kase = c /\ move'[m].line = l
      /\ move'[m].quantity = n
      /\ \A x \in Moves : x # m => move'[x] = move[x]
    BY ResolveMoves DEF GoodsTypes, MoveRows
<1>2. command' = command /\ evidence' = evidence /\ command[c]["quarantine"] = "sent"
    BY DEF ResolveQuarantine, ReceiptConfirmed
<1>3. ASSUME NEW x \in Moves, move'[x].status # "none"
      PROVE  command'[move'[x].kase]["quarantine"] = "sent"
    BY <1>1, <1>2, <1>3 DEF QuarantineFits
<1>4. ASSUME NEW x \in Cases, NEW y \in Lines
      PROVE  MovedOut(move', x, y) + item'[x][y].quarantine = evidence'[x][y]["quarantine"]
    <2> DEFINE k == IF x = c /\ y = l THEN n ELSE 0
    <2>1. MovedOut(move, x, y) + item[x][y].quarantine = evidence[x][y]["quarantine"]
        BY DEF QuarantineFits
    <2>2. MovedOut(move', x, y) = MovedOut(move, x, y) + k
        <3>1. UnitsOf(move'[m], x, y) = k /\ UnitsOf(move[m], x, y) = 0
            BY <1>1 DEF UnitsOf
        <3>2. MovedOut(move', x, y) = MovedOut(move, x, y)
                 + (UnitsOf(move'[m], x, y) - UnitsOf(move[m], x, y))
            BY <1>1, MovedOutChanges
        <3>3. k \in Nat /\ MovedOut(move, x, y) \in Nat
            BY <1>1, MovedOutType
        <3> HIDE DEF k
        <3> QED BY <3>1, <3>2, <3>3
    <2>3. item'[x][y].quarantine = item[x][y].quarantine - k
        <3>1. item[x][y] \in Quantities
            BY DEF GoodsTypes
        <3>2. item[x][y].quarantine \in Nat
            BY <3>1, QuantityFields
        <3>3. /\ ItemGoes(c, l)
              /\ item'[c][l].quarantine = item[c][l].quarantine - n
            BY ResolveItem
        <3>4. CASE x = c /\ y = l
            BY <3>3, <3>4
        <3>5. CASE x # c \/ y # l
            BY <3>2, <3>3, <3>5 DEF ItemGoes
        <3> QED
            BY <3>4, <3>5
    <2>4. /\ MovedOut(move, x, y) \in Nat /\ item[x][y].quarantine \in Nat
          /\ evidence[x][y]["quarantine"] \in Nat
        <3>1. item[x][y] \in Quantities /\ evidence[x][y] \in Counts
            BY DEF GoodsTypes
        <3> QED BY <1>1, <3>1, QuantityFields, MovedOutType DEF Counts, Dispositions
    <2>5. k \in Nat
        OBVIOUS
    <2> HIDE DEF k
    <2> QED
        BY <1>2, <2>1, <2>2, <2>3, <2>4, <2>5
<1> QED
    BY <1>3, <1>4 DEF QuarantineFits

LEMMA ExportMoveQuarantines ==
    ASSUME GoodsTypes, QuarantineFits, NEW m \in Moves, ExportMove(m)
    PROVE  QuarantineFits'
<1>1. /\ move' \in MoveRows /\ move \in MoveRows
      /\ move[m].status = "pending" /\ move'[m].status # "none"
      /\ move'[m].kase = move[m].kase /\ move'[m].line = move[m].line
      /\ move'[m].quantity = move[m].quantity
      /\ \A x \in Moves : x # m => move'[x] = move[x]
    BY ExportMoveIs DEF GoodsTypes, MoveRows
<1>2. command' = command /\ evidence' = evidence /\ item' = item
    BY DEF ExportMove, Warehouse
<1>3. ASSUME NEW x \in Moves, move'[x].status # "none"
      PROVE  command'[move'[x].kase]["quarantine"] = "sent"
    BY <1>1, <1>2, <1>3 DEF QuarantineFits
<1>4. ASSUME NEW x \in Cases, NEW y \in Lines
      PROVE  MovedOut(move', x, y) = MovedOut(move, x, y)
    <2>1. UnitsOf(move'[m], x, y) = UnitsOf(move[m], x, y)
        BY <1>1 DEF UnitsOf
    <2>2. MovedOut(move', x, y) = MovedOut(move, x, y)
             + (UnitsOf(move'[m], x, y) - UnitsOf(move[m], x, y))
        BY <1>1, MovedOutChanges
    <2>3. MovedOut(move, x, y) \in Nat /\ UnitsOf(move[m], x, y) \in Nat
        BY <1>1, MovedOutType, UnitsOfType
    <2> QED
        BY <2>1, <2>2, <2>3
<1> QED
    BY <1>2, <1>3, <1>4 DEF QuarantineFits

\* What neither moves out of quarantine nor into it.
LEMMA QuarantineStays ==
    ASSUME GoodsTypes, QuarantineFits, UNCHANGED <<evidence, move>>,
           \A c \in Cases, l \in Lines : item'[c][l].quarantine = item[c][l].quarantine,
           \A c \in Cases : command[c]["quarantine"] = "sent" =>
                               command'[c]["quarantine"] = "sent"
    PROVE  QuarantineFits'
<1>1. ASSUME NEW m \in Moves, move[m].status # "none"
      PROVE  command'[move[m].kase]["quarantine"] = "sent"
    BY <1>1, RealMove DEF QuarantineFits, MoveRecord, MoveRows, GoodsTypes
<1> QED
    BY <1>1 DEF QuarantineFits

-----------------------------------------------------------------------------
(***************************************************************************)
(* The inductive invariant of the goods.                                   *)
(***************************************************************************)
GoodsInv ==
    /\ GoodsTypes
    /\ CasesFit
    /\ RestockFits
    /\ CommandsFit
    /\ QuarantineFits

LEMMA GoodsStart ==
    ASSUME GoodsInit
    PROVE  GoodsInv
<1>1. GoodsTypes
    <2>1. status \in [Cases -> CaseStatus] /\ restocked \in [Lines -> Nat]
        BY DEF GoodsInit, CaseStatus
    <2>2. item \in [Cases -> [Lines -> Quantities]]
        BY DEF GoodsInit, Quantities
    <2>3. evidence \in [Cases -> [Lines -> Counts]]
        BY DEF GoodsInit, Counts, NoCounts
    <2>4. command \in [Cases -> [Dispositions -> CommandStatus]]
        BY DEF GoodsInit, CommandStatus
    <2>5. completed \in Seq(Cases) /\ documents \in SUBSET (Cases \X Dispositions)
        BY DEF GoodsInit
    <2>6. move \in [Moves -> MoveRecord \cup {NoMove}]
        BY DEF GoodsInit
    <2> QED
        BY <2>1, <2>2, <2>3, <2>4, <2>5, <2>6 DEF GoodsTypes, GoodsInit
<1>2. \A c \in Cases, l \in Lines : /\ item[c][l].authorized = 0 /\ item[c][l].received = 0
                                    /\ item[c][l].inspected = 0 /\ item[c][l].resalable = 0
                                    /\ item[c][l].damaged = 0 /\ item[c][l].quarantine = 0
    BY DEF GoodsInit
<1>3. CasesFit
    BY <1>2 DEF CasesFit, CountsFit, StageFits, GoodsInit
<1>4. RestockFits
    <2> SUFFICES ASSUME NEW l \in Lines
                 PROVE  /\ restocked[l] = Across(item, l, "resalable")
                        /\ Across(item, l, "authorized") <= sale.quantity[l]
        BY DEF RestockFits
    <2>1. item \in CaseItems /\ "resalable" \in Fields /\ "authorized" \in Fields
        BY <1>1 DEF GoodsTypes, CaseItems, Fields
    <2>2. ASSUME NEW field \in {"resalable", "authorized"}
          PROVE  Across(item, l, field) = 0
        <3> DEFINE f == [x \in Cases |-> item[x][l][field]]
        <3>1. \A x \in Cases : f[x] = 0
            BY <1>2
        <3>2. SumFunctionOnSet(f, Cases) = 0
            <4> HIDE DEF f
            <4> QED BY <3>1, SumZero, CasesAssumption
        <3> QED
            BY <2>1, <3>2, AcrossIs
    <2>3. restocked[l] = 0
        BY DEF GoodsInit
    <2>4. sale.quantity[l] \in Nat
        BY SalesAssumption DEF GoodsInit
    <2> QED
        BY <2>2, <2>3, <2>4
<1>5. CommandsFit
    BY DEF CommandsFit, GoodsInit
<1>6. QuarantineFits
    <2>1. \A m \in Moves : move[m].status = "none"
        BY DEF GoodsInit, NoMove
    <2>2. ASSUME NEW c \in Cases, NEW l \in Lines
          PROVE  MovedOut(move, c, l) = 0
        <3> DEFINE f == [x \in Moves |-> UnitsOf(move[x], c, l)]
        <3>1. \A x \in Moves : f[x] = 0
            BY <2>1 DEF UnitsOf
        <3>2. SumFunctionOnSet(f, Moves) = 0
            <4> HIDE DEF f
            <4> QED BY <3>1, SumZero, MovesAssumption
        <3> QED
            BY <3>2 DEF MovedOut
    <2>3. \A c \in Cases, l \in Lines : evidence[c][l]["quarantine"] = 0
        BY DEF GoodsInit, NoCounts, Dispositions
    <2> QED
        BY <1>2, <2>1, <2>2, <2>3 DEF QuarantineFits
<1> QED
    BY <1>1, <1>3, <1>4, <1>5, <1>6 DEF GoodsInv

LEMMA AuthorizeGoods ==
    ASSUME GoodsInv, NEW c \in Cases, NEW l \in Lines, NEW n \in Nat, Authorize(c, l, n)
    PROVE  GoodsInv'
<1>1. GoodsTypes /\ CasesFit /\ RestockFits /\ CommandsFit /\ QuarantineFits
    BY DEF GoodsInv
<1>2. /\ UNCHANGED <<sale, defective, evidence, completed, restocked, demand, command,
                     documents, move>>
      /\ status' = [status EXCEPT ![c] = Refreshed(c, item')]
      /\ status[c] # "inspected"
    BY DEF Authorize, Orders
<1>3. /\ ItemGoes(c, l)
      /\ item'[c][l] = [item[c][l] EXCEPT !.authorized = n]
    BY <1>1, AuthorizeItem
<1>4. CasesFit' /\ status'[c] \in CaseStatus
    BY <1>1, AuthorizeFits
<1>5. GoodsTypes'
    BY <1>1, <1>2, <1>3, <1>4 DEF GoodsTypes, ItemGoes
<1>6. CommandsFit'
    <2>1. \A x \in Cases : status[x] = "inspected" => status'[x] = "inspected"
        BY <1>1, <1>2 DEF GoodsTypes
    <2> QED BY <1>1, <1>2, <2>1, CommandsStay
<1>7. QuarantineFits'
    <2>1. item[c][l] \in Quantities
        BY <1>1 DEF GoodsTypes
    <2>2. item'[c][l].quarantine = item[c][l].quarantine
        BY <1>3, <2>1 DEF Quantities
    <2>3. \A x \in Cases, y \in Lines : item'[x][y].quarantine = item[x][y].quarantine
        BY <1>3, <2>2 DEF ItemGoes
    <2> QED BY <1>1, <1>2, <2>3, QuarantineStays
<1> QED
    BY <1>1, <1>4, <1>5, <1>6, <1>7, AuthorizeRestocks DEF GoodsInv

LEMMA ReceiveGoods ==
    ASSUME GoodsInv, NEW c \in Cases, NEW l \in Lines, NEW n \in Nat, n > 0,
           Receive(c, l, n)
    PROVE  GoodsInv'
<1>1. GoodsTypes /\ CasesFit /\ RestockFits /\ CommandsFit /\ QuarantineFits
    BY DEF GoodsInv
<1>2. /\ UNCHANGED <<sale, defective, evidence, completed, restocked, demand, command,
                     documents, move>>
      /\ status' = [status EXCEPT ![c] = Refreshed(c, item')]
    BY DEF Receive, Orders
<1>3. /\ ItemGoes(c, l)
      /\ item'[c][l] = [item[c][l] EXCEPT !.received = item[c][l].received + n]
    BY <1>1, ReceiveItem
<1>4. CasesFit' /\ status'[c] \in CaseStatus /\ status[c] = "in_transit"
    BY <1>1, ReceiveFits
<1>5. GoodsTypes'
    BY <1>1, <1>2, <1>3, <1>4 DEF GoodsTypes, ItemGoes
<1>6. CommandsFit'
    <2>1. \A x \in Cases : status[x] = "inspected" => status'[x] = "inspected"
        BY <1>1, <1>2, <1>4 DEF GoodsTypes
    <2> QED BY <1>1, <1>2, <2>1, CommandsStay
<1>7. QuarantineFits'
    <2>1. item[c][l] \in Quantities
        BY <1>1 DEF GoodsTypes
    <2>2. item'[c][l].quarantine = item[c][l].quarantine
        BY <1>3, <2>1 DEF Quantities
    <2>3. \A x \in Cases, y \in Lines : item'[x][y].quarantine = item[x][y].quarantine
        BY <1>3, <2>2 DEF ItemGoes
    <2> QED BY <1>1, <1>2, <2>3, QuarantineStays
<1> QED
    BY <1>1, <1>4, <1>5, <1>6, <1>7, ReceiveRestocks DEF GoodsInv

LEMMA InspectGoods ==
    ASSUME GoodsInv, NEW c \in Cases, NEW l \in Lines, NEW n \in Nat, n > 0,
           NEW d \in Dispositions, Inspect(c, l, n, d)
    PROVE  GoodsInv'
<1>1. GoodsTypes /\ CasesFit /\ RestockFits /\ CommandsFit /\ QuarantineFits
    BY DEF GoodsInv
<1>2. /\ UNCHANGED <<sale, defective, demand, documents, move>>
      /\ status' = [status EXCEPT ![c] = Refreshed(c, item')]
    BY DEF Inspect, Orders
<1>3. ItemGoes(c, l)
    BY <1>1, InspectItem
<1>4. CasesFit' /\ status'[c] \in CaseStatus
    BY <1>1, InspectFits
<1>5. /\ CommandsFit'
      /\ command' \in [Cases -> [Dispositions -> CommandStatus]]
    BY <1>1, InspectCommands
<1>6. evidence' \in [Cases -> [Lines -> Counts]]
    BY <1>1, EvidenceGrows
<1>7. completed' \in Seq(Cases)
    <2>1. completed' = completed \/ completed' = Append(completed, c)
        BY DEF Inspect
    <2>2. completed \in Seq(Cases)
        BY <1>1 DEF GoodsTypes
    <2> QED BY <2>1, <2>2
<1>8. restocked' \in [Lines -> Nat]
    BY <1>1 DEF Inspect, GoodsTypes
<1>9. GoodsTypes'
    BY <1>1, <1>2, <1>3, <1>4, <1>5, <1>6, <1>7, <1>8 DEF GoodsTypes, ItemGoes
<1> QED
    BY <1>1, <1>4, <1>5, <1>9, InspectRestocks, InspectQuarantines DEF GoodsInv

LEMMA ResolveGoods ==
    ASSUME GoodsInv, NEW c \in Cases, NEW l \in Lines, NEW n \in Nat,
           NEW d \in Targets, NEW m \in Moves, ResolveQuarantine(c, l, n, d, m)
    PROVE  GoodsInv'
<1>1. GoodsTypes /\ CasesFit /\ RestockFits /\ CommandsFit /\ QuarantineFits
    BY DEF GoodsInv
<1>2. UNCHANGED <<sale, defective, status, evidence, completed, demand, command, documents>>
    BY DEF ResolveQuarantine, Orders
<1>3. ItemGoes(c, l)
    BY <1>1, ResolveItem
<1>4. move' \in MoveRows
    BY <1>1, ResolveMoves
<1>5. restocked' \in [Lines -> Nat]
    BY <1>1 DEF ResolveQuarantine, GoodsTypes
<1>6. GoodsTypes'
    BY <1>1, <1>2, <1>3, <1>4, <1>5 DEF GoodsTypes, ItemGoes, MoveRows
<1>7. CommandsFit'
    BY <1>1, <1>2, CommandsStay
<1> QED
    BY <1>1, <1>6, <1>7, ResolveFits, ResolveRestocks, ResolveQuarantines DEF GoodsInv

LEMMA TransitGoods ==
    ASSUME GoodsInv, NEW c \in Cases, MarkInTransit(c)
    PROVE  GoodsInv'
<1>1. GoodsTypes /\ CasesFit /\ RestockFits /\ CommandsFit /\ QuarantineFits
    BY DEF GoodsInv
<1>2. /\ UNCHANGED <<sale, defective, item, evidence, completed, restocked, demand,
                     command, documents, move>>
      /\ status' = [status EXCEPT ![c] = "in_transit"]
      /\ status[c] = "authorized"
    BY DEF MarkInTransit, Orders
<1>3. /\ status' \in [Cases -> CaseStatus]
      /\ status'[c] = "in_transit"
      /\ \A x \in Cases : x # c => status'[x] = status[x]
    BY <1>1, <1>2 DEF GoodsTypes, CaseStatus
<1>4. GoodsTypes'
    BY <1>1, <1>2, <1>3 DEF GoodsTypes
<1>5. CasesFit'
    <2> SUFFICES ASSUME NEW x \in Cases, NEW y \in Lines
                 PROVE  CountsFit(item[x][y]) /\ StageFits(status'[x], item[x][y])
        BY <1>2 DEF CasesFit
    <2>1. CountsFit(item[x][y]) /\ StageFits(status[x], item[x][y])
        BY <1>1 DEF CasesFit
    <2>2. CASE x = c
        BY <1>3, <2>1, <2>2 DEF StageFits
    <2>3. CASE x # c
        BY <1>3, <2>1, <2>3
    <2> QED BY <2>2, <2>3
<1>6. RestockFits'
    BY <1>1, <1>2 DEF RestockFits
<1>7. CommandsFit'
    <2>1. \A x \in Cases : status[x] = "inspected" => status'[x] = "inspected"
        BY <1>2, <1>3
    <2> QED BY <1>1, <1>2, <2>1, CommandsStay
<1>8. QuarantineFits'
    BY <1>1, <1>2, QuarantineStays
<1> QED
    BY <1>4, <1>5, <1>6, <1>7, <1>8 DEF GoodsInv

LEMMA WorkerGoods ==
    ASSUME GoodsInv, Worker \/ DemandSent \/ UNCHANGED goodsVars
    PROVE  GoodsInv'
<1>1. GoodsTypes /\ CasesFit /\ RestockFits /\ CommandsFit /\ QuarantineFits
    BY DEF GoodsInv
<1>2. ASSUME NEW c \in Cases, NEW d \in Dispositions, ExportReturn(c, d)
      PROVE  GoodsInv'
    <2>1. /\ UNCHANGED <<sale, defective, status, item, evidence, completed, restocked,
                         demand, move>>
          /\ documents' = documents \/ documents' = documents \cup {<<c, d>>}
        BY <1>2 DEF ExportReturn, Warehouse
    <2>2. /\ CommandsFit'
          /\ command' \in [Cases -> [Dispositions -> CommandStatus]]
          /\ \A x \in Cases, z \in Dispositions :
                command[x][z] = "sent" => command'[x][z] = "sent"
        BY <1>1, <1>2, ExportCommands
    <2>3. GoodsTypes'
        BY <1>1, <2>1, <2>2 DEF GoodsTypes
    <2>4. CasesFit' /\ RestockFits'
        BY <1>1, <2>1 DEF CasesFit, RestockFits
    <2>5. QuarantineFits'
        <3>1. \A x \in Cases : command[x]["quarantine"] = "sent" =>
                                  command'[x]["quarantine"] = "sent"
            BY <2>2 DEF Dispositions
        <3> QED BY <1>1, <2>1, <3>1, QuarantineStays
    <2> QED
        BY <2>2, <2>3, <2>4, <2>5 DEF GoodsInv
<1>3. ASSUME NEW m \in Moves, ExportMove(m)
      PROVE  GoodsInv'
    <2>1. UNCHANGED <<sale, defective, status, item, evidence, completed, restocked,
                      demand, command, documents>>
        BY <1>3 DEF ExportMove, Warehouse
    <2>2. move' \in MoveRows
        BY <1>1, <1>3, ExportMoveIs
    <2>3. GoodsTypes'
        BY <1>1, <2>1, <2>2 DEF GoodsTypes, MoveRows
    <2>4. CasesFit' /\ RestockFits'
        BY <1>1, <2>1 DEF CasesFit, RestockFits
    <2>5. CommandsFit'
        BY <1>1, <2>1, CommandsStay
    <2>6. QuarantineFits'
        BY <1>1, <1>3, ExportMoveQuarantines
    <2> QED
        BY <2>3, <2>4, <2>5, <2>6 DEF GoodsInv
<1>4. ASSUME DemandSent \/ UNCHANGED goodsVars
      PROVE  GoodsInv'
    <2>1. /\ UNCHANGED <<sale, defective, status, item, evidence, completed, restocked,
                         command, documents, move>>
          /\ demand' \in BOOLEAN
        BY <1>1, <1>4 DEF DemandSent, Warehouse, goodsVars, GoodsTypes
    <2>2. GoodsTypes'
        BY <1>1, <2>1 DEF GoodsTypes
    <2>3. CasesFit' /\ RestockFits'
        BY <1>1, <2>1 DEF CasesFit, RestockFits
    <2>4. CommandsFit'
        BY <1>1, <2>1, CommandsStay
    <2>5. QuarantineFits'
        BY <1>1, <2>1, QuarantineStays
    <2> QED
        BY <2>2, <2>3, <2>4, <2>5 DEF GoodsInv
<1> QED
    BY <1>2, <1>3, <1>4 DEF Worker

LEMMA GoodsStep ==
    ASSUME GoodsInv, [GoodsNext]_goodsVars
    PROVE  GoodsInv'
<1>1. GoodsTypes
    BY DEF GoodsInv
<1>2. ASSUME NEW c \in Cases, Request(c)
      PROVE  GoodsInv'
    <2>1. CASE MarkInTransit(c)
        BY <2>1, TransitGoods
    <2>2. ASSUME NEW l \in Lines, NEW n \in Units, Authorize(c, l, n)
          PROVE  GoodsInv'
        BY <1>1, <2>2, UnitsType, AuthorizeGoods
    <2>3. ASSUME NEW l \in Lines, NEW n \in Units, Receive(c, l, n)
          PROVE  GoodsInv'
        BY <1>1, <2>3, UnitsType, ReceiveGoods
    <2>4. ASSUME NEW l \in Lines, NEW n \in Units, NEW d \in Dispositions,
                 Inspect(c, l, n, d)
          PROVE  GoodsInv'
        BY <1>1, <2>4, UnitsType, InspectGoods
    <2>5. ASSUME NEW l \in Lines, NEW n \in Units, NEW d \in Targets, NEW m \in Moves,
                 ResolveQuarantine(c, l, n, d, m)
          PROVE  GoodsInv'
        BY <1>1, <2>5, UnitsType, ResolveGoods
    <2> QED
        BY <1>2, <2>1, <2>2, <2>3, <2>4, <2>5 DEF Request
<1> QED
    BY <1>2, WorkerGoods DEF GoodsNext

THEOREM GoodsInvariance == GoodsSpec => []GoodsInv
<1>1. GoodsInit => GoodsInv
    BY GoodsStart
<1>2. GoodsInv /\ [GoodsNext]_goodsVars => GoodsInv'
    BY GoodsStep
<1> QED
    BY <1>1, <1>2, PTL DEF GoodsSpec

\* In all cases of an order, and whatever is inspected, restocked or resolved,
\* no more of a line comes back than was sold of it, and the stock got back
\* exactly the units found resalable.
THEOREM RestockedIsSoldAlways == GoodsSpec => []RestockedIsSold
<1>1. ASSUME GoodsInv
      PROVE  RestockedIsSold
    <2> SUFFICES ASSUME NEW l \in Lines
                 PROVE  /\ Back(l, "authorized") <= sale.quantity[l]
                        /\ restocked[l] = Back(l, "resalable")
                        /\ restocked[l] <= sale.quantity[l]
        BY DEF RestockedIsSold
    <2>1. item \in CaseItems /\ "resalable" \in Fields /\ "authorized" \in Fields
        BY <1>1 DEF GoodsInv, GoodsTypes, CaseItems, Fields
    <2>2. \A x \in Cases : item[x][l]["resalable"] <= item[x][l]["authorized"]
        <3> SUFFICES ASSUME NEW x \in Cases
                     PROVE  item[x][l].resalable <= item[x][l].authorized
            OBVIOUS
        <3>1. item[x][l] \in Quantities /\ CountsFit(item[x][l])
            BY <1>1 DEF GoodsInv, GoodsTypes, CasesFit
        <3> QED BY <3>1, QuantityFields DEF CountsFit
    <2>3. Across(item, l, "resalable") <= Across(item, l, "authorized")
        BY <2>1, <2>2, AcrossGrows
    <2>4. /\ restocked[l] = Across(item, l, "resalable")
          /\ Across(item, l, "authorized") <= sale.quantity[l]
        BY <1>1 DEF GoodsInv, RestockFits
    <2>5. /\ Across(item, l, "resalable") \in Nat /\ Across(item, l, "authorized") \in Nat
          /\ sale.quantity[l] \in Nat
        BY <1>1, <2>1, AcrossIs, SalesAssumption DEF GoodsInv, GoodsTypes
    <2>6. /\ Back(l, "authorized") = Across(item, l, "authorized")
          /\ Back(l, "resalable") = Across(item, l, "resalable")
        BY DEF Back, Across
    <2> QED
        BY <2>3, <2>4, <2>5, <2>6
<1> QED
    BY <1>1, GoodsInvariance, PTL

\* MoySklad holds a sales return only for goods inspected under its
\* disposition, and its quarantine store gives out no more of a case than it
\* received, however its commands fail, are repeated or wait.
THEOREM BooksFollowWarehouseAlways == GoodsSpec => []BooksFollowWarehouse
<1>1. ASSUME GoodsInv
      PROVE  BooksFollowWarehouse
    <2>1. ASSUME NEW doc \in documents
          PROVE  /\ status[doc[1]] = "inspected"
                 /\ \E l \in Lines : evidence[doc[1]][l][doc[2]] > 0
        <3>1. PICK c \in Cases, d \in Dispositions : doc = <<c, d>>
            BY <1>1 DEF GoodsInv, GoodsTypes
        <3>2. command[c][d] # "none" /\ ~defective
            BY <1>1, <3>1 DEF GoodsInv, CommandsFit
        <3>3. status[c] = "inspected" /\ \E l \in Lines : evidence[c][l][d] > 0
            BY <1>1, <3>2 DEF GoodsInv, CommandsFit
        <3> QED
            BY <3>1, <3>3
    <2>2. ASSUME NEW c \in Cases, NEW l \in Lines
          PROVE  LET out(m) == /\ move[m].status # "none"
                               /\ move[m].kase = c
                               /\ move[m].line = l
                               /\ move[m].exists
                 IN SumFunction([m \in Moves |-> IF out(m) THEN move[m].quantity ELSE 0])
                      <= IF <<c, "quarantine">> \in documents
                         THEN evidence[c][l]["quarantine"] ELSE 0
        <3> DEFINE g == [m \in Moves |->
                            IF /\ move[m].status # "none" /\ move[m].kase = c
                               /\ move[m].line = l /\ move[m].exists
                            THEN move[m].quantity ELSE 0]
                   f == [m \in Moves |-> UnitsOf(move[m], c, l)]
        <3>1. move \in MoveRows /\ item[c][l] \in Quantities /\ evidence[c][l] \in Counts
            BY <1>1 DEF GoodsInv, GoodsTypes, MoveRows
        <3>2. \A m \in Moves : g[m] \in Int /\ f[m] \in Int /\ g[m] <= f[m]
            <4> SUFFICES ASSUME NEW m \in Moves
                         PROVE  g[m] \in Int /\ f[m] \in Int /\ g[m] <= f[m]
                OBVIOUS
            <4>1. f[m] \in Nat /\ f[m] = UnitsOf(move[m], c, l)
                BY <3>1, UnitsOfType
            <4>2. g[m] = 0 \/ g[m] = f[m]
                BY DEF UnitsOf
            <4> HIDE DEF f, g
            <4> QED BY <4>1, <4>2
        <3>3. /\ SumFunctionOnSet(g, Moves) <= SumFunctionOnSet(f, Moves)
              /\ SumFunctionOnSet(g, Moves) \in Int
            <4> HIDE DEF f, g
            <4> QED BY <3>2, SumGrows, SumType, MovesAssumption
        <3>4. SumFunctionOnSet(f, Moves) = MovedOut(move, c, l) /\ MovedOut(move, c, l) \in Nat
            BY <3>1, MovedOutType DEF MovedOut
        <3>5. /\ MovedOut(move, c, l) + item[c][l].quarantine = evidence[c][l]["quarantine"]
              /\ item[c][l].quarantine \in Nat /\ evidence[c][l]["quarantine"] \in Nat
            BY <1>1, <3>1, QuantityFields DEF GoodsInv, QuarantineFits, Counts, Dispositions
        <3>6. CASE <<c, "quarantine">> \in documents
            <4> HIDE DEF f, g
            <4>1. SumFunctionOnSet(g, Moves) <= evidence[c][l]["quarantine"]
                BY <3>3, <3>4, <3>5
            <4> QED
                BY <3>6, <4>1 DEF SumFunction, g
        <3>7. CASE <<c, "quarantine">> \notin documents
            <4>1. \A m \in Moves : g[m] = 0
                <5> SUFFICES ASSUME NEW m \in Moves, move[m].status # "none",
                                    move[m].kase = c
                             PROVE  FALSE
                    OBVIOUS
                <5>1. command[c]["quarantine"] = "sent"
                    BY <1>1 DEF GoodsInv, QuarantineFits
                <5> QED
                    BY <1>1, <3>7, <5>1 DEF GoodsInv, CommandsFit, Dispositions
            <4>2. SumFunctionOnSet(g, Moves) = 0
                <5> HIDE DEF g
                <5> QED BY <4>1, SumZero, MovesAssumption
            <4> QED
                BY <3>7, <4>2 DEF SumFunction
        <3> QED
            BY <3>6, <3>7
    <2> QED
        BY <2>1, <2>2 DEF BooksFollowWarehouse
<1> QED
    BY <1>1, GoodsInvariance, PTL

-----------------------------------------------------------------------------
(***************************************************************************)
(* How the money of an order is divided (OrderMoney).                      *)
(***************************************************************************)
LEMMA LeastNumber ==
    ASSUME NEW B \in SUBSET Nat, B # {}
    PROVE  \E m \in B : \A k \in B : m <= k
<1>1. PICK m \in B : \A k \in B : ~(<<k, m>> \in OpToRel(<, Nat))
    BY NatLessThanWellFounded, WFMin
<1>2. ASSUME NEW k \in B, ~(m <= k)
      PROVE  FALSE
    <2>1. <<k, m>> \in OpToRel(<, Nat)
        BY <1>2 DEF OpToRel
    <2> QED
        BY <1>1, <2>1
<1> QED
    BY <1>2

\* A whole share of a whole is no greater than the whole.
LEMMA ShareFits ==
    ASSUME NEW cents \in Nat, NEW quantity \in Nat, NEW rest \in Nat,
           quantity > 0, quantity <= rest
    PROVE  Share(cents, quantity, rest) \in 0..cents
<1>1. CASE quantity = rest
    BY <1>1 DEF Share
<1>2. CASE quantity < rest
    <2> DEFINE a == cents * quantity
               b == cents * rest
               s == (2 * a + rest) \div (2 * rest)
    <2>1. Share(cents, quantity, rest) = s
        BY <1>2 DEF Share
    <2>2. a \in Nat /\ b \in Nat /\ a <= b
        <3>1. a \in Nat /\ b \in Nat /\ rest - quantity \in Nat
            BY <1>2
        <3>2. b - a = cents * (rest - quantity)
            OBVIOUS
        <3>3. cents * (rest - quantity) \in Nat
            BY <3>1
        <3> QED BY <3>1, <3>2, <3>3
    <2>3. s \in Nat
        BY <2>2
    <2>4. (2 * rest) * s <= 2 * a + rest
        BY <2>2
    <2>5. (2 * rest) * s <= (2 * rest) * cents + rest
        BY <2>2, <2>3, <2>4
    <2>6. s <= cents
        <3>1. SUFFICES ASSUME s >= cents + 1 PROVE FALSE
            BY <2>3
        <3>2. (2 * rest) * s >= (2 * rest) * (cents + 1)
            BY <2>3, <3>1
        <3> QED
            BY <2>3, <2>5, <3>2
    <2> QED
        BY <2>1, <2>3, <2>6
<1> QED
    BY <1>1, <1>2

\* A quantity's money is divided among its dispositions without a remainder.
LEMMA SplitIsExact ==
    ASSUME NEW counts \in Counts, NEW cents \in Nat,
           counts.resalable + counts.damaged + counts.quarantine > 0
    PROVE  LET split == SplitCents(counts, cents)
           IN /\ SumFunction(split) = cents
              /\ \A d \in Dispositions : /\ split[d] \in Nat
                                         /\ counts[d] = 0 => split[d] = 0
<1> DEFINE a == counts.resalable
           b == counts.damaged
           c == counts.quarantine
           x == ShareIfAny(cents, a, a + b + c)
           y == ShareIfAny(cents - x, b, (a + b + c) - a)
           z == ShareIfAny((cents - x) - y, c, c)
           split == SplitCents(counts, cents)
<1>1. a \in Nat /\ b \in Nat /\ c \in Nat
    BY DEF Counts, Dispositions
<1>2. split = [resalable |-> x, damaged |-> y, quarantine |-> z]
    BY Zenon DEF SplitCents
<1>3. x \in 0..cents /\ (b + c = 0 => x = cents) /\ (a = 0 => x = 0)
    <2> HIDE DEF b, c, a
    <2>1. a + b + c > 0
        BY DEF a, b, c
    <2>2. CASE a = 0
        BY <1>1, <2>1, <2>2 DEF ShareIfAny
    <2>3. CASE a # 0 /\ b + c = 0
        BY <1>1, <2>3 DEF Share, ShareIfAny
    <2>4. CASE a # 0 /\ b + c # 0
        <3>1. a + b + c \in Nat /\ a > 0 /\ a <= a + b + c
            BY <1>1, <2>4
        <3>2. Share(cents, a, a + b + c) \in 0..cents
            BY <1>1, <3>1, ShareFits
        <3> QED BY <2>4, <3>2 DEF ShareIfAny
    <2> QED
        BY <2>2, <2>3, <2>4
<1>4. y \in 0..(cents - x) /\ (c = 0 => x + y = cents) /\ (b = 0 => y = 0)
    <2> HIDE DEF b, c, a, x
    <2>1. (a + b + c) - a = b + c /\ cents - x \in Nat
        BY <1>1, <1>3
    <2>2. CASE b = 0
        BY <1>1, <1>3, <2>1, <2>2 DEF ShareIfAny
    <2>3. CASE b # 0 /\ c = 0
        BY <1>1, <1>3, <2>1, <2>3 DEF Share, ShareIfAny
    <2>4. CASE b # 0 /\ c # 0
        <3>1. b + c \in Nat /\ b > 0 /\ b <= b + c
            BY <1>1, <2>4
        <3>2. Share(cents - x, b, b + c) \in 0..(cents - x)
            BY <1>1, <2>1, <3>1, ShareFits
        <3> QED BY <2>1, <2>4, <3>2 DEF ShareIfAny
    <2> QED
        BY <2>2, <2>3, <2>4
<1>5. z \in Nat /\ x + y + z = cents /\ (c = 0 => z = 0)
    <2> HIDE DEF b, c, a, x, y
    <2> QED BY <1>1, <1>3, <1>4 DEF Share, ShareIfAny
<1>6. SumFunction(split) = x + y + z
    <2> HIDE DEF a, b, c, x, y, z, split
    <2> DEFINE s == [resalable |-> x, damaged |-> y, quarantine |-> z]
    <2>1. DOMAIN s = Dispositions /\ s["resalable"] = x /\ s["damaged"] = y
          /\ s["quarantine"] = z
        BY DEF Dispositions
    <2>2. x \in Nat /\ y \in Nat /\ z \in Nat
        BY <1>3, <1>4, <1>5
    <2>3. \A d \in Dispositions : s[d] \in Int
        BY <2>1, <2>2 DEF Dispositions
    <2>9. SumFunction(split) = SumFunctionOnSet(s, Dispositions)
        BY <1>2, <2>1 DEF SumFunction
    <2> HIDE DEF s
    <2>4. IsFiniteSet(Dispositions)
        <3>1. IsFiniteSet({"quarantine"} \cup {"damaged"})
            BY FS_Singleton, FS_AddElement
        <3>2. IsFiniteSet(({"quarantine"} \cup {"damaged"}) \cup {"resalable"})
            BY <3>1, FS_AddElement
        <3>3. Dispositions = ({"quarantine"} \cup {"damaged"}) \cup {"resalable"}
            BY DEF Dispositions
        <3> QED BY <3>2, <3>3
    <2>5. SumFunctionOnSet(s, Dispositions) =
             s["resalable"] + SumFunctionOnSet(s, Dispositions \ {"resalable"})
        BY <2>3, <2>4, SumRemove DEF Dispositions
    <2>6. SumFunctionOnSet(s, Dispositions \ {"resalable"}) =
             s["damaged"] + SumFunctionOnSet(s, {"quarantine"})
        <3>1. IsFiniteSet(Dispositions \ {"resalable"})
            BY <2>4, FS_Subset
        <3>2. "damaged" \in Dispositions \ {"resalable"}
              /\ (Dispositions \ {"resalable"}) \ {"damaged"} = {"quarantine"}
            BY DEF Dispositions
        <3> QED BY <2>3, <3>1, <3>2, SumRemove
    <2>7. SumFunctionOnSet(s, {"quarantine"}) = s["quarantine"] + SumFunctionOnSet(s, {})
        <3>1. IsFiniteSet({"quarantine"}) /\ {"quarantine"} \ {"quarantine"} = {}
            BY FS_Singleton
        <3>2. s["quarantine"] \in Int
            BY <2>1, <2>2
        <3> QED BY <3>1, <3>2, SumRemove
    <2>8. SumFunctionOnSet(s, {}) = 0
        BY FS_EmptySet, SumZero
    <2> QED
        BY <2>1, <2>2, <2>5, <2>6, <2>7, <2>8, <2>9
<1>7. \A d \in Dispositions : split[d] \in Nat /\ (counts[d] = 0 => split[d] = 0)
    <2>1. x \in Nat /\ y \in Nat /\ z \in Nat
        BY <1>3, <1>4, <1>5
    <2>2. /\ split["resalable"] = x /\ split["damaged"] = y /\ split["quarantine"] = z
          /\ counts["resalable"] = a /\ counts["damaged"] = b /\ counts["quarantine"] = c
        BY <1>2
    <2> HIDE DEF a, b, c, x, y, z, split
    <2> QED
        BY <1>3, <1>4, <1>5, <2>1, <2>2 DEF Dispositions
<1> QED
    BY <1>5, <1>6, <1>7

\* A document's whole prices add up to its money.
LEMMA RenderingIsExact ==
    ASSUME NEW quantity \in Nat, NEW cents \in Nat, quantity = 0 => cents = 0
    PROVE  RenderedCents(quantity, cents) = cents
<1>1. CASE quantity = 0
    BY <1>1 DEF RenderedCents
<1>2. CASE quantity > 0
    <2> DEFINE q == cents \div quantity
               r == cents % quantity
    <2>1. q \in Nat /\ r \in Nat /\ cents = quantity * q + r
        BY <1>2
    <2>2. RenderedCents(quantity, cents) = (quantity - r) * q + r * (q + 1)
        BY <1>2 DEF RenderedCents
    <2> HIDE DEF q, r
    <2>3. (quantity - r) * q + r * (q + 1) = quantity * q + r
        BY <2>1
    <2> QED
        BY <2>1, <2>2, <2>3
<1> QED
    BY <1>1, <1>2

\* f[i] is the money left after line i, up to line k of n.
NetLeft(f, gross, target, n, k) ==
    f = [i \in 0..k |->
            IF i = 0 THEN target
            ELSE IF i = n THEN 0
            ELSE f[i - 1] - (gross[i] * f[i - 1]) \div RestOf(gross, i)]

LEMMA NetLeftExists ==
    ASSUME NEW gross, NEW target, NEW n \in Nat
    PROVE  \E f : NetLeft(f, gross, target, n, n)
<1> DEFINE B == {k \in Nat : ~ \E f : NetLeft(f, gross, target, n, k)}
<1> SUFFICES B = {}
    OBVIOUS
<1> SUFFICES ASSUME B # {} PROVE FALSE
    OBVIOUS
<1>1. PICK k \in B : \A j \in B : k <= j
    <2> HIDE DEF B
    <2> QED BY LeastNumber DEF B
<1>2. CASE k = 0
    <2>1. NetLeft([i \in 0..0 |-> target], gross, target, n, 0)
        BY DEF NetLeft
    <2> QED
        BY <1>2, <2>1
<1>3. CASE k # 0
    <2>1. k - 1 \in Nat /\ k - 1 \notin B
        BY <1>1, <1>3
    <2>2. PICK g : NetLeft(g, gross, target, n, k - 1)
        BY <2>1
    <2> DEFINE last == IF k = n THEN 0
                       ELSE g[k - 1] - (gross[k] * g[k - 1]) \div RestOf(gross, k)
               f == [i \in 0..k |-> IF i = k THEN last ELSE g[i]]
    <2>3. \A i \in 0..(k - 1) : f[i] = g[i]
        BY <2>1
    <2>4. ASSUME NEW i \in 0..k
          PROVE  f[i] = IF i = 0 THEN target
                        ELSE IF i = n THEN 0
                        ELSE f[i - 1] - (gross[i] * f[i - 1]) \div RestOf(gross, i)
        <3>1. i # 0 => i - 1 \in 0..(k - 1)
            BY <2>1
        <3>2. CASE i = k
            <4>1. f[i] = last /\ f[k - 1] = g[k - 1]
                BY <1>3, <2>1, <2>3, <3>1, <3>2
            <4> HIDE DEF f
            <4> QED BY <1>3, <3>2, <4>1
        <3>3. CASE i # k
            <4>1. i \in 0..(k - 1)
                BY <3>3
            <4>2. g[i] = IF i = 0 THEN target
                         ELSE IF i = n THEN 0
                         ELSE g[i - 1] - (gross[i] * g[i - 1]) \div RestOf(gross, i)
                BY <2>2, <4>1 DEF NetLeft
            <4>3. f[i] = g[i] /\ (i # 0 => f[i - 1] = g[i - 1])
                BY <2>3, <3>1, <4>1
            <4> HIDE DEF f
            <4> QED BY <4>2, <4>3
        <3> QED
            BY <3>2, <3>3
    <2>5. f = [i \in 0..k |-> f[i]]
        OBVIOUS
    <2> HIDE DEF f
    <2>6. NetLeft(f, gross, target, n, k)
        BY <2>4, <2>5, Zenon DEF NetLeft
    <2> QED
        BY <2>6
<1> QED
    BY <1>2, <1>3

LEMMA NetLinesIs ==
    ASSUME NEW n \in Nat, NEW gross \in [1..n -> Nat], NEW target
    PROVE  \E f : /\ NetLeft(f, gross, target, n, n)
                  /\ NetLines(gross, target) = [i \in 1..n |-> f[i - 1] - f[i]]
<1> DEFINE f == CHOOSE g : NetLeft(g, gross, target, Len(gross), Len(gross))
<1>1. Len(gross) = n
    OBVIOUS
<1>2. NetLines(gross, target) = [i \in 1..Len(gross) |-> f[i - 1] - f[i]]
    BY Zenon DEF NetLines, NetLeft
<1>3. NetLeft(f, gross, target, n, n)
    BY <1>1, NetLeftExists
<1> HIDE DEF f
<1> QED
    BY <1>1, <1>2, <1>3

LEMMA RestNext ==
    ASSUME NEW n \in Nat, NEW gross \in [1..n -> Nat], n > 0, gross[n] > 0, NEW i \in 1..n
    PROVE  /\ RestOf(gross, i) \in Nat /\ RestOf(gross, i) > 0
           /\ RestOf(gross, i + 1) \in Nat
           /\ RestOf(gross, i) = gross[i] + RestOf(gross, i + 1)
<1>1. Len(gross) = n
    OBVIOUS
<1>2. IsFiniteSet(i..n) /\ IsFiniteSet((i + 1)..n) /\ IsFiniteSet((i..n) \ {n})
    <2>1. i \in Int /\ i + 1 \in Int /\ n \in Int
        OBVIOUS
    <2>2. IsFiniteSet(i..n) /\ IsFiniteSet((i + 1)..n)
        BY <2>1, FS_Interval
    <2>3. (i..n) \ {n} \subseteq i..n
        OBVIOUS
    <2> QED
        BY <2>2, <2>3, FS_Subset
<1>3. \A x \in i..n : gross[x] \in Nat
    OBVIOUS
<1>4. SumFunctionOnSet(gross, i..n) \in Nat
      /\ SumFunctionOnSet(gross, (i + 1)..n) \in Nat
      /\ SumFunctionOnSet(gross, (i..n) \ {n}) \in Nat
    <2>1. (i + 1)..n \subseteq i..n
        OBVIOUS
    <2> QED BY <1>2, <1>3, <2>1, SumType
<1>5. SumFunctionOnSet(gross, i..n) = gross[i] + SumFunctionOnSet(gross, (i + 1)..n)
    <2>1. i \in i..n /\ (i..n) \ {i} = (i + 1)..n
        OBVIOUS
    <2> QED BY <1>2, <1>3, <2>1, SumRemove
<1>6. SumFunctionOnSet(gross, i..n) = gross[n] + SumFunctionOnSet(gross, (i..n) \ {n})
    <2>1. n \in i..n
        OBVIOUS
    <2> QED BY <1>2, <1>3, <2>1, SumRemove
<1>7. SumFunctionOnSet(gross, i..n) > 0
    BY <1>4, <1>6
<1> QED
    BY <1>1, <1>4, <1>5, <1>7 DEF RestOf

\* The part of what is left that goes to a line of which it is g of r.
LEMMA PartFits ==
    ASSUME NEW g \in Nat, NEW s \in Nat, g + s > 0, NEW left \in 0..(g + s)
    PROVE  LET part == (g * left) \div (g + s)
           IN part \in 0..g /\ left - part \in 0..s
<1> DEFINE r == g + s
           p == g * left
           a == p \div r
<1>1. r \in Nat /\ r > 0 /\ p \in Nat /\ left \in Nat /\ left <= r
    OBVIOUS
<1>2. a \in Nat /\ r * a <= p /\ p < r * a + r
    BY <1>1
<1>3. a <= g
    <2>1. p <= r * g
        <3>1. g * (r - left) \in Nat
            BY <1>1
        <3>2. r * g = p + g * (r - left)
            BY <1>1
        <3> HIDE DEF p, r
        <3> QED BY <1>1, <3>1, <3>2
    <2>2. SUFFICES ASSUME a >= g + 1 PROVE FALSE
        BY <1>2
    <2>3. r * a >= r * g + r
        <3>1. r * (a - (g + 1)) \in Nat
            BY <1>1, <1>2, <2>2
        <3>2. r * a = (r * g + r) + r * (a - (g + 1))
            BY <1>1, <1>2
        <3>3. r * g \in Nat /\ r * a \in Nat
            BY <1>1, <1>2
        <3> HIDE DEF a, r
        <3> QED BY <1>1, <3>1, <3>2, <3>3
    <2>4. r * g \in Nat /\ r * a \in Nat
        BY <1>1, <1>2
    <2> HIDE DEF a, r, p
    <2> QED
        BY <1>1, <1>2, <2>1, <2>3, <2>4
<1>4. a <= left
    <2>1. p <= r * left
        <3>1. s * left \in Nat
            BY <1>1
        <3>2. r * left = p + s * left
            BY <1>1
        <3> HIDE DEF p, r
        <3> QED BY <1>1, <3>1, <3>2
    <2>2. SUFFICES ASSUME a >= left + 1 PROVE FALSE
        BY <1>1, <1>2
    <2>3. r * a >= r * left + r
        <3>1. r * (a - (left + 1)) \in Nat
            BY <1>1, <1>2, <2>2
        <3>2. r * a = (r * left + r) + r * (a - (left + 1))
            BY <1>1, <1>2
        <3>3. r * left \in Nat /\ r * a \in Nat
            BY <1>1, <1>2
        <3> HIDE DEF a, r
        <3> QED BY <1>1, <3>1, <3>2, <3>3
    <2>4. r * left \in Nat /\ r * a \in Nat
        BY <1>1, <1>2
    <2> HIDE DEF a, r, p
    <2> QED
        BY <1>1, <1>2, <2>1, <2>3, <2>4
<1>5. left - a <= s
    <2>1. SUFFICES ASSUME left - a >= s + 1 PROVE FALSE
        BY <1>1, <1>2
    <2>2. r * (left - s) <= p
        <3>1. (r - left) * s \in Nat
            BY <1>1
        <3>2. p = r * (left - s) + (r - left) * s
            BY <1>1
        <3>3. r * (left - s) \in Int
            BY <1>1
        <3> HIDE DEF p, r
        <3> QED BY <1>1, <3>1, <3>2, <3>3
    <2>3. r * a + r <= r * (left - s)
        <3>1. r * (((left - s) - a) - 1) \in Nat
            BY <1>1, <1>2, <2>1
        <3>2. r * (left - s) = (r * a + r) + r * (((left - s) - a) - 1)
            BY <1>1, <1>2
        <3>3. r * a \in Nat
            BY <1>1, <1>2
        <3> HIDE DEF a, r
        <3> QED BY <1>1, <3>1, <3>2, <3>3
    <2>4. r * (left - s) \in Int /\ r * a \in Nat
        BY <1>1, <1>2
    <2> HIDE DEF a, r, p
    <2> QED
        BY <1>1, <1>2, <2>2, <2>3, <2>4
<1> QED
    BY <1>1, <1>2, <1>3, <1>4, <1>5

\* Every line gets a part of the order's money that is no more than its gross
\* value: the checks with which allocate_order_money refuses an order
\* (order_money_allocation.py:106) never fail.
LEMMA NetLinesFit ==
    ASSUME NEW n \in Nat, n > 0, NEW gross \in [1..n -> Nat], gross[n] > 0,
           NEW target \in 0..RestOf(gross, 1)
    PROVE  \A i \in 1..n : NetLines(gross, target)[i] \in 0..gross[i]
<1>1. PICK f : /\ NetLeft(f, gross, target, n, n)
               /\ NetLines(gross, target) = [i \in 1..n |-> f[i - 1] - f[i]]
    BY NetLinesIs
<1>2. f[0] = target /\ f[n] = 0
      /\ \A i \in 1..n : i # n =>
            f[i] = f[i - 1] - (gross[i] * f[i - 1]) \div RestOf(gross, i)
    BY <1>1 DEF NetLeft
<1> DEFINE B == {i \in 0..(n - 1) : f[i] \notin 0..RestOf(gross, i + 1)}
<1>3. ASSUME NEW i \in 1..(n - 1), f[i - 1] \in 0..RestOf(gross, i)
      PROVE  /\ f[i] \in 0..RestOf(gross, i + 1)
             /\ f[i - 1] - f[i] \in 0..gross[i]
    <2> DEFINE g == gross[i]
               s == RestOf(gross, i + 1)
               left == f[i - 1]
               part == (g * left) \div (g + s)
    <2>1. /\ i \in 1..n /\ g \in Nat /\ s \in Nat /\ g + s > 0
          /\ RestOf(gross, i) = g + s
        <3>1. i \in 1..n
            OBVIOUS
        <3>2. /\ RestOf(gross, i) \in Nat /\ RestOf(gross, i) > 0
              /\ RestOf(gross, i + 1) \in Nat
              /\ RestOf(gross, i) = gross[i] + RestOf(gross, i + 1)
            BY <3>1, RestNext
        <3> QED BY <3>1, <3>2
    <2>2. left \in 0..(g + s)
        BY <1>3, <2>1
    <2>3. f[i] = left - part
        BY <1>2, <2>1
    <2>4. part \in 0..g /\ left - part \in 0..s
        <3> HIDE DEF g, s, left
        <3> QED BY <2>1, <2>2, PartFits
    <2> HIDE DEF part
    <2> QED
        BY <2>2, <2>3, <2>4
<1>4. B = {}
    <2> SUFFICES ASSUME B # {} PROVE FALSE
        OBVIOUS
    <2>1. PICK i \in B : \A j \in B : i <= j
        <3>1. B \in SUBSET Nat
            OBVIOUS
        <3> HIDE DEF B
        <3> QED BY <3>1, LeastNumber
    <2>2. i # 0
        BY <1>2
    <2>3. i - 1 \in 0..(n - 1) /\ i - 1 \notin B /\ i \in 1..(n - 1)
        BY <2>1, <2>2
    <2>4. f[i - 1] \in 0..RestOf(gross, i)
        BY <2>3
    <2> QED
        BY <1>3, <2>3, <2>4
<1>5. ASSUME NEW i \in 1..n
      PROVE  f[i - 1] - f[i] \in 0..gross[i]
    <2>1. f[i - 1] \in 0..RestOf(gross, i)
        <3>1. i - 1 \in 0..(n - 1) /\ (i - 1) + 1 = i
            OBVIOUS
        <3> QED BY <1>4, <3>1
    <2>2. CASE i = n
        <3>1. RestOf(gross, n) = gross[n]
            <4>1. RestOf(gross, n + 1) = 0
                <5>1. Len(gross) = n /\ (n + 1)..n = {}
                    OBVIOUS
                <5> QED BY <5>1, FS_EmptySet, SumZero DEF RestOf
            <4>2. n \in 1..n
                OBVIOUS
            <4> QED BY <4>1, <4>2, RestNext
        <3> QED BY <1>2, <2>1, <2>2, <3>1
    <2>3. CASE i # n
        BY <1>3, <2>1, <2>3
    <2> QED
        BY <2>2, <2>3
<1> QED
    BY <1>1, <1>5

-----------------------------------------------------------------------------
(***************************************************************************)
(* What is left of a line after each of the cases that were completed.     *)
(***************************************************************************)
After(was, back) ==
    IF back = 0 THEN was
    ELSE [units |-> was.units - back,
          cents |-> was.cents - Share(was.cents, back, was.units)]

\* f[i] is what is left of line l after the first i of these cases, up to k.
Lefts(f, start, order, its, l, k) ==
    f = [i \in 0..k |-> IF i = 0 THEN start
                        ELSE After(f[i - 1], its[order[i]][l].inspected)]

Start(l) == [units |-> sale.quantity[l], cents |-> NetLines(sale.gross, sale.target)[l]]

LEMMA LeftsExist ==
    ASSUME NEW start, NEW order, NEW its, NEW l, NEW n \in Nat
    PROVE  \E f : Lefts(f, start, order, its, l, n)
<1> DEFINE B == {k \in Nat : ~ \E f : Lefts(f, start, order, its, l, k)}
<1> SUFFICES B = {}
    OBVIOUS
<1> SUFFICES ASSUME B # {} PROVE FALSE
    OBVIOUS
<1>1. PICK k \in B : \A j \in B : k <= j
    <2> HIDE DEF B
    <2> QED BY LeastNumber DEF B
<1>2. CASE k = 0
    <2>1. Lefts([i \in 0..0 |-> start], start, order, its, l, 0)
        BY DEF Lefts
    <2> QED
        BY <1>2, <2>1
<1>3. CASE k # 0
    <2>1. k - 1 \in Nat /\ k - 1 \notin B
        BY <1>1, <1>3
    <2>2. PICK g : Lefts(g, start, order, its, l, k - 1)
        BY <2>1
    <2> DEFINE last == After(g[k - 1], its[order[k]][l].inspected)
               f == [i \in 0..k |-> IF i = k THEN last ELSE g[i]]
    <2>3. \A i \in 0..(k - 1) : f[i] = g[i]
        BY <2>1
    <2>4. ASSUME NEW i \in 0..k
          PROVE  f[i] = IF i = 0 THEN start
                        ELSE After(f[i - 1], its[order[i]][l].inspected)
        <3>1. i # 0 => i - 1 \in 0..(k - 1)
            BY <2>1
        <3>2. CASE i = k
            <4>1. f[i] = last /\ f[k - 1] = g[k - 1]
                BY <1>3, <2>1, <2>3, <3>1, <3>2
            <4> HIDE DEF f
            <4> QED BY <1>3, <3>2, <4>1
        <3>3. CASE i # k
            <4>1. i \in 0..(k - 1)
                BY <3>3
            <4>2. g[i] = IF i = 0 THEN start
                         ELSE After(g[i - 1], its[order[i]][l].inspected)
                BY <2>2, <4>1 DEF Lefts
            <4>3. f[i] = g[i] /\ (i # 0 => f[i - 1] = g[i - 1])
                BY <2>3, <3>1, <4>1
            <4> HIDE DEF f
            <4> QED BY <4>2, <4>3
        <3> QED
            BY <3>2, <3>3
    <2>5. f = [i \in 0..k |-> f[i]]
        OBVIOUS
    <2> HIDE DEF f
    <2>6. Lefts(f, start, order, its, l, k)
        BY <2>4, <2>5, Zenon DEF Lefts
    <2> QED
        BY <2>6
<1> QED
    BY <1>2, <1>3

LEMMA LineLeftIs ==
    ASSUME NEW order, Len(order) \in Nat, NEW its, NEW l
    PROVE  Lefts(LineLeft(order, its, l), Start(l), order, its, l, Len(order))
<1>1. LineLeft(order, its, l) =
         CHOOSE f : Lefts(f, Start(l), order, its, l, Len(order))
    BY Zenon DEF LineLeft, Lefts, Start, After
<1> QED
    BY <1>1, LeftsExist

\* Two orders that begin with the same cases leave the same after these.
LEMMA LeftsCoincide ==
    ASSUME NEW k \in Nat, NEW m \in Nat, k <= m, NEW start, NEW l, NEW f, NEW g,
           NEW order, NEW its, NEW other, NEW their,
           Lefts(f, start, order, its, l, k), Lefts(g, start, other, their, l, m),
           \A i \in 1..k : its[order[i]][l].inspected = their[other[i]][l].inspected
    PROVE  \A i \in 0..k : f[i] = g[i]
<1> DEFINE B == {i \in 0..k : f[i] # g[i]}
<1> SUFFICES ASSUME B # {} PROVE FALSE
    OBVIOUS
<1>1. PICK i \in B : \A j \in B : i <= j
    <2>1. B \in SUBSET Nat
        OBVIOUS
    <2> HIDE DEF B
    <2> QED BY <2>1, LeastNumber
<1>2. i # 0
    BY DEF Lefts
<1>3. i - 1 \in 0..k /\ i - 1 \notin B /\ i \in 1..k /\ i \in 0..m
    BY <1>1, <1>2
<1>4. /\ f[i] = After(f[i - 1], its[order[i]][l].inspected)
      /\ g[i] = After(g[i - 1], their[other[i]][l].inspected)
    BY <1>2, <1>3 DEF Lefts
<1> QED
    BY <1>3, <1>4

\* A part of a sum is no greater.
LEMMA SumOfPart ==
    ASSUME NEW f, NEW S, IsFiniteSet(S), \A x \in S : f[x] \in Nat, NEW T \in SUBSET S
    PROVE  SumFunctionOnSet(f, T) <= SumFunctionOnSet(f, S)
<1> DEFINE B == {U \in SUBSET S : /\ T \subseteq U
                                  /\ ~(SumFunctionOnSet(f, T) <= SumFunctionOnSet(f, U))}
<1> SUFFICES ASSUME B # {} PROVE FALSE
    OBVIOUS
<1>1. PICK U \in B : \A V \in B : ~(V \subseteq U /\ V # U)
    <2>1. B \subseteq SUBSET S
        OBVIOUS
    <2> HIDE DEF B
    <2> QED BY <2>1, SmallestSet
<1>2. /\ SumFunctionOnSet(f, T) \in Nat
      /\ IsFiniteSet(U)
    <2>1. IsFiniteSet(T) /\ IsFiniteSet(U)
        BY FS_Subset
    <2> QED BY <2>1, SumType
<1>3. PICK x \in U : x \notin T
    BY <1>2
<1>4. SumFunctionOnSet(f, U) = f[x] + SumFunctionOnSet(f, U \ {x})
    <2>1. \A y \in U : f[y] \in Int
        OBVIOUS
    <2> QED BY <1>2, <2>1, SumRemove
<1>5. SumFunctionOnSet(f, T) <= SumFunctionOnSet(f, U \ {x})
    <2>1. U \ {x} \in SUBSET S /\ T \subseteq U \ {x} /\ U \ {x} # U
        BY <1>3
    <2> QED BY <1>1, <2>1
<1>6. SumFunctionOnSet(f, U \ {x}) \in Nat /\ f[x] \in Nat
    <2>1. IsFiniteSet(U \ {x}) /\ U \ {x} \subseteq S
        BY <1>2, FS_Subset
    <2> QED BY <2>1, SumType
<1> QED
    BY <1>2, <1>4, <1>5, <1>6

\* The first i cases.
Prior(order, i) == {order[j] : j \in 1..i}

LEMMA PriorGrows ==
    ASSUME NEW k \in Nat, NEW order, NEW S, IsFiniteSet(S),
           \A i \in 1..k : order[i] \in S,
           \A i, j \in 1..k : order[i] = order[j] => i = j,
           NEW p, \A x \in S : p[x] \in Int, NEW i \in 1..k
    PROVE  SumFunctionOnSet(p, Prior(order, i)) =
              p[order[i]] + SumFunctionOnSet(p, Prior(order, i - 1))
<1>1. /\ Prior(order, i) \subseteq S /\ order[i] \in Prior(order, i)
      /\ Prior(order, i) \ {order[i]} = Prior(order, i - 1)
    BY DEF Prior
<1>2. IsFiniteSet(Prior(order, i))
    BY <1>1, FS_Subset
<1>3. \A x \in Prior(order, i) : p[x] \in Int
    BY <1>1
<1> QED
    BY <1>1, <1>2, <1>3, SumRemove

\* Units and cents never go below zero, and the last unit takes the last cent.
LEMMA LeftsFit ==
    ASSUME NEW k \in Nat, NEW order, NEW its, NEW l, NEW S, IsFiniteSet(S),
           \A i \in 1..k : order[i] \in S,
           \A i, j \in 1..k : order[i] = order[j] => i = j,
           NEW back, \A c \in S : back[c] = its[c][l].inspected /\ back[c] \in Nat,
           NEW q \in Nat, NEW net \in Nat, q = 0 => net = 0,
           SumFunctionOnSet(back, S) <= q,
           NEW f, Lefts(f, [units |-> q, cents |-> net], order, its, l, k)
    PROVE  /\ \A i \in 0..k : /\ f[i].units = q - SumFunctionOnSet(back, Prior(order, i))
                              /\ f[i].units \in Nat /\ f[i].cents \in Nat
                              /\ f[i].units = 0 => f[i].cents = 0
           /\ \A i \in 1..k : f[i - 1].cents - f[i].cents \in Nat
<1> DEFINE sum(i) == SumFunctionOnSet(back, Prior(order, i))
           Holds(i) == /\ f[i].units = q - sum(i)
                       /\ f[i].units \in Nat /\ f[i].cents \in Nat
                       /\ f[i].units = 0 => f[i].cents = 0
           B == {i \in 0..k : ~Holds(i)}
<1>1. \A i \in 0..k : sum(i) \in Nat /\ sum(i) <= q
    <2> SUFFICES ASSUME NEW i \in 0..k PROVE sum(i) \in Nat /\ sum(i) <= q
        OBVIOUS
    <2>1. Prior(order, i) \in SUBSET S
        BY DEF Prior
    <2>2. sum(i) <= SumFunctionOnSet(back, S)
        BY <2>1, SumOfPart
    <2>3. sum(i) \in Nat /\ SumFunctionOnSet(back, S) \in Nat
        <3>1. IsFiniteSet(Prior(order, i))
            BY <2>1, FS_Subset
        <3> QED BY <2>1, <3>1, SumType
    <2> HIDE DEF sum
    <2> QED BY <2>2, <2>3
<1>2. Holds(0)
    <2>1. f[0] = [units |-> q, cents |-> net]
        BY DEF Lefts
    <2>2. sum(0) = 0
        <3>1. Prior(order, 0) = {}
            BY DEF Prior
        <3> QED BY <3>1, FS_EmptySet, SumZero
    <2> HIDE DEF sum
    <2> QED BY <2>1, <2>2
<1>3. ASSUME NEW i \in 1..k, Holds(i - 1)
      PROVE  Holds(i) /\ f[i - 1].cents - f[i].cents \in Nat
    <2> DEFINE b == back[order[i]]
               was == f[i - 1]
    <2>1. f[i] = After(was, b)
        <3>1. b = its[order[i]][l].inspected
            OBVIOUS
        <3> HIDE DEF b
        <3> QED BY <3>1 DEF Lefts
    <2>2. sum(i) = b + sum(i - 1) /\ b \in Nat
        BY PriorGrows
    <2>3. i \in 0..k /\ i - 1 \in 0..k
        OBVIOUS
    <2>4. /\ sum(i) \in Nat /\ sum(i) <= q /\ sum(i - 1) \in Nat
          /\ was.units = q - sum(i - 1) /\ was.units \in Nat /\ was.cents \in Nat
          /\ was.units = 0 => was.cents = 0
        <3>1. sum(i) \in Nat /\ sum(i) <= q /\ sum(i - 1) \in Nat
            <4> HIDE DEF sum
            <4> QED BY <1>1, <2>3
        <3> HIDE DEF sum
        <3> QED BY <1>3, <3>1
    <2> HIDE DEF sum, b, was
    <2>5. CASE b = 0
        <3>1. f[i] = was
            BY <2>1, <2>5 DEF After
        <3>2. Holds(i) /\ was.cents - was.cents \in Nat
            BY <2>2, <2>4, <2>5, <3>1
        <3> QED BY <3>1, <3>2 DEF was
    <2>6. CASE b # 0
        <3> DEFINE s == Share(was.cents, b, was.units)
        <3>1. f[i].units = was.units - b /\ f[i].cents = was.cents - s
            BY <2>1, <2>6 DEF After
        <3>2. b > 0 /\ b <= was.units
            BY <2>2, <2>4, <2>6
        <3>3. s \in 0..was.cents
            BY <2>2, <2>4, <3>2, ShareFits
        <3>4. was.units - b = 0 => s = was.cents
            BY <2>2, <2>4 DEF Share
        <3> HIDE DEF s
        <3>5. Holds(i)
            BY <2>2, <2>4, <3>1, <3>2, <3>3, <3>4
        <3>6. was.cents - f[i].cents \in Nat
            BY <2>4, <3>1, <3>3
        <3> QED BY <3>5, <3>6 DEF was
    <2> QED
        BY <2>5, <2>6
<1> HIDE DEF Holds
<1>4. B = {}
    <2> SUFFICES ASSUME B # {} PROVE FALSE
        OBVIOUS
    <2>1. PICK i \in B : \A j \in B : i <= j
        <3>1. B \in SUBSET Nat
            OBVIOUS
        <3> HIDE DEF B
        <3> QED BY <3>1, LeastNumber
    <2>2. i # 0
        BY <1>2
    <2>3. i - 1 \in 0..k /\ i - 1 \notin B /\ i \in 1..k
        BY <2>1, <2>2
    <2> QED
        BY <1>3, <2>3
<1>5. \A i \in 1..k : i - 1 \in 0..k
    OBVIOUS
<1>6. \A i \in 0..k : Holds(i)
    BY <1>4
<1>7. \A i \in 1..k : f[i - 1].cents - f[i].cents \in Nat
    BY <1>3, <1>5, <1>6
<1>8. ASSUME NEW i \in 0..k
      PROVE  /\ f[i].units = q - SumFunctionOnSet(back, Prior(order, i))
             /\ f[i].units \in Nat /\ f[i].cents \in Nat
             /\ f[i].units = 0 => f[i].cents = 0
    <2>1. Holds(i)
        BY <1>6
    <2> QED
        BY <2>1 DEF Holds
<1> QED
    BY <1>7, <1>8

\* p is what each of k different members of S took, one after the other.
Took(p, order, left, S, k) ==
    /\ \A i \in 1..k : order[i] \in S /\ p[order[i]] = left[i - 1] - left[i]
    /\ \A i, j \in 1..k : order[i] = order[j] => i = j
    /\ \A i \in 0..k : left[i] \in Int
    /\ \A x \in S : p[x] \in Int

\* What the cases were given adds up to what they took from the line.
LEMMA GivenIsTaken ==
    ASSUME NEW k \in Nat, NEW S, IsFiniteSet(S), NEW order, NEW left, NEW p,
           Took(p, order, left, S, k)
    PROVE  SumFunctionOnSet(p, Prior(order, k)) = left[0] - left[k]
<1>0. /\ \A i \in 1..k : order[i] \in S /\ p[order[i]] = left[i - 1] - left[i]
      /\ \A i, j \in 1..k : order[i] = order[j] => i = j
      /\ \A i \in 0..k : left[i] \in Int
      /\ \A x \in S : p[x] \in Int
    BY DEF Took
<1> DEFINE sum(i) == SumFunctionOnSet(p, Prior(order, i))
           B == {i \in 0..k : sum(i) # left[0] - left[i]}
<1> SUFFICES ASSUME B # {} PROVE FALSE
    <2>1. k \in 0..k
        OBVIOUS
    <2> HIDE DEF sum
    <2> QED BY <2>1 DEF sum
<1>1. PICK i \in B : \A j \in B : i <= j
    <2>1. B \in SUBSET Nat
        OBVIOUS
    <2> HIDE DEF B
    <2> QED BY <2>1, LeastNumber
<1>2. i # 0
    <2>1. sum(0) = 0
        <3>1. Prior(order, 0) = {}
            BY DEF Prior
        <3> QED BY <3>1, FS_EmptySet, SumZero
    <2>2. left[0] - left[0] = 0
        BY <1>0
    <2> HIDE DEF sum
    <2> QED BY <2>1, <2>2
<1>3. i - 1 \in 0..k /\ i - 1 \notin B /\ i \in 1..k /\ i \in 0..k /\ 0 \in 0..k
    BY <1>1, <1>2
<1>4. sum(i) = p[order[i]] + sum(i - 1)
    <2>1. i \in 1..k
        BY <1>3
    <2>2. \A j \in 1..k : order[j] \in S
        BY <1>0
    <2>3. \A j, m \in 1..k : order[j] = order[m] => j = m
        BY <1>0
    <2>4. \A x \in S : p[x] \in Int
        BY <1>0
    <2> HIDE DEF B, sum
    <2>5. SumFunctionOnSet(p, Prior(order, i)) =
             p[order[i]] + SumFunctionOnSet(p, Prior(order, i - 1))
        BY <2>1, <2>2, <2>3, <2>4, PriorGrows
    <2> QED BY <2>5 DEF sum
<1>5. /\ sum(i - 1) = left[0] - left[i - 1]
      /\ p[order[i]] = left[i - 1] - left[i]
      /\ left[0] \in Int /\ left[i] \in Int /\ left[i - 1] \in Int
      /\ sum(i) # left[0] - left[i]
    BY <1>0, <1>1, <1>3
<1> HIDE DEF sum
<1> QED
    BY <1>4, <1>5

-----------------------------------------------------------------------------
(***************************************************************************)
(* The money of the commands.                                              *)
(***************************************************************************)
StartOf(s, l) == [units |-> s.quantity[l], cents |-> NetLines(s.gross, s.target)[l]]

\* The cases are completed one after the other, each once.
CompletedFit ==
    /\ \A i, j \in 1..Len(completed) : completed[i] = completed[j] => i = j
    /\ \A c \in Cases : status[c] = "inspected" <=>
                           \E i \in 1..Len(completed) : completed[i] = c

\* What the inspections found is what was inspected.
EvidenceFits ==
    \A c \in Cases, l \in Lines :
       evidence[c][l]["resalable"] + evidence[c][l]["damaged"] + evidence[c][l]["quarantine"]
          = item[c][l].inspected

\* Each completed case was given what it took from its lines.
PayloadFits ==
    /\ payload \in [Cases -> [Lines -> Nat]]
    /\ ~defective => \A l \in Lines :
          \E f : /\ Lefts(f, StartOf(sale, l), completed, item, l, Len(completed))
                 /\ \A i \in 1..Len(completed) :
                       payload[completed[i]][l] = f[i - 1].cents - f[i].cents

MoneyInv == CompletedFit /\ EvidenceFits /\ PayloadFits

LEMMA StartFits ==
    ASSUME NEW s \in Sales, NEW l \in Lines
    PROVE  /\ s.quantity[l] \in Nat
           /\ NetLines(s.gross, s.target)[l] \in Nat
           /\ s.quantity[l] = 0 => NetLines(s.gross, s.target)[l] = 0
<1> DEFINE n == Cardinality(Lines)
<1>1. n \in Nat /\ Lines = 1..n /\ n > 0 /\ l \in 1..n
    <2>1. n \in Nat /\ Lines = 1..n
        BY LinesAssumption, FS_CardinalityType
    <2> HIDE DEF n
    <2> QED BY <2>1
<1>2. /\ s.gross \in [1..n -> Nat] /\ s.gross[n] > 0
      /\ s.target \in 0..RestOf(s.gross, 1)
      /\ s.quantity[l] \in Nat
      /\ s.quantity[l] = 0 => s.gross[l] = 0
    <2>1. /\ s.quantity \in [Lines -> Nat] /\ s.gross \in [Lines -> Nat]
          /\ \A x \in Lines : s.quantity[x] = 0 => s.gross[x] = 0
          /\ s.gross[n] > 0 /\ s.target \in 0..RestOf(s.gross, 1)
        BY SalesAssumption
    <2> HIDE DEF n
    <2> QED BY <1>1, <2>1
<1>3. NetLines(s.gross, s.target)[l] \in 0..s.gross[l]
    <2> HIDE DEF n
    <2> QED BY <1>1, <1>2, NetLinesFit
<1>4. s.gross[l] \in Nat
    BY <1>1, <1>2
<1> QED
    BY <1>2, <1>3, <1>4

\* No more of a line is inspected than was sold.
LEMMA InspectedIsSold ==
    ASSUME NEW i \in CaseItems, NEW l \in Lines, NEW q \in Nat,
           \A c \in Cases : CountsFit(i[c][l]), Across(i, l, "authorized") <= q
    PROVE  Across(i, l, "inspected") <= q
<1>1. "inspected" \in Fields /\ "authorized" \in Fields
    BY DEF Fields
<1>2. \A c \in Cases : i[c][l]["inspected"] <= i[c][l]["authorized"]
    <2> SUFFICES ASSUME NEW c \in Cases
                 PROVE  i[c][l].inspected <= i[c][l].authorized
        OBVIOUS
    <2>1. i[c][l] \in Quantities /\ CountsFit(i[c][l])
        BY DEF CaseItems
    <2> QED BY <2>1, QuantityFields DEF CountsFit
<1>3. Across(i, l, "inspected") <= Across(i, l, "authorized")
    BY <1>1, <1>2, AcrossGrows
<1>4. Across(i, l, "inspected") \in Nat /\ Across(i, l, "authorized") \in Nat
    BY <1>1, AcrossIs
<1> QED
    BY <1>3, <1>4

\* What the completed cases left of a line.
LEMMA LeftsOfLine ==
    ASSUME NEW s \in Sales, NEW l \in Lines, NEW order \in Seq(Cases),
           \A i, j \in 1..Len(order) : order[i] = order[j] => i = j,
           NEW its \in CaseItems, Across(its, l, "inspected") <= s.quantity[l],
           NEW f, Lefts(f, StartOf(s, l), order, its, l, Len(order))
    PROVE  /\ \A i \in 0..Len(order) :
                 /\ f[i].units = s.quantity[l]
                       - SumFunctionOnSet([c \in Cases |-> its[c][l]["inspected"]],
                                          Prior(order, i))
                 /\ f[i].units \in Nat /\ f[i].cents \in Nat
                 /\ f[i].units = 0 => f[i].cents = 0
           /\ \A i \in 1..Len(order) : f[i - 1].cents - f[i].cents \in Nat
           /\ f[0].cents = NetLines(s.gross, s.target)[l]
<1> DEFINE back == [c \in Cases |-> its[c][l]["inspected"]]
           q == s.quantity[l]
           net == NetLines(s.gross, s.target)[l]
           k == Len(order)
<1>1. k \in Nat /\ \A i \in 1..k : order[i] \in Cases
    OBVIOUS
<1>2. q \in Nat /\ net \in Nat /\ (q = 0 => net = 0)
    BY StartFits
<1>3. "inspected" \in Fields
    BY DEF Fields
<1>4. \A c \in Cases : back[c] = its[c][l].inspected /\ back[c] \in Nat
    BY <1>3, AcrossIs
<1>5. SumFunctionOnSet(back, Cases) <= q
    BY <1>3, AcrossIs
<1>6. Lefts(f, [units |-> q, cents |-> net], order, its, l, k)
    BY DEF StartOf
<1>7. f[0].cents = net
    <2> HIDE DEF q, net, k
    <2> QED BY <1>1, <1>6 DEF Lefts
<1>8. \A i, j \in 1..k : order[i] = order[j] => i = j
    OBVIOUS
<1> HIDE DEF back, q, net, k
<1>9. /\ \A i \in 0..k : /\ f[i].units = q - SumFunctionOnSet(back, Prior(order, i))
                         /\ f[i].units \in Nat /\ f[i].cents \in Nat
                         /\ f[i].units = 0 => f[i].cents = 0
      /\ \A i \in 1..k : f[i - 1].cents - f[i].cents \in Nat
    BY <1>1, <1>2, <1>4, <1>5, <1>6, <1>8, LeftsFit, CasesAssumption
<1> QED
    BY <1>7, <1>9 DEF back, q, net, k

LEMMA MoneyStays ==
    ASSUME GoodsTypes, MoneyInv, UNCHANGED <<sale, defective, evidence, completed, payload>>,
           \A c \in Cases, l \in Lines : item'[c][l].inspected = item[c][l].inspected,
           \A c \in Cases : status'[c] = "inspected" <=> status[c] = "inspected"
    PROVE  MoneyInv'
<1>1. CompletedFit'
    BY DEF MoneyInv, CompletedFit
<1>2. EvidenceFits'
    BY DEF MoneyInv, EvidenceFits
<1>3. ASSUME NEW l \in Lines, NEW f,
             Lefts(f, StartOf(sale, l), completed, item, l, Len(completed))
      PROVE  Lefts(f, StartOf(sale, l), completed, item', l, Len(completed))
    <2>1. \A i \in 1..Len(completed) : completed[i] \in Cases
        BY DEF GoodsTypes
    <2>2. \A i \in 1..Len(completed) :
             item'[completed[i]][l].inspected = item[completed[i]][l].inspected
        BY <2>1
    <2>3. Len(completed) \in Nat
        BY DEF GoodsTypes
    <2> DEFINE k == Len(completed)
               g == [i \in 0..k |-> IF i = 0 THEN StartOf(sale, l)
                                    ELSE After(f[i - 1], item[completed[i]][l].inspected)]
               h == [i \in 0..k |-> IF i = 0 THEN StartOf(sale, l)
                                    ELSE After(f[i - 1], item'[completed[i]][l].inspected)]
    <2>4. g = h
        BY <2>2, <2>3
    <2>5. f = g
        BY <1>3 DEF Lefts
    <2> QED
        BY <2>4, <2>5 DEF Lefts
<1>4. PayloadFits'
    BY <1>3 DEF MoneyInv, PayloadFits
<1> QED
    BY <1>1, <1>2, <1>4 DEF MoneyInv

LEMMA AuthorizeMoney ==
    ASSUME GoodsInv, MoneyInv, NEW c \in Cases, NEW l \in Lines, NEW n \in Nat, n > 0,
           Authorize(c, l, n)
    PROVE  MoneyInv'
<1>1. GoodsTypes /\ CasesFit
    BY DEF GoodsInv
<1>2. /\ UNCHANGED <<sale, defective, evidence, completed, payload>>
      /\ status' = [status EXCEPT ![c] = Refreshed(c, item')]
      /\ status[c] \in {"none", "authorized"}
    BY DEF Authorize, Orders
<1>3. /\ ItemGoes(c, l)
      /\ item'[c][l] = [item[c][l] EXCEPT !.authorized = n]
    BY <1>1, AuthorizeItem
<1>4. item[c][l] \in Quantities
    BY <1>1 DEF GoodsTypes
<1>5. /\ item'[c][l].authorized = n
      /\ item'[c][l].inspected = item[c][l].inspected
    BY <1>3, <1>4 DEF Quantities
<1>6. \A x \in Cases, y \in Lines : item'[x][y].inspected = item[x][y].inspected
    BY <1>3, <1>5 DEF ItemGoes
<1>7. status'[c] # "inspected"
    <2>1. StageFits(status'[c], item'[c][l])
        BY <1>1, AuthorizeFits DEF CasesFit
    <2>2. item[c][l].inspected = 0
        <3>1. CountsFit(item[c][l]) /\ StageFits(status[c], item[c][l])
            BY <1>1 DEF CasesFit
        <3> QED BY <1>2, <1>4, <3>1, QuantityFields DEF CountsFit, StageFits
    <2> QED
        BY <1>5, <2>1, <2>2 DEF StageFits
<1>8. \A x \in Cases : status'[x] = "inspected" <=> status[x] = "inspected"
    BY <1>1, <1>2, <1>7 DEF GoodsTypes
<1> QED
    BY <1>1, <1>2, <1>6, <1>8, MoneyStays

LEMMA ReceiveMoney ==
    ASSUME GoodsInv, MoneyInv, NEW c \in Cases, NEW l \in Lines, NEW n \in Nat, n > 0,
           Receive(c, l, n)
    PROVE  MoneyInv'
<1>1. GoodsTypes /\ CasesFit
    BY DEF GoodsInv
<1>2. /\ UNCHANGED <<sale, defective, evidence, completed, payload>>
      /\ status' = [status EXCEPT ![c] = Refreshed(c, item')]
      /\ item[c][l].received + n <= item[c][l].authorized
    BY DEF Receive, Orders
<1>3. /\ ItemGoes(c, l)
      /\ item'[c][l] = [item[c][l] EXCEPT !.received = item[c][l].received + n]
    BY <1>1, ReceiveItem
<1>4. item[c][l] \in Quantities
    BY <1>1 DEF GoodsTypes
<1>5. /\ item'[c][l].authorized = item[c][l].authorized
      /\ item'[c][l].inspected = item[c][l].inspected
    BY <1>3, <1>4 DEF Quantities
<1>6. \A x \in Cases, y \in Lines : item'[x][y].inspected = item[x][y].inspected
    BY <1>3, <1>5 DEF ItemGoes
<1>7. status'[c] # "inspected" /\ status[c] = "in_transit"
    <2>1. StageFits(status'[c], item'[c][l]) /\ status[c] = "in_transit"
        BY <1>1, ReceiveFits DEF CasesFit
    <2>2. item[c][l].inspected < item[c][l].authorized
        <3>1. CountsFit(item[c][l])
            BY <1>1 DEF CasesFit
        <3> QED BY <1>2, <1>4, <3>1, QuantityFields DEF CountsFit
    <2>3. item[c][l].inspected # item[c][l].authorized
        BY <1>4, <2>2, QuantityFields
    <2> QED
        BY <1>5, <2>1, <2>3 DEF StageFits
<1>8. \A x \in Cases : status'[x] = "inspected" <=> status[x] = "inspected"
    BY <1>1, <1>2, <1>7 DEF GoodsTypes
<1> QED
    BY <1>1, <1>2, <1>6, <1>8, MoneyStays

LEMMA ResolveMoney ==
    ASSUME GoodsInv, MoneyInv, NEW c \in Cases, NEW l \in Lines, NEW n \in Nat,
           NEW d \in Targets, NEW m \in Moves, ResolveQuarantine(c, l, n, d, m)
    PROVE  MoneyInv'
<1>1. GoodsTypes
    BY DEF GoodsInv
<1>2. UNCHANGED <<sale, defective, evidence, completed, payload, status>>
    BY DEF ResolveQuarantine, Orders
<1>3. ItemGoes(c, l) /\ item'[c][l].inspected = item[c][l].inspected
    BY <1>1, ResolveItem
<1>4. \A x \in Cases, y \in Lines : item'[x][y].inspected = item[x][y].inspected
    BY <1>3 DEF ItemGoes
<1> QED
    BY <1>1, <1>2, <1>4, MoneyStays

\* An inspection that leaves the case open.
LEMMA InspectOpen ==
    ASSUME GoodsInv, MoneyInv, NEW c \in Cases, NEW l \in Lines, NEW n \in Nat, n > 0,
           NEW d \in Dispositions, Inspect(c, l, n, d), status'[c] # "inspected"
    PROVE  CompletedFit' /\ PayloadFits'
<1>1. GoodsTypes /\ CasesFit /\ CompletedFit /\ PayloadFits
    BY DEF GoodsInv, MoneyInv
<1>2. /\ UNCHANGED <<sale, defective, completed, payload>>
      /\ status' = [status EXCEPT ![c] = Refreshed(c, item')]
    BY DEF Inspect, Orders
<1>3. status[c] = "received"
    BY <1>1, InspectFits
<1>4. ItemGoes(c, l)
    BY <1>1, InspectItem
<1>5. CompletedFit'
    <2>1. \A x \in Cases : status'[x] = "inspected" <=> status[x] = "inspected"
        BY <1>1, <1>2, <1>3 DEF GoodsTypes
    <2> QED
        BY <1>1, <1>2, <2>1 DEF CompletedFit
<1>6. \A i \in 1..Len(completed) : completed[i] \in Cases /\ completed[i] # c
    BY <1>1, <1>3 DEF GoodsTypes, CompletedFit
<1>7. ASSUME NEW y \in Lines, NEW f,
             Lefts(f, StartOf(sale, y), completed, item, y, Len(completed))
      PROVE  Lefts(f, StartOf(sale, y), completed, item', y, Len(completed))
    <2>1. \A i \in 1..Len(completed) :
             item'[completed[i]][y].inspected = item[completed[i]][y].inspected
        BY <1>4, <1>6 DEF ItemGoes
    <2>2. Len(completed) \in Nat
        BY <1>1 DEF GoodsTypes
    <2> DEFINE k == Len(completed)
               g == [i \in 0..k |-> IF i = 0 THEN StartOf(sale, y)
                                    ELSE After(f[i - 1], item[completed[i]][y].inspected)]
               h == [i \in 0..k |-> IF i = 0 THEN StartOf(sale, y)
                                    ELSE After(f[i - 1], item'[completed[i]][y].inspected)]
    <2>3. g = h
        BY <2>1, <2>2
    <2>4. f = g
        BY <1>7 DEF Lefts
    <2> QED
        BY <2>3, <2>4 DEF Lefts
<1>8. PayloadFits'
    BY <1>1, <1>2, <1>7 DEF PayloadFits
<1> QED
    BY <1>5, <1>8

\* An inspection that ends the case's: it shares after those before it.
LEMMA InspectLast ==
    ASSUME GoodsInv, MoneyInv, GoodsInv', NEW c \in Cases, NEW l \in Lines,
           NEW n \in Nat, n > 0, NEW d \in Dispositions, Inspect(c, l, n, d),
           status'[c] = "inspected"
    PROVE  CompletedFit' /\ PayloadFits'
<1> DEFINE k == Len(completed)
           allocated == Allocation(completed', item', c)
<1>1. GoodsTypes /\ CasesFit /\ CompletedFit /\ PayloadFits
    BY DEF GoodsInv, MoneyInv
<1>2. /\ UNCHANGED <<sale, defective>>
      /\ status' = [status EXCEPT ![c] = Refreshed(c, item')]
      /\ completed' = Append(completed, c)
      /\ payload' = [payload EXCEPT ![c] = IF defective THEN NothingGiven ELSE allocated]
    BY DEF Inspect, Orders, EnqueueReturns
<1>3. status[c] = "received" /\ ItemGoes(c, l)
    BY <1>1, InspectFits, InspectItem
<1>4. /\ completed \in Seq(Cases) /\ k \in Nat
      /\ completed' \in Seq(Cases) /\ Len(completed') = k + 1
      /\ completed'[k + 1] = c
      /\ \A i \in 1..k : /\ completed'[i] = completed[i]
                         /\ completed[i] \in Cases /\ completed[i] # c
    <2>1. completed \in Seq(Cases) /\ k \in Nat /\ \A i \in 1..k : completed[i] \in Cases
        BY <1>1 DEF GoodsTypes
    <2>2. /\ completed' \in Seq(Cases) /\ Len(completed') = k + 1
          /\ completed'[k + 1] = c /\ \A i \in 1..k : completed'[i] = completed[i]
        BY <1>2, <2>1
    <2>3. \A i \in 1..k : completed[i] # c
        BY <1>1, <1>3 DEF CompletedFit
    <2> QED
        BY <2>1, <2>2, <2>3
<1>5. \A i, j \in 1..(k + 1) : completed'[i] = completed'[j] => i = j
    <2> SUFFICES ASSUME NEW i \in 1..(k + 1), NEW j \in 1..(k + 1),
                        completed'[i] = completed'[j]
                 PROVE  i = j
        OBVIOUS
    <2>1. (i \in 1..k \/ i = k + 1) /\ (j \in 1..k \/ j = k + 1)
        BY <1>4
    <2> HIDE DEF k
    <2>2. CASE i \in 1..k /\ j \in 1..k
        BY <1>1, <1>4, <2>2 DEF CompletedFit, k
    <2> QED
        BY <1>4, <2>1, <2>2
<1>6. CompletedFit'
    <2> HIDE DEF k
    <2>1. ASSUME NEW x \in Cases
          PROVE  status'[x] = "inspected" <=> \E i \in 1..(k + 1) : completed'[i] = x
        <3>1. CASE x = c
            <4>1. k + 1 \in 1..(k + 1)
                BY <1>4
            <4> QED BY <1>4, <3>1, <4>1
        <3>2. CASE x # c
            <4>1. status'[x] = status[x]
                BY <1>1, <1>2, <3>2 DEF GoodsTypes
            <4>2. status[x] = "inspected" <=> \E i \in 1..k : completed[i] = x
                BY <1>1 DEF CompletedFit, k
            <4>3. (\E i \in 1..(k + 1) : completed'[i] = x) <=> \E i \in 1..k : completed[i] = x
                BY <1>4, <3>2
            <4> QED BY <4>1, <4>2, <4>3
        <3> QED BY <3>1, <3>2
    <2> QED
        BY <1>4, <1>5, <2>1 DEF CompletedFit
\* What the line left, in the new order, and what c took of it.
<1>7. ASSUME NEW y \in Lines
      PROVE  LET g == LineLeft(completed', item', y)
             IN /\ Lefts(g, StartOf(sale, y), completed', item', y, k + 1)
                /\ \A i \in 1..(k + 1) : g[i - 1].cents - g[i].cents \in Nat
                /\ allocated[y] = g[k].cents - g[k + 1].cents
    <2> DEFINE g == LineLeft(completed', item', y)
    <2>1. Lefts(g, StartOf(sale, y), completed', item', y, k + 1)
        <3>1. Start(y) = StartOf(sale, y)
            BY DEF Start, StartOf
        <3>2. Len(completed') \in Nat
            BY <1>4
        <3>3. Lefts(g, Start(y), completed', item', y, Len(completed'))
            BY <3>2, LineLeftIs
        <3> HIDE DEF g
        <3> QED BY <1>4, <3>1, <3>3
    <2>2. \A i \in 1..(k + 1) : g[i - 1].cents - g[i].cents \in Nat
        <3>1. item' \in CaseItems
            BY <1>3 DEF ItemGoes, CaseItems
        <3>2. sale \in Sales
            BY <1>1 DEF GoodsTypes
        <3>3. \A x \in Cases : CountsFit(item'[x][y])
            BY DEF GoodsInv, CasesFit
        <3>4. Across(item', y, "authorized") <= sale.quantity[y]
            BY <1>2 DEF GoodsInv, RestockFits
        <3>5. sale.quantity[y] \in Nat
            BY <3>2, StartFits
        <3>6. Across(item', y, "inspected") <= sale.quantity[y]
            BY <3>1, <3>3, <3>4, <3>5, InspectedIsSold
        <3>7. completed' \in Seq(Cases) /\ Len(completed') = k + 1
            BY <1>4
        <3> HIDE DEF g, k
        <3>8. Lefts(g, StartOf(sale, y), completed', item', y, Len(completed'))
            BY <2>1, <3>7
        <3>9. \A i, j \in 1..Len(completed') : completed'[i] = completed'[j] => i = j
            BY <1>5, <3>7
        <3>10. \A i \in 1..Len(completed') : g[i - 1].cents - g[i].cents \in Nat
            BY <3>1, <3>2, <3>6, <3>7, <3>8, <3>9, LeftsOfLine
        <3> QED BY <3>7, <3>10
    <2>3. allocated[y] = g[k].cents - g[k + 1].cents
        <3> DEFINE p == CHOOSE i \in DOMAIN completed' : completed'[i] = c
        <3>1. k + 1 \in DOMAIN completed' /\ DOMAIN completed' = 1..(k + 1)
            BY <1>4
        <3>2. p \in 1..(k + 1) /\ completed'[p] = c
            BY <1>4, <3>1
        <3>3. p = k + 1
            <4> HIDE DEF p, k
            <4>1. k + 1 \in 1..(k + 1)
                BY <3>1
            <4> QED BY <1>4, <1>5, <3>2, <4>1
        <3>4. allocated[y] = g[p - 1].cents - g[p].cents
            BY DEF Allocation
        <3> HIDE DEF p, g, allocated
        <3>5. (k + 1) - 1 = k
            BY <1>4
        <3> QED BY <3>3, <3>4, <3>5
    <2> QED
        BY <2>1, <2>2, <2>3
<1>8. payload' \in [Cases -> [Lines -> Nat]]
    <2>1. allocated \in [Lines -> Nat]
        <3>1. \A y \in Lines : allocated[y] \in Nat
            <4> SUFFICES ASSUME NEW y \in Lines PROVE allocated[y] \in Nat
                OBVIOUS
            <4> DEFINE g == LineLeft(completed', item', y)
            <4>1. /\ \A i \in 1..(k + 1) : g[i - 1].cents - g[i].cents \in Nat
                  /\ allocated[y] = g[k].cents - g[k + 1].cents
                BY <1>7
            <4>2. k + 1 \in 1..(k + 1) /\ (k + 1) - 1 = k
                BY <1>4
            <4> HIDE DEF g, k, allocated
            <4> QED BY <4>1, <4>2
        <3>2. allocated = [y \in Lines |-> allocated[y]]
            BY DEF Allocation
        <3> HIDE DEF allocated
        <3> QED BY <3>1, <3>2
    <2>2. NothingGiven \in [Lines -> Nat]
        BY DEF NothingGiven
    <2> HIDE DEF allocated
    <2> QED
        BY <1>1, <1>2, <2>1, <2>2 DEF PayloadFits
<1>9. ASSUME ~defective, NEW y \in Lines
      PROVE  \E f : /\ Lefts(f, StartOf(sale, y), completed', item', y, k + 1)
                    /\ \A i \in 1..(k + 1) :
                          payload'[completed'[i]][y] = f[i - 1].cents - f[i].cents
    <2> DEFINE g == LineLeft(completed', item', y)
    <2>1. /\ Lefts(g, StartOf(sale, y), completed', item', y, k + 1)
          /\ allocated[y] = g[k].cents - g[k + 1].cents
        BY <1>7
    <2>2. PICK f : /\ Lefts(f, StartOf(sale, y), completed, item, y, k)
                   /\ \A i \in 1..k : payload[completed[i]][y] = f[i - 1].cents - f[i].cents
        BY <1>1, <1>9 DEF PayloadFits
    <2> HIDE DEF g, k, allocated
    <2>3. \A i \in 0..k : f[i] = g[i]
        <3>1. \A i \in 1..k : item[completed[i]][y].inspected
                                 = item'[completed'[i]][y].inspected
            BY <1>3, <1>4 DEF ItemGoes
        <3>2. k \in Nat /\ k + 1 \in Nat /\ k <= k + 1
            BY <1>4
        <3>3. Lefts(g, StartOf(sale, y), completed', item', y, k + 1)
            BY <2>1
        <3>4. Lefts(f, StartOf(sale, y), completed, item, y, k)
            BY <2>2
        <3> QED BY <3>1, <3>2, <3>3, <3>4, LeftsCoincide
    <2>4. ASSUME NEW i \in 1..(k + 1)
          PROVE  payload'[completed'[i]][y] = g[i - 1].cents - g[i].cents
        <3>1. CASE i = k + 1
            <4>1. payload'[c] = allocated
                BY <1>1, <1>2, <1>9 DEF PayloadFits
            <4> QED BY <1>4, <2>1, <3>1, <4>1
        <3>2. CASE i # k + 1
            <4>1. i \in 1..k /\ i \in 0..k /\ i - 1 \in 0..k
                BY <1>4, <3>2
            <4>2. payload'[completed[i]] = payload[completed[i]]
                BY <1>1, <1>2, <1>4, <4>1 DEF PayloadFits
            <4> QED BY <1>4, <2>2, <2>3, <4>1, <4>2
        <3> QED
            BY <3>1, <3>2
    <2> QED
        BY <2>1, <2>4
<1> HIDE DEF k
<1>10. PayloadFits'
    BY <1>2, <1>4, <1>8, <1>9 DEF PayloadFits
<1> QED
    BY <1>6, <1>10

LEMMA InspectMoney ==
    ASSUME GoodsInv, MoneyInv, GoodsInv', NEW c \in Cases, NEW l \in Lines,
           NEW n \in Nat, n > 0, NEW d \in Dispositions, Inspect(c, l, n, d)
    PROVE  MoneyInv'
<1>1. CompletedFit' /\ PayloadFits'
    BY InspectOpen, InspectLast
<1>2. GoodsTypes
    BY DEF GoodsInv
<1>3. EvidenceFits'
    <2> SUFFICES ASSUME NEW x \in Cases, NEW y \in Lines
                 PROVE  evidence'[x][y]["resalable"] + evidence'[x][y]["damaged"]
                           + evidence'[x][y]["quarantine"] = item'[x][y].inspected
        BY DEF EvidenceFits
    <2> DEFINE e(z) == evidence[x][y][z]
    <2>1. e("resalable") + e("damaged") + e("quarantine") = item[x][y].inspected
        BY DEF MoneyInv, EvidenceFits
    <2>2. e("resalable") \in Nat /\ e("damaged") \in Nat /\ e("quarantine") \in Nat
        BY <1>2 DEF GoodsTypes, Counts, Dispositions
    <2>3. \A z \in Dispositions :
             evidence'[x][y][z] = e(z) + (IF x = c /\ y = l /\ z = d THEN n ELSE 0)
        BY <1>2, EvidenceGrows
    <2>4. ItemGoes(c, l) /\ item'[c][l].inspected = item[c][l].inspected + n
        BY <1>2, InspectItem
    <2>5. d = "resalable" \/ d = "damaged" \/ d = "quarantine"
        BY DEF Dispositions
    <2>6. /\ evidence'[x][y]["resalable"] =
                e("resalable") + (IF x = c /\ y = l /\ "resalable" = d THEN n ELSE 0)
          /\ evidence'[x][y]["damaged"] =
                e("damaged") + (IF x = c /\ y = l /\ "damaged" = d THEN n ELSE 0)
          /\ evidence'[x][y]["quarantine"] =
                e("quarantine") + (IF x = c /\ y = l /\ "quarantine" = d THEN n ELSE 0)
        BY <2>3 DEF Dispositions
    <2> HIDE DEF e
    <2>7. CASE x = c /\ y = l
        BY <2>1, <2>2, <2>4, <2>5, <2>6, <2>7
    <2>8. CASE x # c \/ y # l
        <3>1. item'[x][y] = item[x][y]
            BY <2>4, <2>8 DEF ItemGoes
        <3> QED BY <2>1, <2>2, <2>6, <2>8, <3>1
    <2> QED
        BY <2>7, <2>8
<1> QED
    BY <1>1, <1>3 DEF MoneyInv

LEMMA MoneyStart ==
    ASSUME GoodsInit
    PROVE  MoneyInv
<1>1. CompletedFit
    BY DEF GoodsInit, CompletedFit
<1>2. EvidenceFits
    BY DEF GoodsInit, EvidenceFits, NoCounts, Dispositions
<1>3. PayloadFits
    <2>1. payload \in [Cases -> [Lines -> Nat]]
        BY DEF GoodsInit, NothingGiven
    <2>2. ASSUME NEW l \in Lines
          PROVE  \E f : /\ Lefts(f, StartOf(sale, l), completed, item, l, Len(completed))
                        /\ \A i \in 1..Len(completed) :
                              payload[completed[i]][l] = f[i - 1].cents - f[i].cents
        <3>1. Len(completed) = 0
            BY DEF GoodsInit
        <3>2. PICK f : Lefts(f, StartOf(sale, l), completed, item, l, 0)
            BY LeftsExist
        <3> QED
            BY <3>1, <3>2
    <2> QED
        BY <2>1, <2>2 DEF PayloadFits
<1> QED
    BY <1>1, <1>2, <1>3 DEF MoneyInv

LEMMA MoneyStep ==
    ASSUME GoodsInv, MoneyInv, GoodsInv', [GoodsNext]_goodsVars
    PROVE  MoneyInv'
<1>1. GoodsTypes
    BY DEF GoodsInv
<1>2. ASSUME UNCHANGED <<sale, defective, evidence, completed, payload, item, status>>
      PROVE  MoneyInv'
    BY <1>1, <1>2, MoneyStays
<1>3. ASSUME NEW c \in Cases, Request(c)
      PROVE  MoneyInv'
    <2>1. CASE MarkInTransit(c)
        <3>1. /\ UNCHANGED <<sale, defective, evidence, completed, payload, item>>
              /\ status' = [status EXCEPT ![c] = "in_transit"]
              /\ status[c] = "authorized"
            BY <2>1 DEF MarkInTransit, Orders
        <3>2. \A x \in Cases : status'[x] = "inspected" <=> status[x] = "inspected"
            BY <1>1, <3>1 DEF GoodsTypes
        <3> QED BY <1>1, <3>1, <3>2, MoneyStays
    <2>2. ASSUME NEW l \in Lines, NEW n \in Units, Authorize(c, l, n)
          PROVE  MoneyInv'
        BY <1>1, <2>2, UnitsType, AuthorizeMoney
    <2>3. ASSUME NEW l \in Lines, NEW n \in Units, Receive(c, l, n)
          PROVE  MoneyInv'
        BY <1>1, <2>3, UnitsType, ReceiveMoney
    <2>4. ASSUME NEW l \in Lines, NEW n \in Units, NEW d \in Dispositions,
                 Inspect(c, l, n, d)
          PROVE  MoneyInv'
        BY <1>1, <2>4, UnitsType, InspectMoney
    <2>5. ASSUME NEW l \in Lines, NEW n \in Units, NEW d \in Targets, NEW m \in Moves,
                 ResolveQuarantine(c, l, n, d, m)
          PROVE  MoneyInv'
        BY <1>1, <2>5, UnitsType, ResolveMoney
    <2> QED
        BY <1>3, <2>1, <2>2, <2>3, <2>4, <2>5 DEF Request
<1>4. ASSUME NEW c \in Cases, NEW d \in Dispositions, ExportReturn(c, d)
      PROVE  MoneyInv'
    BY <1>2, <1>4 DEF ExportReturn, Warehouse
<1>5. ASSUME NEW m \in Moves, ExportMove(m)
      PROVE  MoneyInv'
    BY <1>2, <1>5 DEF ExportMove, Warehouse
<1>6. CASE DemandSent \/ UNCHANGED goodsVars
    BY <1>2, <1>6 DEF DemandSent, Warehouse, goodsVars
<1> QED
    BY <1>3, <1>4, <1>5, <1>6 DEF GoodsNext, Worker

THEOREM GoodsMoneyInvariance == GoodsSpec => [](GoodsInv /\ MoneyInv)
<1>1. GoodsInit => GoodsInv /\ MoneyInv
    BY GoodsStart, MoneyStart
<1>2. GoodsInv /\ MoneyInv /\ [GoodsNext]_goodsVars => (GoodsInv /\ MoneyInv)'
    <2> SUFFICES ASSUME GoodsInv, MoneyInv, [GoodsNext]_goodsVars
                 PROVE  GoodsInv' /\ MoneyInv'
        OBVIOUS
    <2>1. GoodsInv'
        BY GoodsStep
    <2> QED
        BY <2>1, MoneyStep
<1> QED
    BY <1>1, <1>2, PTL DEF GoodsSpec

\* Every variable keeps its type: no count, and no share of the money, ever
\* goes below zero.
THEOREM GoodsTypeCorrect == GoodsSpec => []GoodsTypeOK
<1>1. GoodsInv /\ MoneyInv => GoodsTypeOK
    BY DEF GoodsInv, GoodsTypes, MoneyInv, PayloadFits, GoodsTypeOK
<1> QED
    BY <1>1, GoodsMoneyInvariance, PTL

\* What line l left after all completed cases, and what these were given of it.
LEMMA LineDivided ==
    ASSUME GoodsInv, MoneyInv, ~defective, NEW l \in Lines
    PROVE  LET given == SumFunction([c \in ToSet(completed) |-> payload[c][l]])
               net == NetLines(sale.gross, sale.target)[l]
           IN /\ given <= net
              /\ SumFunction([c \in ToSet(completed) |-> item[c][l].inspected])
                    = sale.quantity[l] => given = net
              /\ \A i \in 1..Len(completed) :
                    payload[completed[i]][l] = LineLeft(completed, item, l)[i - 1].cents
                                               - LineLeft(completed, item, l)[i].cents
<1> DEFINE k == Len(completed)
           q == sale.quantity[l]
           net == NetLines(sale.gross, sale.target)[l]
           priced == ToSet(completed)
           back == [c \in Cases |-> item[c][l]["inspected"]]
           p == [c \in Cases |-> payload[c][l]]
<1>1. /\ completed \in Seq(Cases) /\ k \in Nat /\ \A i \in 1..k : completed[i] \in Cases
      /\ sale \in Sales /\ item \in CaseItems
      /\ payload \in [Cases -> [Lines -> Nat]]
      /\ \A i, j \in 1..k : completed[i] = completed[j] => i = j
    <2>1. /\ completed \in Seq(Cases) /\ sale \in Sales
          /\ item \in [Cases -> [Lines -> Quantities]]
        BY DEF GoodsInv, GoodsTypes
    <2>2. /\ payload \in [Cases -> [Lines -> Nat]]
          /\ \A i, j \in 1..Len(completed) : completed[i] = completed[j] => i = j
        BY DEF MoneyInv, PayloadFits, CompletedFit
    <2>3. Len(completed) \in Nat /\ \A i \in 1..Len(completed) : completed[i] \in Cases
        BY <2>1
    <2> QED
        BY <2>1, <2>2, <2>3 DEF CaseItems
<1>2. q \in Nat /\ net \in Nat
    BY <1>1, StartFits
<1>3. Across(item, l, "inspected") <= q
    <2>1. \A c \in Cases : CountsFit(item[c][l])
        BY DEF GoodsInv, CasesFit
    <2>2. Across(item, l, "authorized") <= q
        BY DEF GoodsInv, RestockFits
    <2> HIDE DEF q
    <2> QED BY <1>1, <1>2, <2>1, <2>2, InspectedIsSold
<1>4. PICK f : /\ Lefts(f, StartOf(sale, l), completed, item, l, k)
               /\ \A i \in 1..k : payload[completed[i]][l] = f[i - 1].cents - f[i].cents
    BY DEF MoneyInv, PayloadFits
<1>5. /\ \A i \in 0..k : /\ f[i].units = q - SumFunctionOnSet(back, Prior(completed, i))
                         /\ f[i].units \in Nat /\ f[i].cents \in Nat
                         /\ f[i].units = 0 => f[i].cents = 0
      /\ f[0].cents = net
    <2> DEFINE N == Len(completed)
    <2>1. /\ sale \in Sales /\ item \in CaseItems /\ completed \in Seq(Cases)
          /\ \A i, j \in 1..N : completed[i] = completed[j] => i = j
          /\ Across(item, l, "inspected") <= sale.quantity[l]
          /\ Lefts(f, StartOf(sale, l), completed, item, l, N)
        BY <1>1, <1>3, <1>4
    <2> HIDE DEF k, q, net, back, N
    <2>2. N = k
        BY DEF N, k
    <2>3. LET b == [c \in Cases |-> item[c][l]["inspected"]]
          IN /\ \A i \in 0..N :
                   /\ f[i].units = sale.quantity[l] - SumFunctionOnSet(b, Prior(completed, i))
                   /\ f[i].units \in Nat /\ f[i].cents \in Nat
                   /\ f[i].units = 0 => f[i].cents = 0
             /\ f[0].cents = NetLines(sale.gross, sale.target)[l]
        BY <2>1, LeftsOfLine DEF N
    <2> QED
        BY <2>2, <2>3 DEF q, net, back
<1>6. priced = Prior(completed, k) /\ priced \subseteq Cases
    BY <1>1 DEF ToSet, Prior
<1>7. \A c \in Cases : p[c] \in Int /\ back[c] \in Int
    <2>1. "inspected" \in Fields
        BY DEF Fields
    <2>2. \A c \in Cases : item[c][l]["inspected"] \in Nat
        BY <1>1, <2>1, AcrossIs
    <2> QED
        BY <1>1, <2>2
<1>8. SumFunctionOnSet(p, priced) = net - f[k].cents
    <2> DEFINE left == [i \in 0..k |-> f[i].cents]
    <2>1. k \in Nat /\ k \in 0..k /\ 0 \in 0..k
        BY <1>1
    <2>2. \A i \in 1..k : i \in 0..k /\ i - 1 \in 0..k
        BY <2>1
    <2>3. \A i \in 1..k : p[completed[i]] = f[i - 1].cents - f[i].cents
        BY <1>1, <1>4
    <2>4. /\ \A i \in 1..k : completed[i] \in Cases
          /\ \A i, j \in 1..k : completed[i] = completed[j] => i = j
        BY <1>1
    <2> HIDE DEF p, q, k, net, back, priced
    <2>5. \A i \in 0..k : left[i] = f[i].cents /\ left[i] \in Int
        BY <1>5
    <2> HIDE DEF left
    <2>6. Took(p, completed, left, Cases, k)
        <3>1. \A i \in 1..k : p[completed[i]] = left[i - 1] - left[i]
            BY <2>2, <2>3, <2>5
        <3> QED
            BY <1>7, <2>4, <2>5, <3>1 DEF Took
    <2>7. IsFiniteSet(Cases)
        BY CasesAssumption
    <2>8. SumFunctionOnSet(p, Prior(completed, k)) = left[0] - left[k]
        BY <2>1, <2>6, <2>7, GivenIsTaken
    <2> QED
        BY <1>5, <1>6, <2>1, <2>5, <2>8
<1>9. IsFiniteSet(priced)
    BY <1>6, FS_Subset, CasesAssumption
<1>10. SumFunction([c \in priced |-> payload[c][l]]) = SumFunctionOnSet(p, priced)
    <2> DEFINE g == [c \in priced |-> payload[c][l]]
    <2>1. SumFunction(g) = SumFunctionOnSet(g, priced)
        BY DEF SumFunction
    <2>2. \A c \in priced : g[c] \in Int /\ g[c] = p[c]
        BY <1>1, <1>6
    <2> HIDE DEF g, p, priced
    <2> QED BY <1>9, <2>1, <2>2, SumSame DEF g
<1>11. SumFunction([c \in priced |-> item[c][l].inspected]) = SumFunctionOnSet(back, priced)
    <2> DEFINE g == [c \in priced |-> item[c][l].inspected]
    <2>1. SumFunction(g) = SumFunctionOnSet(g, priced)
        BY DEF SumFunction
    <2>2. \A c \in priced : g[c] \in Int /\ g[c] = back[c]
        BY <1>6, <1>7
    <2> HIDE DEF g, back, priced
    <2> QED BY <1>9, <2>1, <2>2, SumSame DEF g
<1>12. /\ f[k].cents \in Nat
       /\ SumFunctionOnSet(back, priced) = q => f[k].cents = 0
    <2>1. k \in 0..k
        BY <1>1
    <2>2. /\ f[k].units = q - SumFunctionOnSet(back, priced)
          /\ f[k].cents \in Nat /\ (f[k].units = 0 => f[k].cents = 0)
        <3> HIDE DEF k, q, back, priced
        <3> QED BY <1>5, <1>6, <2>1
    <2> HIDE DEF k, q, back, priced
    <2> QED BY <1>2, <2>2
<1>13. \A i \in 1..k : payload[completed[i]][l] = LineLeft(completed, item, l)[i - 1].cents
                                                 - LineLeft(completed, item, l)[i].cents
    <2> DEFINE g == LineLeft(completed, item, l)
    <2>1. Lefts(g, StartOf(sale, l), completed, item, l, k)
        <3>1. Start(l) = StartOf(sale, l)
            BY DEF Start, StartOf
        <3>2. Lefts(g, Start(l), completed, item, l, k)
            BY <1>1, LineLeftIs
        <3> HIDE DEF g
        <3> QED BY <3>1, <3>2
    <2>2. k \in Nat
        BY <1>1
    <2> HIDE DEF g, k, q, net, priced, back, p
    <2>3. k <= k
        BY <2>2
    <2>4. Lefts(f, StartOf(sale, l), completed, item, l, k)
        BY <1>4
    <2>5. \A i \in 0..k : f[i] = g[i]
        BY <2>1, <2>2, <2>3, <2>4, LeftsCoincide
    <2>6. ASSUME NEW i \in 1..k
          PROVE  payload[completed[i]][l] = g[i - 1].cents - g[i].cents
        <3>1. i \in 0..k /\ i - 1 \in 0..k
            BY <2>2
        <3> QED
            BY <1>4, <2>5, <3>1
    <2> QED
        BY <2>6 DEF g
<1> HIDE DEF k, q, net, priced, back, p
<1> QED
    BY <1>2, <1>8, <1>10, <1>11, <1>12, <1>13 DEF k, q, net, priced

\* Whatever the order's prices and discounts, its cases divide each line's
\* money without a remainder, what one was given does not change when another
\* is completed, and its dispositions and the documents' whole prices divide
\* that exactly.
THEOREM AllocationIsExactAlways == GoodsSpec => []AllocationIsExact
<1>1. ASSUME GoodsInv, MoneyInv
      PROVE  AllocationIsExact
    <2> DEFINE priced == IF defective THEN {} ELSE ToSet(completed)
    <2>1. /\ completed \in Seq(Cases)
          /\ payload \in [Cases -> [Lines -> Nat]]
          /\ \A i, j \in 1..Len(completed) : completed[i] = completed[j] => i = j
        BY <1>1 DEF GoodsInv, GoodsTypes, MoneyInv, PayloadFits, CompletedFit
    <2>2. ASSUME NEW c \in priced
          PROVE  /\ payload[c] = Allocation(completed, item, c)
                 /\ c \in Cases
        <3> DEFINE i == CHOOSE j \in DOMAIN completed : completed[j] = c
        <3>1. ~defective /\ c \in ToSet(completed)
            BY <2>2
        <3>2. i \in 1..Len(completed) /\ completed[i] = c
            BY <2>1, <3>1 DEF ToSet
        <3>3. c \in Cases
            BY <2>1, <3>2
        <3>4. \A l \in Lines :
                 payload[c][l] = LineLeft(completed, item, l)[i - 1].cents
                                 - LineLeft(completed, item, l)[i].cents
            <4> HIDE DEF i
            <4> QED BY <1>1, <3>1, <3>2, LineDivided
        <3>5. Allocation(completed, item, c) =
                 [l \in Lines |-> LineLeft(completed, item, l)[i - 1].cents
                                  - LineLeft(completed, item, l)[i].cents]
            BY Zenon DEF Allocation
        <3> HIDE DEF i
        <3> QED
            BY <2>1, <3>3, <3>4, <3>5
    <2>3. ASSUME ~defective, NEW l \in Lines
          PROVE  LET given == SumFunction([c \in priced |-> payload[c][l]])
                     net == NetLines(sale.gross, sale.target)[l]
                 IN /\ given <= net
                    /\ SumFunction([c \in priced |-> item[c][l].inspected])
                          = sale.quantity[l] => given = net
        <3>1. priced = ToSet(completed)
            BY <2>3
        <3> HIDE DEF priced
        <3> QED BY <1>1, <2>3, <3>1, LineDivided
    <2>4. ASSUME NEW c \in priced, NEW l \in Lines, item[c][l].inspected > 0
          PROVE  LET split == SplitCents(evidence[c][l], payload[c][l])
                 IN /\ SumFunction(split) = payload[c][l]
                    /\ \A d \in Dispositions :
                          RenderedCents(evidence[c][l][d], split[d]) = split[d]
        <3> DEFINE counts == evidence[c][l]
                   cents == payload[c][l]
                   split == SplitCents(counts, cents)
        <3>1. c \in Cases
            BY <2>2
        <3>2. counts \in Counts /\ cents \in Nat
            BY <1>1, <2>1, <3>1 DEF GoodsInv, GoodsTypes
        <3>3. counts.resalable + counts.damaged + counts.quarantine > 0
            <4>1. counts["resalable"] + counts["damaged"] + counts["quarantine"]
                     = item[c][l].inspected
                BY <1>1, <3>1 DEF MoneyInv, EvidenceFits
            <4> QED BY <2>4, <4>1
        <3>4. /\ SumFunction(split) = cents
              /\ \A d \in Dispositions : split[d] \in Nat /\ (counts[d] = 0 => split[d] = 0)
            <4> HIDE DEF counts, cents
            <4> QED BY <3>2, <3>3, SplitIsExact
        <3>5. \A d \in Dispositions : RenderedCents(counts[d], split[d]) = split[d]
            <4>1. \A d \in Dispositions : counts[d] \in Nat
                BY <3>2 DEF Counts
            <4> HIDE DEF counts, cents, split
            <4> QED BY <3>4, <4>1, RenderingIsExact
        <3> QED
            BY <3>4, <3>5
    <2> HIDE DEF priced
    <2> QED
        BY <2>2, <2>3, <2>4, Zenon DEF AllocationIsExact, priced
<1> QED
    BY <1>1, GoodsMoneyInvariance, PTL

=============================================================================
