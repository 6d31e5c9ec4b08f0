--------------------------- MODULE InferenceProofs ----------------------------
(***************************************************************************)
(* Proofs about the two gates of a model call: AdmissionControl, for any   *)
(* requests, budget, queue bound and remote holders, and the               *)
(* CircuitBreaker of its endpoint, for any callers, thresholds and number  *)
(* of reconfigurations.  The two share no variable.                        *)
(***************************************************************************)
EXTENDS AdmissionControl, CircuitBreaker, SequenceTheorems, FiniteSetTheorems, TLAPS

USE ClassAssumption, HolderAssumption, BudgetAssumption

-------------------------------------------------------------------------------
(* The inductive invariant of the admission controller.                        *)

Once(s) == \A i, j \in 1..Len(s) : s[i] = s[j] => i = j

\* A request waits in its lane once, and no longer than until it is answered.
LanesFit ==
    /\ \A c \in Classes : Once(lane[c])
    /\ \A r \in Requests : InLane(r) => future[r] \notin {"granted", "rejected"}
    /\ \A r \in Requests : task[r] \in {"idle", "counting"} => future[r] = "pending"

Untouched(l) == l.stage = "none" /\ ~l.revoked /\ ~l.local /\ l.renewer # "live"

CountedLease(l) == l.stage = "held" /\ l.bound /\ ~l.revoked

\* Only the pump makes a lease, and a lease that counts is renewed.
LeasesFit ==
    \A r \in Requests :
        /\ future[r] # "granted" => Untouched(lease[r])
        /\ CountedLease(lease[r]) => lease[r].renewer = "live"

\* Who is being evicted is marked before its slot is given back.
VictimsAreRevoked ==
    \A e \in Requests :
        task[e] \in {"evicting", "halting"} =>
            victim[e] \in Requests /\ lease[victim[e]].revoked

\* The slot the pump acquired stays until it resumes; nobody else answers.
PumpFits ==
    pump.stage = "trying" =>
        /\ pump.waiter \in Requests
        /\ future[pump.waiter] # "granted"
        /\ pump.got = "slot" => pump.waiter \in store

StoreFits == IsFiniteSet(store) /\ (outages = 0 => up)

IInv ==
    /\ TypeOK /\ StoreFits
    /\ LanesFit /\ WaitersAreQueued
    /\ LeasesFit /\ VictimsAreRevoked /\ PumpFits
    /\ OneBudget

-------------------------------------------------------------------------------
(* Lanes.                                                                      *)

LEMMA AppendedLane ==
    ASSUME NEW S, NEW s \in Seq(S), NEW e \in S, Once(s), e \notin Range(s)
    PROVE  /\ Append(s, e) \in Seq(S) /\ Once(Append(s, e))
           /\ Range(Append(s, e)) = Range(s) \cup {e}
<1>1. /\ Append(s, e) \in Seq(S) /\ Len(Append(s, e)) = Len(s) + 1
      /\ \A i \in 1..Len(s) : Append(s, e)[i] = s[i]
      /\ Append(s, e)[Len(s) + 1] = e
      /\ Len(s) \in Nat
  BY AppendProperties, LenProperties
<1>2. \A i \in 1..Len(s) : s[i] # e
  BY LenProperties DEF Range
<1>3. Once(Append(s, e))
  BY <1>1, <1>2 DEF Once
<1>4. /\ DOMAIN s = 1..Len(s)
      /\ DOMAIN Append(s, e) = 1..(Len(s) + 1)
  BY <1>1, LenProperties
<1>5. Range(Append(s, e)) = Range(s) \cup {e}
  BY <1>1, <1>4 DEF Range
<1> QED BY <1>1, <1>3, <1>5

LEMMA HeadlessLane ==
    ASSUME NEW S, NEW s \in Seq(S), Once(s), s # <<>>
    PROVE  /\ Head(s) \in S /\ Head(s) \in Range(s)
           /\ Tail(s) \in Seq(S) /\ Once(Tail(s))
           /\ Range(Tail(s)) = Range(s) \ {Head(s)}
<1>1. /\ Head(s) \in S /\ Tail(s) \in Seq(S) /\ Len(Tail(s)) = Len(s) - 1
      /\ \A i \in 1..Len(Tail(s)) : Tail(s)[i] = s[i + 1]
      /\ Head(s) = s[1] /\ Len(s) \in Nat \ {0}
  BY HeadTailProperties, EmptySeq, LenProperties
<1>2. DOMAIN s = 1..Len(s) /\ DOMAIN Tail(s) = 1..(Len(s) - 1)
  BY <1>1, LenProperties
<1>3. Once(Tail(s))
  BY <1>1 DEF Once
<1>4. Head(s) \in Range(s)
  BY <1>1, <1>2 DEF Range
<1>5. ASSUME NEW x \in Range(Tail(s)) PROVE x \in Range(s) \ {Head(s)}
  <2>1. PICK i \in 1..(Len(s) - 1) : x = s[i + 1]
    BY <1>1, <1>2 DEF Range
  <2> QED BY <1>1, <1>2, <2>1 DEF Range, Once
<1>6. ASSUME NEW x \in Range(s) \ {Head(s)} PROVE x \in Range(Tail(s))
  <2>1. PICK i \in 1..Len(s) : x = s[i] /\ i # 1
    BY <1>1, <1>2 DEF Range
  <2>2. i - 1 \in 1..(Len(s) - 1) /\ Tail(s)[i - 1] = x
    BY <1>1, <2>1
  <2> QED BY <1>2, <2>2 DEF Range
<1> QED BY <1>1, <1>3, <1>4, <1>5, <1>6

\* lane.remove(waiter), for a waiter that is in the lane once or not at all
LEMMA RemovedFromLane ==
    ASSUME NEW S, NEW s \in Seq(S), NEW e, Once(s)
    PROVE  /\ RemoveFirst(s, e) \in Seq(S) /\ Once(RemoveFirst(s, e))
           /\ Range(RemoveFirst(s, e)) = Range(s) \ {e}
<1> DEFINE k == SelectInSeq(s, LAMBDA v : v = e)
           t == RemoveAt(s, k)
<1>0. Len(s) \in Nat /\ DOMAIN s = 1..Len(s)
  BY LenProperties
<1>1. CASE ~(\E i \in 1..Len(s) : s[i] = e)
  BY <1>0, <1>1 DEF RemoveFirst, Range
<1>2. CASE \E i \in 1..Len(s) : s[i] = e
  <2>1. RemoveFirst(s, e) = t
    BY <1>2 DEF RemoveFirst
  <2>2. k \in 1..Len(s) /\ s[k] = e
    <3>1. PICK i \in 1..Len(s) : s[i] = e
      BY <1>2
    <3>2. {j \in 1..Len(s) : s[j] = e} = {i}
      BY <3>1 DEF Once
    <3>3. k = Min({j \in 1..Len(s) : s[j] = e})
      BY <3>2 DEF SelectInSeq
    <3>4. Min({i}) = i
      BY DEF Min
    <3> QED BY <3>1, <3>2, <3>3, <3>4
  <2> HIDE DEF k
  <2>3. /\ t \in Seq(S) /\ Len(t) = Len(s) - 1
        /\ \A i \in 1..(Len(s) - 1) : t[i] = IF i < k THEN s[i] ELSE s[i + 1]
    <3> DEFINE u == SubSeq(s, 1, k - 1)
               v == SubSeq(s, k + 1, Len(s))
    <3>0. \A i \in 1..Len(s) : s[i] \in S
      BY ElementOfSeq
    <3>1. /\ u \in Seq(S) /\ Len(u) = k - 1
          /\ \A i \in 1..(k - 1) : u[i] = s[i]
      <4>1. k - 1 \in Int /\ \A i \in 1..(k - 1) : s[i] \in S
        BY <1>0, <2>2, <3>0
      <4>2. /\ u \in Seq(S)
            /\ Len(u) = IF 1 <= k - 1 THEN (k - 1) - 1 + 1 ELSE 0
            /\ \A i \in 1..((k - 1) - 1 + 1) : u[i] = s[1 + i - 1]
        BY <4>1, SubSeqProperties
      <4> HIDE DEF u
      <4>3. Len(u) = k - 1
        BY <2>2, <4>2
      <4>4. ASSUME NEW i \in 1..(k - 1) PROVE u[i] = s[i]
        <5>1. i \in 1..((k - 1) - 1 + 1) /\ 1 + i - 1 = i
          BY <2>2
        <5>2. u[i] = s[1 + i - 1]
          BY <4>2, <5>1
        <5> QED BY <5>1, <5>2
      <4> QED BY <4>2, <4>3, <4>4
    <3>2. /\ v \in Seq(S) /\ Len(v) = Len(s) - k
          /\ \A i \in 1..(Len(s) - k) : v[i] = s[k + i]
      <4>1. k + 1 \in Int /\ Len(s) \in Int /\ \A i \in (k + 1)..Len(s) : s[i] \in S
        BY <1>0, <2>2, <3>0
      <4>2. /\ v \in Seq(S)
            /\ Len(v) = IF k + 1 <= Len(s) THEN Len(s) - (k + 1) + 1 ELSE 0
            /\ \A i \in 1..(Len(s) - (k + 1) + 1) : v[i] = s[(k + 1) + i - 1]
        BY <4>1, SubSeqProperties
      <4> HIDE DEF v
      <4>3. Len(v) = Len(s) - k
        <5>1. CASE k + 1 <= Len(s)
          BY <1>0, <2>2, <4>2, <5>1
        <5>2. CASE k = Len(s)
          BY <1>0, <2>2, <4>2, <5>2
        <5>3. k + 1 <= Len(s) \/ k = Len(s)
          <6>1. k \in 1..Len(s) /\ Len(s) \in Nat
            BY <1>0, <2>2
          <6> QED BY <6>1
        <5> QED BY <5>1, <5>2, <5>3
      <4>4. ASSUME NEW i \in 1..(Len(s) - k) PROVE v[i] = s[k + i]
        <5>1. i \in 1..(Len(s) - (k + 1) + 1) /\ (k + 1) + i - 1 = k + i
          BY <1>0, <2>2
        <5>2. v[i] = s[(k + 1) + i - 1]
          BY <4>2, <5>1
        <5> QED BY <5>1, <5>2
      <4> QED BY <4>2, <4>3, <4>4
    <3>3. t = u \o v
      BY DEF RemoveAt
    <3> HIDE DEF t, u, v
    <3>4. /\ t \in Seq(S) /\ Len(t) = Len(u) + Len(v)
          /\ \A i \in 1..(Len(u) + Len(v)) :
                t[i] = IF i <= Len(u) THEN u[i] ELSE v[i - Len(u)]
      BY <3>1, <3>2, <3>3, ConcatProperties
    <3>5. Len(t) = Len(s) - 1
      BY <1>0, <2>2, <3>1, <3>2, <3>4
    <3>6. ASSUME NEW i \in 1..(Len(s) - 1) PROVE t[i] = IF i < k THEN s[i] ELSE s[i + 1]
      <4>1. CASE i < k
        <5>1. i \in 1..(Len(u) + Len(v)) /\ i <= Len(u) /\ i \in 1..(k - 1)
          BY <1>0, <2>2, <3>1, <3>2, <4>1
        <5> QED BY <3>1, <3>4, <4>1, <5>1
      <4>2. CASE ~(i < k)
        <5>1. /\ i \in 1..(Len(u) + Len(v)) /\ ~(i <= Len(u))
              /\ i - Len(u) \in 1..(Len(s) - k) /\ k + (i - Len(u)) = i + 1
          BY <1>0, <2>2, <3>1, <3>2, <4>2
        <5> QED BY <3>2, <3>4, <4>2, <5>1
      <4> QED BY <4>1, <4>2
    <3> QED BY <3>4, <3>5, <3>6
  <2> HIDE DEF t
  <2>4. DOMAIN t = 1..(Len(s) - 1)
    BY <2>3, LenProperties
  <2>5. Once(t)
    <3> SUFFICES ASSUME NEW i \in 1..Len(t), NEW j \in 1..Len(t), t[i] = t[j] PROVE i = j
      BY DEF Once
    <3> DEFINE from(n) == IF n < k THEN n ELSE n + 1
    <3>1. /\ from(i) \in 1..Len(s) /\ t[i] = s[from(i)]
          /\ from(j) \in 1..Len(s) /\ t[j] = s[from(j)]
      BY <1>0, <2>2, <2>3
    <3>2. from(i) = from(j)
      BY <3>1 DEF Once
    <3> QED BY <2>2, <2>3, <3>2
  <2>6. ASSUME NEW x \in Range(t) PROVE x \in Range(s) \ {e}
    <3>1. PICK i \in 1..(Len(s) - 1) : x = t[i]
      BY <2>4 DEF Range
    <3>2. PICK j \in 1..Len(s) : x = s[j] /\ j # k
      BY <1>0, <2>2, <2>3, <3>1
    <3> QED BY <1>0, <2>2, <3>2 DEF Range, Once
  <2>7. ASSUME NEW x \in Range(s) \ {e} PROVE x \in Range(t)
    <3>1. PICK j \in 1..Len(s) : x = s[j] /\ j # k
      BY <1>0, <2>2 DEF Range
    <3>2. PICK i \in 1..(Len(s) - 1) : t[i] = x
      <4>1. CASE j < k
        BY <1>0, <2>2, <2>3, <3>1, <4>1
      <4>2. CASE j > k
        <5>1. j - 1 \in 1..(Len(s) - 1) /\ ~(j - 1 < k) /\ (j - 1) + 1 = j
          BY <1>0, <2>2, <4>2
        <5> QED BY <2>3, <3>1, <5>1
      <4> QED BY <1>0, <2>2, <3>1, <4>1, <4>2
    <3> QED BY <2>4, <3>2 DEF Range
  <2> QED BY <2>1, <2>3, <2>5, <2>6, <2>7
<1> QED BY <1>1, <1>2

-------------------------------------------------------------------------------
(* Leases.                                                                     *)

LEMMA ReleasedLease ==
    ASSUME TypeOK, NEW r \in Requests, NEW by \in {"task", "shutdown"}
    PROVE  /\ Released(r, by) \in [Requests -> Lease]
           /\ \A x \in Requests : x # r => Released(r, by)[x] = lease[x]
           /\ Released(r, by)[r].stage = "stopping"
           /\ Released(r, by)[r].by = by
           /\ Released(r, by)[r].bound = lease[r].bound
           /\ Released(r, by)[r].revoked = lease[r].revoked
           /\ Released(r, by)[r].local = lease[r].local
           /\ Released(r, by)[r].renewer # "live"
<1>1. lease[r] \in Lease
  BY DEF TypeOK
<1> DEFINE m == [lease[r] EXCEPT !.stage = "stopping", !.by = by,
                                 !.renewer = IF @ = "live" THEN "cancelled" ELSE @]
<1>2. /\ m \in Lease /\ m.stage = "stopping" /\ m.by = by
      /\ m.bound = lease[r].bound /\ m.revoked = lease[r].revoked
      /\ m.local = lease[r].local /\ m.renewer # "live"
  BY <1>1 DEF Lease
<1>3. Released(r, by) = [lease EXCEPT ![r] = m]
  BY DEF Released, TypeOK
<1> HIDE DEF m
<1> QED BY <1>2, <1>3 DEF TypeOK

LEMMA GrantedLeaseFields ==
    ASSUME NEW b \in BOOLEAN
    PROVE  /\ GrantedLease(b) \in Lease
           /\ GrantedLease(b).stage = "held" /\ GrantedLease(b).bound = b
           /\ ~GrantedLease(b).revoked
           /\ b => GrantedLease(b).renewer = "live"
BY DEF GrantedLease, Lease

\* What a step makes of a lease that it does not create
Moves(l, m) ==
    /\ m \in Lease
    /\ l.stage = "none" <=> m.stage = "none"
    /\ m.stage = "held" => l.stage = "held"
    /\ m.bound = l.bound
    /\ l.revoked => m.revoked
    /\ m.revoked => l.revoked \/ l.local \/ l.renewer = "live"
    /\ m.local => l.local
    /\ m.renewer = "live" => l.renewer = "live"
    /\ CountedLease(m) => m.renewer = l.renewer

\* The pump delivers a lease to its waiter.
Granting ==
    /\ pump.stage = "trying" /\ pump.got # "refused" /\ pump.waiter \in Requests
    /\ InLane(pump.waiter) /\ future[pump.waiter] = "pending"
    /\ lease' = [lease EXCEPT ![pump.waiter] = GrantedLease(pump.got = "slot")]
    /\ future' = [future EXCEPT ![pump.waiter] = "granted"]
    /\ store' = store /\ pump'.stage = "looking"

LeasesMove ==
    /\ lease' \in [Requests -> Lease]
    /\ \A r \in Requests : Moves(lease[r], lease'[r])

LEMMA UnchangedMoves == TypeOK /\ lease' = lease => LeasesMove
<1>1. \A l \in Lease : Moves(l, l)
  BY DEF Moves
<1> QED BY <1>1 DEF TypeOK, LeasesMove

LEMMA ReleasedMoves ==
    ASSUME TypeOK, NEW r \in Requests, NEW by \in {"task", "shutdown"},
           lease[r].stage = "held", lease' = Released(r, by)
    PROVE  LeasesMove
<1>0. lease' \in [Requests -> Lease]
  BY ReleasedLease
<1>1. Moves(lease[r], lease'[r])
  BY <1>0, ReleasedLease DEF Moves, CountedLease
<1>2. \A x \in Requests : x # r => Moves(lease[x], lease'[x])
  BY ReleasedLease DEF Moves, TypeOK
<1> QED BY <1>0, <1>1, <1>2 DEF LeasesMove

\* One lease moves, or several lose a flag.
LEMMA OneMoves ==
    ASSUME TypeOK, NEW r \in Requests, NEW m, Moves(lease[r], m),
           lease' = [lease EXCEPT ![r] = m]
    PROVE  LeasesMove
<1>1. \A l \in Lease : Moves(l, l)
  BY DEF Moves
<1>2. m \in Lease
  BY DEF Moves
<1> QED BY <1>1, <1>2 DEF TypeOK, LeasesMove

LEMMA LeavingMoves ==
    ASSUME TypeOK, NEW r \in Requests, LeaveAdmit(r)
    PROVE  LeasesMove
<1>2. CASE lease' = lease
  BY <1>2, UnchangedMoves
<1>3. CASE lease[r].stage = "held" /\ lease' = Released(r, "task")
  BY <1>3, ReleasedMoves
<1> QED BY <1>2, <1>3 DEF LeaveAdmit

LEMMA RequestMoves ==
    ASSUME IInv, NEW r \in Requests,
           Evict(r) \/ FreeVictim(r) \/ HaltVictim(r) \/ Withdraw(r) \/ Finish(r)
    PROVE  LeasesMove
<1>0. TypeOK /\ \A x \in Requests : lease[x] \in Lease
  BY DEF IInv, TypeOK
<1>1. CASE Evict(r)
  <2>1. PICK v \in Evictable :
            lease' = [lease EXCEPT ![v].revoked = TRUE, ![v].listed = FALSE, ![v].local = FALSE]
    BY <1>1 DEF Evict
  <2>2. v \in Requests /\ lease[v].local
    BY <2>1 DEF Evictable
  <2> DEFINE m == [lease[v] EXCEPT !.revoked = TRUE, !.listed = FALSE, !.local = FALSE]
  <2>3. lease' = [lease EXCEPT ![v] = m]
    BY <1>0, <2>1, <2>2 DEF TypeOK
  <2>4. /\ m \in Lease /\ m.stage = lease[v].stage /\ m.bound = lease[v].bound
        /\ m.revoked = TRUE /\ m.local = FALSE /\ m.renewer = lease[v].renewer
    <3>1. lease[v] \in Lease
      BY <1>0, <2>2
    <3> QED BY <3>1 DEF Lease
  <2>5. Moves(lease[v], m)
    BY <2>2, <2>4 DEF Moves, CountedLease
  <2> HIDE DEF m
  <2> QED BY <1>0, <2>2, <2>3, <2>5, OneMoves
<1>2. CASE FreeVictim(r) \/ HaltVictim(r)
  <2> DEFINE v == victim[r]
             m(n) == [lease[v] EXCEPT !.renewer = n]
  <2>1. v \in Requests /\ lease[v].revoked
    BY <1>2 DEF IInv, VictimsAreRevoked, FreeVictim, HaltVictim
  <2>2. PICK n \in {"none", "cancelled", lease[v].renewer} :
            /\ lease' = [lease EXCEPT ![v].renewer = n]
            /\ n = "live" => lease[v].renewer = "live"
    BY <1>2 DEF FreeVictim, HaltVictim
  <2>3. lease' = [lease EXCEPT ![v] = m(n)]
    BY <1>0, <2>1, <2>2 DEF TypeOK
  <2>4. Moves(lease[v], m(n))
    BY <1>0, <2>1, <2>2 DEF Moves, CountedLease, Lease
  <2> HIDE DEF m, v
  <2> QED BY <1>0, <2>1, <2>3, <2>4, OneMoves
<1>3. CASE Withdraw(r)
  <2>1. LeaveAdmit(r) \/ lease' = lease
    BY <1>3 DEF Withdraw
  <2> QED BY <1>0, <2>1, LeavingMoves, UnchangedMoves
<1>4. CASE Finish(r)
  BY <1>0, <1>4, LeavingMoves DEF Finish
<1> QED BY <1>1, <1>2, <1>3, <1>4

LEMMA ReleaseMoves ==
    ASSUME IInv, NEW r \in Requests,
           ReleaseStep(r) \/ RenewMiss(r) \/ Cancel(r) \/ ShutRelease(r)
    PROVE  LeasesMove
<1>0. TypeOK /\ \A x \in Requests : lease[x] \in Lease
  BY DEF IInv, TypeOK
<1>1. ASSUME lease[r].stage \in {"stopping", "freeing"}, lease' = [lease EXCEPT ![r].stage = "over"]
      PROVE  LeasesMove
  <2> DEFINE m == [lease[r] EXCEPT !.stage = "over"]
  <2>1. lease' = [lease EXCEPT ![r] = m]
    BY <1>0, <1>1 DEF TypeOK
  <2>2. Moves(lease[r], m)
    BY <1>0, <1>1 DEF Moves, CountedLease, Lease
  <2> HIDE DEF m
  <2> QED BY <1>0, <2>1, <2>2, OneMoves
<1>2. CASE AbortRelease(r) \/ Free(r)
  BY <1>1, <1>2 DEF AbortRelease, Free
<1>3. CASE Forget(r)
  <2> DEFINE m(s) == [[lease[r] EXCEPT !.listed = FALSE, !.local = FALSE, !.renewer = "none"]
                        EXCEPT !.stage = s]
  <2>1. PICK s \in {"freeing", "over"} : lease' = [lease EXCEPT ![r] = m(s)]
    BY <1>3 DEF Forget
  <2>2. Moves(lease[r], m(s))
    BY <1>0, <1>3 DEF Forget, Moves, CountedLease, Lease
  <2> HIDE DEF m
  <2> QED BY <1>0, <2>1, <2>2, OneMoves
<1>4. CASE RenewMiss(r)
  <2> DEFINE m == [lease[r] EXCEPT !.revoked = TRUE, !.renewer = "ended"]
  <2>1. lease' = [lease EXCEPT ![r] = m]
    BY <1>0, <1>4 DEF RenewMiss, TypeOK
  <2>2. Moves(lease[r], m)
    <3>1. lease[r] \in Lease /\ lease[r].renewer = "live"
      BY <1>0, <1>4 DEF RenewMiss
    <3>2. /\ m \in Lease /\ m.stage = lease[r].stage /\ m.bound = lease[r].bound
          /\ m.revoked = TRUE /\ m.local = lease[r].local /\ m.renewer = "ended"
      BY <3>1 DEF Lease
    <3> QED BY <3>1, <3>2 DEF Moves, CountedLease
  <2> HIDE DEF m
  <2> QED BY <1>0, <2>1, <2>2, OneMoves
<1>5. CASE Cancel(r)
  <2>1. CASE CancelFree(r)
    BY <1>1, <2>1 DEF CancelFree
  <2>2. CASE LeaveAdmit(r)
    BY <1>0, <2>2, LeavingMoves
  <2>3. CASE lease' = lease
    BY <1>0, <2>3, UnchangedMoves
  <2> QED BY <1>5, <2>1, <2>2, <2>3 DEF Cancel, CancelWaiter, CancelEviction
<1>6. CASE ShutRelease(r)
  <2>1. CASE lease[r].stage = "held"
    BY <1>0, <1>6, <2>1, ReleasedMoves DEF ShutRelease
  <2>2. CASE lease[r].stage # "held"
    BY <1>0, <1>6, <2>2, UnchangedMoves DEF ShutRelease
  <2> QED BY <2>1, <2>2
<1> QED BY <1>2, <1>3, <1>4, <1>5, <1>6 DEF ReleaseStep

\* Only the pump creates a lease, for a waiter; every other step moves one on.
LEMMA LeaseStep == IInv /\ [Next]_vars => LeasesMove \/ Granting
<1> SUFFICES ASSUME IInv, [Next]_vars PROVE LeasesMove \/ Granting
  OBVIOUS
<1>0. TypeOK
  BY DEF IInv
<1>1. ASSUME NEW r \in Requests,
             \/ Evict(r) \/ FreeVictim(r) \/ HaltVictim(r) \/ Withdraw(r) \/ Finish(r)
             \/ ReleaseStep(r) \/ RenewMiss(r) \/ Cancel(r) \/ ShutRelease(r)
      PROVE  LeasesMove
  BY <1>1, RequestMoves, ReleaseMoves
<1>2. ASSUME PumpGrant PROVE LeasesMove \/ Granting
  <2>1. CASE InLane(pump.waiter) /\ future[pump.waiter] = "pending"
    BY <1>2, <2>1 DEF IInv, PumpFits, PumpGrant, Granting, PumpAt, TypeOK, Pump
  <2>2. CASE ~(InLane(pump.waiter) /\ future[pump.waiter] = "pending")
    <3>1. lease' = lease
      BY <1>2, <2>2 DEF PumpGrant
    <3> QED BY <1>0, <3>1, UnchangedMoves
  <2> QED BY <2>1, <2>2
<1>3. ASSUME ShutEnd PROVE LeasesMove
  <2>1. lease' = [r \in Requests |-> [lease[r] EXCEPT !.local = FALSE]]
    BY <1>3 DEF ShutEnd
  <2>2. ASSUME NEW r \in Requests PROVE Moves(lease[r], lease'[r])
    <3>1. lease[r] \in Lease /\ lease'[r] = [lease[r] EXCEPT !.local = FALSE]
      BY <1>0, <2>1 DEF TypeOK
    <3> QED BY <3>1 DEF Moves, CountedLease, Lease
  <2>3. lease' \in [Requests -> Lease]
    BY <2>1, <2>2 DEF Moves
  <2> QED BY <2>2, <2>3 DEF LeasesMove
<1>4. ASSUME NEW r \in Requests,
             \/ Begin(r) \/ Count(r) \/ Park(r) \/ Wake(r) \/ Expire(r) \/ Lapse(r)
      PROVE  lease' = lease
  BY <1>4 DEF Begin, Count, Park, Wake, Expire, Lapse
<1>5. ASSUME NEW h \in Remotes, RemoteAcquire(h) \/ RemoteRelease(h) PROVE lease' = lease
  BY <1>5 DEF RemoteAcquire, RemoteRelease
<1>6. ASSUME \/ PumpAdvance \/ PumpDrop \/ PumpTry \/ PumpRefused
             \/ ShutBegin \/ GoDown \/ ComeUp \/ UNCHANGED vars
      PROVE  lease' = lease
  BY <1>6 DEF PumpAdvance, PumpDrop, PumpTry, PumpRefused, ShutBegin, GoDown, ComeUp, vars
<1>7. CASE lease' = lease
  BY <1>0, <1>7, UnchangedMoves
<1> QED BY <1>1, <1>2, <1>3, <1>4, <1>5, <1>6, <1>7 DEF Next, Resume, PumpStep, Shutdown

-------------------------------------------------------------------------------
(* Answers, victims, the pump and the store.                                   *)

\* An answer is given once, and a lease by the pump only.
AnswersStay ==
    /\ future' \in [Requests -> {"pending", "granted", "rejected", "cancelled"}]
    /\ \A r \in Requests :
          \/ future'[r] = future[r]
          \/ future[r] = "pending" /\ future'[r] \in {"rejected", "cancelled"}

LEMMA FutureStep == IInv /\ [Next]_vars => AnswersStay \/ Granting
<1> SUFFICES ASSUME IInv, [Next]_vars PROVE AnswersStay \/ Granting
  OBVIOUS
<1>0. future \in [Requests -> {"pending", "granted", "rejected", "cancelled"}]
  BY DEF IInv, TypeOK
<1>1. ASSUME NEW r \in Requests, Expire(r) \/ Withdraw(r) \/ Cancel(r) PROVE AnswersStay
  <2>1. \/ future' = future
        \/ future' = [future EXCEPT ![r] = IF @ = "pending" THEN "cancelled" ELSE @]
    BY <1>0, <1>1 DEF Expire, Withdraw, Cancel, CancelWaiter, CancelEviction, CancelFree
  <2> QED BY <1>0, <2>1 DEF AnswersStay
<1>2. ASSUME PumpGrant PROVE AnswersStay \/ Granting
  <2>1. CASE InLane(pump.waiter) /\ future[pump.waiter] = "pending"
    BY <1>2, <2>1 DEF IInv, PumpFits, PumpGrant, Granting, PumpAt, TypeOK, Pump
  <2>2. CASE ~(InLane(pump.waiter) /\ future[pump.waiter] = "pending")
    BY <1>0, <1>2, <2>2 DEF PumpGrant, AnswersStay
  <2> QED BY <2>1, <2>2
<1>3. ASSUME ShutEnd PROVE AnswersStay
  <2>1. future' = [r \in Requests |->
                      IF InLane(r) /\ future[r] = "pending" THEN "rejected" ELSE future[r]]
    BY <1>3 DEF ShutEnd, RejectOwnWaiters
  <2> QED BY <1>0, <2>1 DEF AnswersStay
<1>4. ASSUME NEW r \in Requests,
             \/ Begin(r) \/ Count(r) \/ Park(r) \/ Evict(r) \/ FreeVictim(r) \/ HaltVictim(r)
             \/ Wake(r) \/ Finish(r) \/ ReleaseStep(r) \/ RenewMiss(r) \/ Lapse(r) \/ ShutRelease(r)
      PROVE  future' = future
  BY <1>4 DEF Begin, Count, Park, Evict, FreeVictim, HaltVictim, Wake, Finish, ReleaseStep,
     AbortRelease, Forget, Free, RenewMiss, Lapse, ShutRelease
<1>5. ASSUME NEW h \in Remotes, RemoteAcquire(h) \/ RemoteRelease(h) PROVE future' = future
  BY <1>5 DEF RemoteAcquire, RemoteRelease
<1>6. ASSUME \/ PumpAdvance \/ PumpDrop \/ PumpTry \/ PumpRefused
             \/ ShutBegin \/ GoDown \/ ComeUp \/ UNCHANGED vars
      PROVE  future' = future
  BY <1>6 DEF PumpAdvance, PumpDrop, PumpTry, PumpRefused, ShutBegin, GoDown, ComeUp, vars
<1>7. CASE future' = future
  BY <1>0, <1>7 DEF AnswersStay
<1> QED BY <1>1, <1>2, <1>3, <1>4, <1>5, <1>6, <1>7 DEF Next, Resume, PumpStep, Shutdown

LEMMA LeasesFitStep ==
    ASSUME IInv, [Next]_vars
    PROVE  LeasesFit'
<1>0. /\ lease \in [Requests -> Lease]
      /\ future \in [Requests -> {"pending", "granted", "rejected", "cancelled"}]
  BY DEF IInv, TypeOK
<1>1. CASE Granting
  <2>1. /\ \A r \in Requests : r # pump.waiter => lease'[r] = lease[r] /\ future'[r] = future[r]
        /\ future'[pump.waiter] = "granted"
        /\ lease'[pump.waiter] = GrantedLease(pump.got = "slot")
    BY <1>0, <1>1 DEF Granting
  <2>2. CountedLease(lease'[pump.waiter]) => lease'[pump.waiter].renewer = "live"
    <3>1. PICK b \in BOOLEAN : b = (pump.got = "slot")
      OBVIOUS
    <3> QED BY <2>1, <3>1, GrantedLeaseFields DEF CountedLease
  <2> QED BY <2>1, <2>2 DEF IInv, LeasesFit
<1>2. CASE LeasesMove /\ AnswersStay
  <2> SUFFICES ASSUME NEW r \in Requests
               PROVE  /\ future'[r] # "granted" => Untouched(lease'[r])
                      /\ CountedLease(lease'[r]) => lease'[r].renewer = "live"
    BY DEF LeasesFit
  <2>1. /\ future[r] # "granted" => Untouched(lease[r])
        /\ CountedLease(lease[r]) => lease[r].renewer = "live"
    BY DEF IInv, LeasesFit
  <2>2. Moves(lease[r], lease'[r])
    BY <1>2 DEF LeasesMove
  <2>3. future'[r] # "granted" => future[r] # "granted"
    BY <1>2 DEF AnswersStay
  <2> QED BY <2>1, <2>2, <2>3 DEF Moves, Untouched, CountedLease
<1> QED BY <1>1, <1>2, LeaseStep, FutureStep

LEMMA VictimsStep ==
    ASSUME IInv, [Next]_vars
    PROVE  /\ victim' \in [Requests -> Requests \cup {Nobody}]
           /\ VictimsAreRevoked'
<1> DEFINE Evicts(e) == task'[e] \in {"evicting", "halting"}
           Evicted(e) == task[e] \in {"evicting", "halting"} /\ victim'[e] = victim[e]
<1>0. /\ task \in [Requests -> Stages] /\ victim \in [Requests -> Requests \cup {Nobody}]
      /\ lease \in [Requests -> Lease]
  BY DEF IInv, TypeOK
<1>1. ASSUME NEW r \in Requests, Evict(r)
      PROVE  /\ victim' \in [Requests -> Requests \cup {Nobody}]
             /\ \A e \in Requests : Evicts(e) =>
                   Evicted(e) \/ (victim'[e] \in Requests /\ lease'[victim'[e]].revoked)
  <2>1. PICK v \in Evictable :
            /\ victim' = [victim EXCEPT ![r] = v]
            /\ lease' = [lease EXCEPT ![v].revoked = TRUE, ![v].listed = FALSE, ![v].local = FALSE]
    BY <1>1 DEF Evict
  <2>2. v \in Requests /\ lease[v] \in Lease
    BY <1>0, <2>1 DEF Evictable
  <2>3. lease'[v].revoked
    BY <1>0, <2>1, <2>2 DEF Lease
  <2>4. task' = [task EXCEPT ![r] = "evicting"]
    BY <1>1 DEF Evict
  <2> QED BY <1>0, <2>1, <2>2, <2>3, <2>4
<1>2. ASSUME NEW r \in Requests,
             \/ FreeVictim(r) \/ HaltVictim(r) \/ Withdraw(r)
             \/ Begin(r) \/ Count(r) \/ Park(r) \/ Wake(r) \/ Expire(r) \/ Finish(r)
             \/ ReleaseStep(r) \/ RenewMiss(r) \/ Lapse(r) \/ Cancel(r) \/ ShutRelease(r)
      PROVE  /\ victim' \in [Requests -> Requests \cup {Nobody}]
             /\ \A e \in Requests : Evicts(e) => Evicted(e)
  <2>1. /\ victim' = victim
        /\ \/ task' = task
           \/ task[r] = "evicting" /\ task' = [task EXCEPT ![r] = "halting"]
           \/ \E s \in Stages \ {"evicting", "halting"} : task' = [task EXCEPT ![r] = s]
        \/ /\ victim' = [victim EXCEPT ![r] = Nobody]
           /\ \E s \in Stages \ {"evicting", "halting"} : task' = [task EXCEPT ![r] = s]
    <3>1. CASE FreeVictim(r)
      BY <3>1 DEF FreeVictim
    <3>2. CASE HaltVictim(r)
      BY <3>2 DEF HaltVictim, Stages
    <3>3. CASE Withdraw(r)
      BY <3>3 DEF Withdraw, LeaveAdmit, Stages
    <3>4. CASE Begin(r) \/ Count(r) \/ Park(r) \/ Wake(r) \/ Expire(r)
      BY <3>4 DEF Begin, Count, Park, Wake, Expire, Stages
    <3>5. CASE Finish(r) \/ ReleaseStep(r)
      BY <3>5 DEF Finish, LeaveAdmit, ReleaseStep, AbortRelease, Forget, Free, TaskOver, Stages
    <3>6. CASE RenewMiss(r) \/ Lapse(r) \/ ShutRelease(r)
      BY <3>6 DEF RenewMiss, Lapse, ShutRelease
    <3>7. CASE Cancel(r)
      BY <3>7 DEF Cancel, CancelWaiter, CancelEviction, CancelFree, LeaveAdmit, Stages
    <3> QED BY <1>2, <3>1, <3>2, <3>3, <3>4, <3>5, <3>6, <3>7
  <2> QED BY <1>0, <2>1
<1>3. ASSUME \/ \E h \in Remotes : RemoteAcquire(h) \/ RemoteRelease(h)
             \/ PumpStep \/ ShutBegin \/ ShutEnd \/ GoDown \/ ComeUp \/ UNCHANGED vars
      PROVE  UNCHANGED <<task, victim>>
  BY <1>3 DEF RemoteAcquire, RemoteRelease, PumpStep, PumpAdvance, PumpDrop, PumpTry, PumpRefused,
     PumpGrant, ShutBegin, ShutEnd, GoDown, ComeUp, vars
<1>4. /\ victim' \in [Requests -> Requests \cup {Nobody}]
      /\ \A e \in Requests : Evicts(e) =>
            Evicted(e) \/ (victim'[e] \in Requests /\ lease'[victim'[e]].revoked)
  BY <1>0, <1>1, <1>2, <1>3 DEF Next, Resume, Shutdown
<1>5. \A v \in Requests : lease[v].revoked => lease'[v].revoked
  <2>1. CASE LeasesMove
    BY <2>1 DEF LeasesMove, Moves
  <2>2. CASE Granting
    <3>1. ~lease[pump.waiter].revoked
      BY <2>2 DEF Granting, IInv, LeasesFit, Untouched
    <3> QED BY <1>0, <2>2, <3>1 DEF Granting
  <2> QED BY <2>1, <2>2, LeaseStep
<1> QED BY <1>4, <1>5 DEF IInv, VictimsAreRevoked


\* An entry leaves the store because its lease was evicted or is being freed, because
\* the waiter it was acquired for is gone, or because nobody renewed it.
Leaves(r) ==
    /\ store' = store \ {r}
    /\ \/ lease[r].revoked
       \/ lease[r].stage = "freeing"
       \/ pump.stage = "trying" /\ pump.waiter = r /\ pump'.stage = "looking"
       \/ (up => lease[r].renewer # "live") /\ ~(pump.stage = "trying" /\ pump.waiter = r)

StoreMoves ==
    \/ store' = store
    \/ \E r \in Requests : Leaves(r)
    \/ \E h \in Remotes : store' = store \ {h}
    \/ HasRoom /\ \E h \in Requests \cup Remotes : store' = store \cup {h}

LEMMA StoreStep == IInv /\ [Next]_vars => StoreMoves
<1> SUFFICES ASSUME IInv, [Next]_vars PROVE StoreMoves
  OBVIOUS
<1>1. ASSUME NEW r \in Requests, FreeVictim(r) \/ CancelEviction(r) PROVE StoreMoves
  <2>1. victim[r] \in Requests /\ lease[victim[r]].revoked
    BY <1>1 DEF IInv, VictimsAreRevoked, FreeVictim, CancelEviction
  <2>2. store' = store \/ store' = store \ {victim[r]}
    BY <1>1 DEF FreeVictim, CancelEviction, StoreWithout
  <2> QED BY <2>1, <2>2 DEF StoreMoves, Leaves
<1>2. ASSUME NEW r \in Requests, Free(r) \/ CancelFree(r) PROVE StoreMoves
  BY <1>2 DEF Free, CancelFree, StoreWithout, StoreMoves, Leaves
<1>3. ASSUME NEW r \in Requests, Lapse(r) PROVE StoreMoves
  BY <1>3 DEF Lapse, StoreMoves, Leaves
<1>4. ASSUME NEW h \in Remotes, RemoteAcquire(h) \/ RemoteRelease(h) PROVE StoreMoves
  BY <1>4 DEF RemoteAcquire, RemoteRelease, StoreMoves
<1>5. ASSUME PumpTry PROVE StoreMoves
  <2>1. Head(lane[pump.class]) \in Requests
    BY <1>5, HeadlessLane DEF PumpTry, IInv, LanesFit, TypeOK, Pump
  <2> QED BY <1>5, <2>1 DEF PumpTry, StoreMoves
<1>6. ASSUME PumpGrant PROVE StoreMoves
  <2>1. pump.waiter \in Requests /\ pump.stage = "trying" /\ pump'.stage = "looking"
    BY <1>6 DEF PumpGrant, IInv, PumpFits, PumpAt
  <2>2. store' = store \/ store' = store \ {pump.waiter}
    BY <1>6 DEF PumpGrant, StoreWithout
  <2> QED BY <2>1, <2>2 DEF StoreMoves, Leaves
<1>7. ASSUME NEW r \in Requests, Cancel(r) PROVE StoreMoves
  <2>1. CancelEviction(r) \/ CancelFree(r) \/ store' = store
    BY <1>7 DEF Cancel, CancelWaiter
  <2> QED BY <1>1, <1>2, <2>1 DEF StoreMoves
<1>8. ASSUME NEW r \in Requests,
             \/ Begin(r) \/ Count(r) \/ Park(r) \/ Evict(r) \/ HaltVictim(r) \/ Wake(r) \/ Expire(r)
             \/ Withdraw(r) \/ Finish(r) \/ AbortRelease(r) \/ Forget(r) \/ RenewMiss(r)
             \/ ShutRelease(r)
      PROVE  store' = store
  BY <1>8 DEF Begin, Count, Park, Evict, HaltVictim, Wake, Expire, Withdraw, Finish,
     AbortRelease, Forget, RenewMiss, ShutRelease
<1>9. ASSUME PumpAdvance \/ PumpDrop \/ PumpRefused \/ ShutBegin \/ ShutEnd \/ GoDown \/ ComeUp
             \/ UNCHANGED vars
      PROVE  store' = store
  BY <1>9 DEF PumpAdvance, PumpDrop, PumpRefused, ShutBegin, ShutEnd, GoDown, ComeUp, vars
<1>10. CASE store' = store
  BY <1>10 DEF StoreMoves
<1> QED BY <1>1, <1>2, <1>3, <1>4, <1>5, <1>6, <1>7, <1>8, <1>9, <1>10
        DEF Next, Resume, ReleaseStep, PumpStep, Shutdown

\* The pump runs on, or sends one acquire and waits for its answer.
PumpMoves ==
    /\ pump' \in Pump
    /\ pump'.stage = "trying" =>
         \/ pump.stage = "trying" /\ pump'.waiter = pump.waiter /\ pump'.got = pump.got
         \/ PumpTry

LEMMA NextLaneFields ==
    ASSUME TypeOK
    PROVE  NextLane(pump) \in Pump /\ NextLane(pump).stage # "trying"
BY HolderAssumption DEF TypeOK, Pump, NextLane, PumpAt, PumpOff, Classes

LEMMA ScheduledPump ==
    ASSUME TypeOK, SchedulePump
    PROVE  PumpMoves
BY DEF TypeOK, Pump, SchedulePump, PumpAt, PumpMoves, Classes

LEMMA PumpMovesStep == IInv /\ [Next]_vars => PumpMoves
<1> SUFFICES ASSUME IInv, [Next]_vars PROVE PumpMoves
  OBVIOUS
<1>0. TypeOK
  BY DEF IInv
<1>1. ASSUME NEW r \in Requests,
             \/ Count(r) \/ Park(r) \/ HaltVictim(r) \/ Forget(r) \/ Free(r) \/ ShutEnd
      PROVE  SchedulePump \/ pump' = pump
  BY <1>1 DEF Count, Park, HaltVictim, Forget, Free, ShutEnd
<1>2. ASSUME ShutEnd PROVE SchedulePump
  BY <1>2 DEF ShutEnd
<1>3. ASSUME PumpAdvance \/ PumpRefused PROVE PumpMoves
  BY <1>0, <1>3, NextLaneFields DEF PumpAdvance, PumpRefused, PumpMoves
<1>4. ASSUME PumpGrant PROVE PumpMoves
  BY <1>0, <1>4 DEF PumpGrant, PumpMoves, PumpAt, TypeOK, Pump
<1>5. ASSUME PumpTry PROVE PumpMoves
  <2>1. Head(lane[pump.class]) \in Requests
    BY <1>5, HeadlessLane DEF PumpTry, IInv, LanesFit, TypeOK, Pump
  <2>2. PICK g \in {"slot", "refused", "open"} :
           pump' = [[pump EXCEPT !.stage = "trying", !.waiter = Head(lane[pump.class])]
                      EXCEPT !.got = g]
    BY <1>5 DEF PumpTry
  <2>3. pump' \in Pump
    BY <1>0, <2>1, <2>2 DEF TypeOK, Pump
  <2> QED BY <1>5, <2>3 DEF PumpMoves
<1>6. ASSUME NEW r \in Requests,
             \/ Begin(r) \/ Evict(r) \/ FreeVictim(r) \/ Wake(r) \/ Expire(r) \/ Withdraw(r)
             \/ Finish(r) \/ AbortRelease(r) \/ RenewMiss(r) \/ Lapse(r) \/ Cancel(r)
             \/ ShutRelease(r)
      PROVE  pump' = pump
  BY <1>6 DEF Begin, Evict, FreeVictim, Wake, Expire, Withdraw, Finish, AbortRelease,
     RenewMiss, Lapse, Cancel, ShutRelease
<1>7. ASSUME NEW h \in Remotes, RemoteAcquire(h) \/ RemoteRelease(h) PROVE pump' = pump
  BY <1>7 DEF RemoteAcquire, RemoteRelease
<1>8. ASSUME PumpDrop \/ ShutBegin \/ GoDown \/ ComeUp \/ UNCHANGED vars PROVE pump' = pump
  BY <1>8 DEF PumpDrop, ShutBegin, GoDown, ComeUp, vars
<1>9. CASE pump' = pump
  BY <1>0, <1>9 DEF PumpMoves, TypeOK
<1>10. CASE SchedulePump
  BY <1>0, <1>10, ScheduledPump
<1> QED BY <1>1, <1>2, <1>3, <1>4, <1>5, <1>6, <1>7, <1>8, <1>9, <1>10
        DEF Next, Resume, ReleaseStep, PumpStep, Shutdown

LEMMA OutageStep ==
    ASSUME IInv, [Next]_vars
    PROVE  /\ up' \in BOOLEAN /\ outages' \in 0..MaxOutages
           /\ outages' = 0 => outages = 0 /\ up'
<1>0. up \in BOOLEAN /\ outages \in 0..MaxOutages /\ (outages = 0 => up)
  BY DEF IInv, TypeOK, StoreFits
<1>1. CASE GoDown
  <2>1. up' = FALSE /\ outages' = outages + 1 /\ outages < MaxOutages
    BY <1>1 DEF GoDown
  <2>2. outages' \in 0..MaxOutages /\ outages' # 0
    BY <1>0, <2>1, BudgetAssumption
  <2>3. up' \in BOOLEAN
    BY <2>1
  <2> QED BY <2>2, <2>3
<1>2. CASE ComeUp
  <2>1. up' = TRUE /\ outages' = outages
    BY <1>2 DEF ComeUp
  <2> QED BY <1>0, <2>1
<1>3. ASSUME NEW r \in Requests,
             \/ Begin(r) \/ Count(r) \/ Park(r) \/ Evict(r) \/ FreeVictim(r) \/ HaltVictim(r)
             \/ Wake(r) \/ Withdraw(r) \/ Expire(r) \/ Finish(r) \/ Cancel(r) \/ AbortRelease(r)
             \/ Forget(r) \/ Free(r) \/ RenewMiss(r) \/ Lapse(r) \/ ShutRelease(r)
      PROVE  UNCHANGED <<up, outages>>
  BY <1>3 DEF Begin, Count, Park, Evict, FreeVictim, HaltVictim, Wake, Withdraw, Expire, Finish,
     Cancel, AbortRelease, Forget, Free, RenewMiss, Lapse, ShutRelease
<1>4. ASSUME NEW h \in Remotes, RemoteAcquire(h) \/ RemoteRelease(h)
      PROVE  UNCHANGED <<up, outages>>
  BY <1>4 DEF RemoteAcquire, RemoteRelease
<1>5. ASSUME \/ PumpAdvance \/ PumpDrop \/ PumpTry \/ PumpRefused \/ PumpGrant
             \/ ShutBegin \/ ShutEnd \/ UNCHANGED vars
      PROVE  UNCHANGED <<up, outages>>
  BY <1>5 DEF PumpAdvance, PumpDrop, PumpTry, PumpRefused, PumpGrant, ShutBegin, ShutEnd, vars
<1>6. CASE UNCHANGED <<up, outages>>
  BY <1>0, <1>6
<1> QED BY <1>1, <1>2, <1>3, <1>4, <1>5, <1>6
        DEF Next, Resume, ReleaseStep, PumpStep, Shutdown

LEMMA BudgetHolds ==
    ASSUME IInv, [Next]_vars
    PROVE  /\ store' \subseteq Requests \cup Remotes
           /\ IsFiniteSet(store') /\ Cardinality(store') <= Budget
<1>0. /\ store \subseteq Requests \cup Remotes
      /\ IsFiniteSet(store) /\ Cardinality(store) <= Budget
      /\ Cardinality(store) \in Nat /\ Budget \in Nat
  BY FS_CardinalityType DEF IInv, TypeOK, StoreFits, OneBudget
<1>1. ASSUME NEW h, store' = store \ {h}
      PROVE  /\ store' \subseteq Requests \cup Remotes
             /\ IsFiniteSet(store') /\ Cardinality(store') <= Budget
  <2>1. /\ IsFiniteSet(store \ {h})
        /\ Cardinality(store \ {h}) = IF h \in store THEN Cardinality(store) - 1
                                      ELSE Cardinality(store)
    BY <1>0, FS_RemoveElement
  <2> QED BY <1>0, <1>1, <2>1
<1>2. ASSUME HasRoom, NEW h \in Requests \cup Remotes, store' = store \cup {h}
      PROVE  /\ store' \subseteq Requests \cup Remotes
             /\ IsFiniteSet(store') /\ Cardinality(store') <= Budget
  <2>1. /\ IsFiniteSet(store \cup {h})
        /\ Cardinality(store \cup {h}) = IF h \in store THEN Cardinality(store)
                                         ELSE Cardinality(store) + 1
    BY <1>0, FS_AddElement
  <2> QED BY <1>0, <1>2, <2>1 DEF HasRoom
<1>3. CASE store' = store
  BY <1>0, <1>3
<1> QED BY <1>1, <1>2, <1>3, StoreStep DEF StoreMoves, Leaves

\* A slot that is being handed out, or whose lease counts, does not leave the store.
LEMMA SlotsStay ==
    ASSUME IInv, [Next]_vars, NEW r \in Requests, r \in store, r \notin store'
    PROVE  /\ pump.stage = "trying" /\ pump.waiter = r => pump'.stage # "trying"
           /\ CountedLease(lease[r]) => ~up
<1>1. Leaves(r)
  <2>1. r \notin Remotes
    BY HolderAssumption
  <2> QED BY <2>1, StoreStep DEF StoreMoves, Leaves
<1>2. /\ CountedLease(lease[r]) => lease[r].renewer = "live" /\ future[r] = "granted"
      /\ pump.stage = "trying" /\ pump.waiter = r => Untouched(lease[r])
  BY DEF IInv, LeasesFit, PumpFits, CountedLease, Untouched
<1> QED BY <1>1, <1>2 DEF Leaves, CountedLease, Untouched, IInv, PumpFits

LEMMA OneBudgetStep ==
    ASSUME IInv, [Next]_vars
    PROVE  OneBudget' /\ StoreFits'
<1>1. ASSUME outages' = 0, NEW r \in Requests, CountedLease(lease'[r]) PROVE r \in store'
  <2>0. outages = 0 /\ up
    BY <1>1, OutageStep DEF IInv, StoreFits
  <2>1. CASE LeasesMove
    <3>1. CountedLease(lease[r])
      BY <1>1, <2>1 DEF LeasesMove, Moves, CountedLease
    <3>2. r \in store
      BY <2>0, <3>1 DEF IInv, OneBudget, Counted, CountedLease
    <3> QED BY <2>0, <3>1, <3>2, SlotsStay
  <2>2. CASE Granting /\ r = pump.waiter
    <3>1. PICK b \in BOOLEAN : b = (pump.got = "slot")
      OBVIOUS
    <3>2. lease'[r] = GrantedLease(b)
      BY <2>2, <3>1 DEF Granting, IInv, TypeOK
    <3>3. b
      BY <1>1, <3>2, GrantedLeaseFields DEF CountedLease
    <3> QED BY <2>2, <3>1, <3>3 DEF Granting, IInv, PumpFits
  <2>3. CASE Granting /\ r # pump.waiter
    <3>1. lease'[r] = lease[r] /\ store' = store
      BY <2>3 DEF Granting, IInv, TypeOK
    <3> QED BY <1>1, <2>0, <3>1 DEF IInv, OneBudget, Counted, CountedLease
  <2> QED BY <2>1, <2>2, <2>3, LeaseStep
<1>2. Counted' = {r \in Requests : CountedLease(lease'[r])}
  BY DEF Counted, CountedLease
<1> QED BY <1>1, <1>2, BudgetHolds, OutageStep DEF OneBudget, StoreFits

LEMMA PumpFitsStep ==
    ASSUME IInv, [Next]_vars
    PROVE  PumpFits'
<1> SUFFICES ASSUME pump'.stage = "trying"
             PROVE  /\ pump'.waiter \in Requests
                    /\ future'[pump'.waiter] # "granted"
                    /\ pump'.got = "slot" => pump'.waiter \in store'
  BY DEF PumpFits
<1>1. CASE pump.stage = "trying" /\ pump'.waiter = pump.waiter /\ pump'.got = pump.got
  <2>1. AnswersStay
    BY FutureStep DEF Granting
  <2> QED BY <1>1, <2>1, SlotsStay DEF IInv, PumpFits, AnswersStay
<1>2. CASE PumpTry
  <2> DEFINE w == Head(lane[pump.class])
  <2>1. w \in Requests
    BY <1>2, HeadlessLane DEF PumpTry, IInv, LanesFit, TypeOK, Pump
  <2>2. /\ future' = future /\ future[w] = "pending"
        /\ \E g \in {"slot", "refused", "open"} :
             /\ pump' = [[pump EXCEPT !.stage = "trying", !.waiter = w] EXCEPT !.got = g]
             /\ g = "slot" => w \in store'
    BY <1>2 DEF PumpTry
  <2>3. pump'.waiter = w /\ (pump'.got = "slot" => w \in store')
    BY <2>2 DEF IInv, TypeOK, Pump
  <2> QED BY <2>1, <2>2, <2>3
<1> QED BY <1>1, <1>2, PumpMovesStep DEF PumpMoves

-------------------------------------------------------------------------------
(* Lanes and tasks.                                                            *)

\* What LanesFit and WaitersAreQueued say of one request
Queues(r) ==
    /\ task[r] \in Waiting /\ future[r] = "pending" => InLane(r)
    /\ InLane(r) => task[r] \in Waiting \cup {"withdrawing"}
                    /\ future[r] \notin {"granted", "rejected"}
    /\ task[r] \in {"idle", "counting"} => future[r] = "pending"

LanesKept == lane' \in [Classes -> Seq(Requests)] /\ \A c \in Classes : Once(lane'[c])

LEMMA QueuesAre ==
    (\A r \in Requests : Queues(r)) /\ (\A c \in Classes : Once(lane[c]))
        <=> LanesFit /\ WaitersAreQueued
BY DEF Queues, LanesFit, WaitersAreQueued

LEMMA JoinedLane ==
    ASSUME IInv, NEW r \in Requests, ~InLane(r),
           lane' = [lane EXCEPT ![ClassOf[r]] = Append(@, r)]
    PROVE  LanesKept /\ \A x \in Requests : InLane(x)' <=> InLane(x) \/ x = r
<1> DEFINE c == ClassOf[r]
           s == Append(lane[c], r)
<1>0. /\ lane \in [Classes -> Seq(Requests)] /\ c \in Classes
      /\ \A d \in Classes : Once(lane[d])
      /\ \A x \in Requests : ClassOf[x] \in Classes
  BY ClassAssumption DEF IInv, TypeOK, LanesFit
<1>1. s \in Seq(Requests) /\ Once(s) /\ Range(s) = Range(lane[c]) \cup {r}
  BY <1>0, AppendedLane DEF InLane
<1>2. lane' = [lane EXCEPT ![c] = s]
  OBVIOUS
<1> HIDE DEF s, c
<1>3. \A d \in Classes : lane'[d] = IF d = c THEN s ELSE lane[d]
  BY <1>0, <1>2
<1>4. LanesKept
  <2>1. lane' \in [Classes -> Seq(Requests)]
    BY <1>0, <1>1, <1>2
  <2>2. \A d \in Classes : Once(lane'[d])
    BY <1>0, <1>1, <1>3
  <2> QED BY <2>1, <2>2 DEF LanesKept
<1>5. \A x \in Requests : InLane(x)' <=> InLane(x) \/ x = r
  <2>1. \A x \in Requests : ClassOf[x] = c => (InLane(x)' <=> InLane(x) \/ x = r)
    BY <1>0, <1>1, <1>3 DEF InLane
  <2>2. \A x \in Requests : ClassOf[x] # c => (InLane(x)' <=> InLane(x) \/ x = r)
    BY <1>0, <1>3 DEF InLane, c
  <2> QED BY <2>1, <2>2
<1> QED BY <1>4, <1>5

LEMMA LeftLane ==
    ASSUME IInv, NEW r \in Requests, lane' = Unregistered(r)
    PROVE  LanesKept /\ \A x \in Requests : InLane(x)' <=> InLane(x) /\ x # r
<1> DEFINE c == ClassOf[r]
           s == RemoveFirst(lane[c], r)
<1>0. /\ lane \in [Classes -> Seq(Requests)] /\ c \in Classes
      /\ \A d \in Classes : Once(lane[d])
      /\ \A x \in Requests : ClassOf[x] \in Classes
  BY ClassAssumption DEF IInv, TypeOK, LanesFit
<1>1. s \in Seq(Requests) /\ Once(s) /\ Range(s) = Range(lane[c]) \ {r}
  BY <1>0, RemovedFromLane
<1>2. lane' = [lane EXCEPT ![c] = s]
  BY DEF Unregistered
<1> HIDE DEF s, c
<1>3. \A d \in Classes : lane'[d] = IF d = c THEN s ELSE lane[d]
  BY <1>0, <1>2
<1>4. LanesKept
  <2>1. lane' \in [Classes -> Seq(Requests)]
    BY <1>0, <1>1, <1>2
  <2>2. \A d \in Classes : Once(lane'[d])
    BY <1>0, <1>1, <1>3
  <2> QED BY <2>1, <2>2 DEF LanesKept
<1>5. \A x \in Requests : InLane(x)' <=> InLane(x) /\ x # r
  <2>1. \A x \in Requests : ClassOf[x] = c => (InLane(x)' <=> InLane(x) /\ x # r)
    BY <1>0, <1>1, <1>3 DEF InLane
  <2>2. \A x \in Requests : ClassOf[x] # c => (InLane(x)' <=> InLane(x) /\ x # r)
    BY <1>0, <1>3 DEF InLane, c
  <2> QED BY <2>1, <2>2
<1> QED BY <1>4, <1>5

LEMMA DroppedHead ==
    ASSUME IInv, NEW c \in Classes, lane[c] # <<>>, lane' = [lane EXCEPT ![c] = Tail(@)]
    PROVE  /\ LanesKept /\ Head(lane[c]) \in Requests
           /\ \A x \in Requests : InLane(x)' => InLane(x)
           /\ \A x \in Requests : InLane(x) /\ x # Head(lane[c]) => InLane(x)'
<1> DEFINE h == Head(lane[c])
           s == Tail(lane[c])
<1>0. /\ lane \in [Classes -> Seq(Requests)]
      /\ \A d \in Classes : Once(lane[d])
      /\ \A x \in Requests : ClassOf[x] \in Classes
  BY ClassAssumption DEF IInv, TypeOK, LanesFit
<1>1. /\ h \in Requests
      /\ s \in Seq(Requests) /\ Once(s) /\ Range(s) = Range(lane[c]) \ {h}
  BY <1>0, HeadlessLane
<1>2. lane' = [lane EXCEPT ![c] = s]
  OBVIOUS
<1> HIDE DEF s, h
<1>3. \A d \in Classes : lane'[d] = IF d = c THEN s ELSE lane[d]
  BY <1>0, <1>2
<1>4. LanesKept
  <2>1. lane' \in [Classes -> Seq(Requests)]
    BY <1>0, <1>1, <1>2
  <2>2. \A d \in Classes : Once(lane'[d])
    BY <1>0, <1>1, <1>3
  <2> QED BY <2>1, <2>2 DEF LanesKept
<1>5. \A x \in Requests : /\ InLane(x)' => InLane(x)
                          /\ InLane(x) /\ x # h => InLane(x)'
  <2>1. \A x \in Requests : ClassOf[x] = c => (InLane(x)' <=> InLane(x) /\ x # h)
    BY <1>0, <1>1, <1>3 DEF InLane
  <2>2. \A x \in Requests : ClassOf[x] # c => (InLane(x)' <=> InLane(x))
    BY <1>0, <1>3 DEF InLane
  <2> QED BY <2>1, <2>2
<1> QED BY <1>1, <1>4, <1>5 DEF h

LEMMA EmptiedLanes ==
    ASSUME lane' = [c \in Classes |-> <<>>]
    PROVE  LanesKept /\ \A x \in Requests : ~InLane(x)'
<1>1. \A c \in Classes : lane'[c] = <<>>
  OBVIOUS
<1>2. <<>> \in Seq(Requests) /\ Len(<<>>) = 0 /\ DOMAIN <<>> = {}
  BY EmptySeq
<1>3. LanesKept
  BY <1>1, <1>2 DEF LanesKept, Once
<1>4. \A x \in Requests : ~InLane(x)'
  BY <1>1, <1>2, ClassAssumption DEF InLane, Range
<1> QED BY <1>3, <1>4

\* The task of r moves on while the lanes stay as they are: a waiter goes on waiting
\* or withdraws, and only a task without a place in a lane ends.
Settled(r, s, f) ==
    /\ s \in Stages
    /\ \/ s = task[r]
       \/ task[r] \in Waiting /\ s \in Waiting \cup {"withdrawing"}
       \/ /\ ~InLane(r)
          /\ s \notin Waiting \cup {"idle"}
          /\ s = "counting" => future[r] = "pending"
    /\ \/ f = future[r]
       \/ future[r] = "pending" /\ f = "cancelled" /\ s \notin {"idle", "counting"}

TaskMoves(r) ==
    /\ lane' = lane
    /\ \E s, f : /\ Settled(r, s, f)
                 /\ task' = [task EXCEPT ![r] = s]
                 /\ future' = [future EXCEPT ![r] = f]

LEMMA SettledQueues ==
    ASSUME IInv, NEW r \in Requests, TaskMoves(r)
    PROVE  task' \in [Requests -> Stages] /\ LanesKept /\ \A x \in Requests : Queues(x)'
<1>0. /\ task \in [Requests -> Stages] /\ lane \in [Classes -> Seq(Requests)]
      /\ future \in [Requests -> {"pending", "granted", "rejected", "cancelled"}]
      /\ \A c \in Classes : Once(lane[c])
      /\ \A x \in Requests : Queues(x)
  BY QueuesAre DEF IInv, TypeOK, LanesFit
<1>1. PICK s, f : /\ Settled(r, s, f)
                  /\ task' = [task EXCEPT ![r] = s]
                  /\ future' = [future EXCEPT ![r] = f]
  BY DEF TaskMoves
<1>2. /\ task' \in [Requests -> Stages]
      /\ task'[r] = s /\ future'[r] = f
      /\ \A x \in Requests : x # r => task'[x] = task[x] /\ future'[x] = future[x]
  BY <1>0, <1>1 DEF Settled
<1>3. LanesKept /\ \A x \in Requests : InLane(x)' <=> InLane(x)
  BY <1>0 DEF TaskMoves, LanesKept, InLane
<1>4. \A x \in Requests : x # r => Queues(x)'
  BY <1>0, <1>2, <1>3 DEF Queues
<1>5. Queues(r)'
  <2>1. Queues(r) /\ Settled(r, s, f)
    BY <1>0, <1>1
  <2> QED BY <1>2, <1>3, <2>1 DEF Queues, Settled, Waiting
<1> QED BY <1>2, <1>3, <1>4, <1>5

LEMMA RequestTasks ==
    ASSUME IInv, NEW r \in Requests,
           \/ Begin(r) \/ Park(r) \/ Evict(r) \/ FreeVictim(r) \/ HaltVictim(r) \/ Wake(r)
           \/ Expire(r) \/ Finish(r)
    PROVE  TaskMoves(r)
<1>0. /\ task \in [Requests -> Stages] /\ Queues(r)
      /\ future = [future EXCEPT ![r] = future[r]]
  BY QueuesAre DEF IInv, TypeOK, LanesFit
<1>1. CASE Begin(r)
  <2>1. \E s \in {"counting", "done"} : task' = [task EXCEPT ![r] = s]
    BY <1>1 DEF Begin
  <2>2. future' = future /\ lane' = lane /\ ~InLane(r) /\ future[r] = "pending"
    BY <1>0, <1>1 DEF Begin, Queues, Waiting
  <2> QED BY <1>0, <2>1, <2>2 DEF TaskMoves, Settled, Stages, Waiting
<1>2. CASE Park(r) \/ Evict(r) \/ FreeVictim(r) \/ HaltVictim(r)
  <2>1. task[r] \in Waiting /\ lane' = lane /\ future' = future
    BY <1>2 DEF Park, Evict, FreeVictim, HaltVictim, Waiting
  <2>2. \E s \in {"queued", "evicting", "halting"} : task' = [task EXCEPT ![r] = s]
    BY <1>2 DEF Park, Evict, FreeVictim, HaltVictim
  <2> QED BY <1>0, <2>1, <2>2 DEF TaskMoves, Settled, Stages, Waiting
<1>3. CASE Wake(r)
  <2>1. \E s \in {"running", "done"} : task' = [task EXCEPT ![r] = s]
    BY <1>3 DEF Wake
  <2>2. future' = future /\ lane' = lane /\ ~InLane(r)
    BY <1>0, <1>3 DEF Wake, Queues
  <2> QED BY <1>0, <2>1, <2>2 DEF TaskMoves, Settled, Stages, Waiting
<1>4. CASE Expire(r)
  <2>1. /\ task[r] \in Waiting /\ lane' = lane
        /\ task' = [task EXCEPT ![r] = "withdrawing"]
    BY <1>4 DEF Expire, Waiting
  <2>2. \E f : /\ future' = [future EXCEPT ![r] = f]
               /\ f = future[r] \/ (future[r] = "pending" /\ f = "cancelled")
    BY <1>4 DEF Expire
  <2> QED BY <2>1, <2>2 DEF TaskMoves, Settled, Stages
<1>5. CASE Finish(r)
  <2>1. \E s \in {"leaving", "done"} : task' = [task EXCEPT ![r] = s]
    BY <1>5 DEF Finish, LeaveAdmit
  <2>2. future' = future /\ lane' = lane /\ ~InLane(r)
    BY <1>0, <1>5 DEF Finish, Queues, Waiting
  <2> QED BY <1>0, <2>1, <2>2 DEF TaskMoves, Settled, Stages, Waiting
<1> QED BY <1>1, <1>2, <1>3, <1>4, <1>5

LEMMA CancelTasks ==
    ASSUME IInv, NEW r \in Requests, Cancel(r)
    PROVE  TaskMoves(r)
<1>0. /\ task \in [Requests -> Stages] /\ Queues(r) /\ lane' = lane
      /\ future = [future EXCEPT ![r] = future[r]]
      /\ task = [task EXCEPT ![r] = task[r]]
      /\ task[r] \in Stages
  BY QueuesAre DEF IInv, TypeOK, LanesFit, Cancel
<1>1. ASSUME task[r] \in {"counting", "running", "leaving"}, future' = future,
             NEW s \in {"leaving", "done"}, task' = [task EXCEPT ![r] = s]
      PROVE  TaskMoves(r)
  <2>1. ~InLane(r)
    BY <1>0, <1>1 DEF Queues, Waiting
  <2>2. Settled(r, s, future[r])
    BY <1>1, <2>1 DEF Settled, Stages, Waiting
  <2> QED BY <1>0, <1>1, <2>2 DEF TaskMoves
<1>2. CASE \/ task[r] = "counting" /\ task' = [task EXCEPT ![r] = "done"] /\ future' = future
           \/ task[r] = "running" /\ LeaveAdmit(r) /\ future' = future
           \/ CancelFree(r)
  BY <1>1, <1>2 DEF LeaveAdmit, CancelFree
<1>3. CASE CancelWaiter(r) \/ CancelEviction(r)
  <2>1. task' = [task EXCEPT ![r] = "withdrawing"]
    BY <1>3 DEF CancelWaiter, CancelEviction
  <2>2. task[r] \in Waiting \/ task[r] = "withdrawing"
    BY <1>3 DEF CancelWaiter, CancelEviction, Waiting
  <2>3. \E f : /\ future' = [future EXCEPT ![r] = f]
               /\ f = future[r] \/ (future[r] = "pending" /\ f = "cancelled")
    BY <1>0, <1>3 DEF CancelWaiter, CancelEviction
  <2> QED BY <1>0, <2>1, <2>2, <2>3 DEF TaskMoves, Settled, Stages
<1>4. CASE UNCHANGED <<task, future>>
  <2>1. Settled(r, task[r], future[r])
    BY <1>0 DEF Settled
  <2> QED BY <1>0, <1>4, <2>1 DEF TaskMoves
<1> QED BY <1>2, <1>3, <1>4 DEF Cancel

\* A lease that is being released was granted: its task left the lane.
LEMMA ReleaseTasks ==
    ASSUME IInv, NEW r \in Requests, ReleaseStep(r)
    PROVE  TaskMoves(r)
<1>0. /\ task \in [Requests -> Stages] /\ Queues(r) /\ lane' = lane /\ future' = future
      /\ future = [future EXCEPT ![r] = future[r]]
      /\ task = [task EXCEPT ![r] = task[r]]
  BY QueuesAre DEF IInv, TypeOK, LanesFit, ReleaseStep, AbortRelease, Forget, Free
<1>1. ~InLane(r)
  <2>1. lease[r].stage # "none"
    BY DEF ReleaseStep, AbortRelease, Forget, Free
  <2> QED BY <1>0, <2>1 DEF IInv, LeasesFit, Untouched, Queues
<1>2. \E s \in {task[r], "done"} : task' = [task EXCEPT ![r] = s]
  BY <1>0 DEF ReleaseStep, AbortRelease, Forget, Free, TaskOver
<1>3. \A s \in {task[r], "done"} : Settled(r, s, future[r])
  BY <1>0, <1>1 DEF Settled, Stages, Waiting
<1> QED BY <1>0, <1>2, <1>3 DEF TaskMoves

LEMMA CountTasks ==
    ASSUME IInv, NEW r \in Requests, Count(r)
    PROVE  task' \in [Requests -> Stages] /\ LanesKept /\ \A x \in Requests : Queues(x)'
<1>0. /\ task \in [Requests -> Stages] /\ \A x \in Requests : Queues(x)
      /\ future' = future /\ future = [future EXCEPT ![r] = future[r]]
  BY QueuesAre DEF IInv, TypeOK, LanesFit, Count
<1>1. ~InLane(r) /\ future[r] = "pending"
  <2>1. task[r] = "counting" /\ Queues(r)
    BY <1>0 DEF Count
  <2> QED BY <2>1 DEF Queues, Waiting
<1>2. CASE lane' = lane /\ task' = [task EXCEPT ![r] = "done"]
  <2>1. Settled(r, "done", future[r])
    BY <1>1 DEF Settled, Stages, Waiting
  <2> QED BY <1>0, <1>2, <2>1, SettledQueues DEF TaskMoves
<1>3. CASE lane' = [lane EXCEPT ![ClassOf[r]] = Append(@, r)]
  <2>1. LanesKept /\ \A x \in Requests : InLane(x)' <=> InLane(x) \/ x = r
    BY <1>1, <1>3, JoinedLane
  <2>2. \E s \in {"saturated", "roomy", "queued"} : task' = [task EXCEPT ![r] = s]
    <3>1. CASE task' = [task EXCEPT ![r] = "done"] /\ lane' = lane
      BY <1>1, <2>1, <3>1 DEF InLane
    <3> QED BY <3>1 DEF Count
  <2>3. /\ task' \in [Requests -> Stages] /\ task'[r] \in Waiting
        /\ \A x \in Requests : x # r => task'[x] = task[x]
    BY <1>0, <2>2 DEF Stages, Waiting
  <2>4. \A x \in Requests : x # r => Queues(x)'
    BY <1>0, <2>1, <2>3 DEF Queues
  <2>5. Queues(r)'
    BY <1>0, <1>1, <2>1, <2>3 DEF Queues, Waiting
  <2> QED BY <2>1, <2>3, <2>4, <2>5
<1> QED BY <1>2, <1>3 DEF Count

LEMMA WithdrawTasks ==
    ASSUME IInv, NEW r \in Requests, Withdraw(r)
    PROVE  task' \in [Requests -> Stages] /\ LanesKept /\ \A x \in Requests : Queues(x)'
<1>0. /\ task \in [Requests -> Stages] /\ \A x \in Requests : Queues(x)
      /\ future \in [Requests -> {"pending", "granted", "rejected", "cancelled"}]
  BY QueuesAre DEF IInv, TypeOK, LanesFit
<1>1. LanesKept /\ \A x \in Requests : InLane(x)' <=> InLane(x) /\ x # r
  BY LeftLane DEF Withdraw
<1>2. \E s \in {"leaving", "done"} : task' = [task EXCEPT ![r] = s]
  BY DEF Withdraw, LeaveAdmit
<1>3. \E f : future' = [future EXCEPT ![r] = f]
  BY DEF Withdraw
<1>4. /\ task' \in [Requests -> Stages] /\ task'[r] \in {"leaving", "done"}
      /\ \A x \in Requests : x # r => task'[x] = task[x] /\ future'[x] = future[x]
  BY <1>0, <1>2, <1>3 DEF Stages
<1>5. \A x \in Requests : x # r => Queues(x)'
  BY <1>0, <1>1, <1>4 DEF Queues
<1>6. Queues(r)'
  BY <1>1, <1>4 DEF Queues, Waiting
<1> QED BY <1>1, <1>4, <1>5, <1>6

LEMMA PumpTasks ==
    ASSUME IInv, PumpDrop \/ PumpGrant \/ ShutEnd
    PROVE  task' \in [Requests -> Stages] /\ LanesKept /\ \A x \in Requests : Queues(x)'
<1>0. /\ task \in [Requests -> Stages] /\ \A x \in Requests : Queues(x)
      /\ future \in [Requests -> {"pending", "granted", "rejected", "cancelled"}]
      /\ task' = task
  BY QueuesAre DEF IInv, TypeOK, LanesFit, PumpDrop, PumpGrant, ShutEnd
<1>1. CASE PumpDrop
  <2> DEFINE h == Head(lane[pump.class])
  <2>1. /\ LanesKept /\ h \in Requests
        /\ \A x \in Requests : InLane(x)' => InLane(x)
        /\ \A x \in Requests : InLane(x) /\ x # h => InLane(x)'
    <3>1. pump.class \in Classes
      BY DEF IInv, TypeOK, Pump
    <3> QED BY <1>1, <3>1, DroppedHead DEF PumpDrop
  <2>2. future' = future /\ future[h] # "pending"
    BY <1>1 DEF PumpDrop
  <2> HIDE DEF h
  <2> QED BY <1>0, <2>1, <2>2 DEF Queues
<1>2. CASE PumpGrant
  <2>1. PICK w \in Requests : w = pump.waiter
    BY <1>2 DEF IInv, PumpFits, PumpGrant
  <2>2. LanesKept /\ \A x \in Requests : InLane(x)' <=> InLane(x) /\ x # w
    BY <1>2, <2>1, LeftLane DEF PumpGrant
  <2>3. \/ InLane(w) /\ future[w] = "pending" /\ future' = [future EXCEPT ![w] = "granted"]
        \/ ~(InLane(w) /\ future[w] = "pending") /\ future' = future
    BY <1>2, <2>1 DEF PumpGrant
  <2>4. \A x \in Requests : x # w => Queues(x)'
    BY <1>0, <2>1, <2>2, <2>3 DEF Queues
  <2>5. Queues(w)'
    <3>1. Queues(w)
      BY <1>0, <2>1
    <3> QED BY <1>0, <2>1, <2>2, <2>3, <3>1 DEF Queues, Waiting
  <2> QED BY <1>0, <2>2, <2>4, <2>5
<1>3. CASE ShutEnd
  <2>1. LanesKept /\ \A x \in Requests : ~InLane(x)'
    BY <1>3, EmptiedLanes DEF ShutEnd, RejectOwnWaiters
  <2>2. \A x \in Requests :
           future'[x] = IF InLane(x) /\ future[x] = "pending" THEN "rejected" ELSE future[x]
    BY <1>3 DEF ShutEnd, RejectOwnWaiters
  <2> QED BY <1>0, <2>1, <2>2 DEF Queues, Waiting
<1> QED BY <1>1, <1>2, <1>3

LEMMA LanesStep ==
    ASSUME IInv, [Next]_vars
    PROVE  task' \in [Requests -> Stages] /\ LanesKept /\ LanesFit' /\ WaitersAreQueued'
<1>1. ASSUME NEW r \in Requests,
             \/ Resume(r) \/ Begin(r) \/ Expire(r) \/ Finish(r) \/ Cancel(r) \/ ReleaseStep(r)
      PROVE  task' \in [Requests -> Stages] /\ LanesKept /\ \A x \in Requests : Queues(x)'
  <2>1. TaskMoves(r) \/ Count(r) \/ Withdraw(r)
    BY <1>1, RequestTasks, CancelTasks, ReleaseTasks DEF Resume
  <2> QED BY <2>1, SettledQueues, CountTasks, WithdrawTasks
<1>2. ASSUME UNCHANGED <<task, future, lane>>
      PROVE  task' \in [Requests -> Stages] /\ LanesKept /\ \A x \in Requests : Queues(x)'
  BY <1>2, QueuesAre DEF IInv, TypeOK, LanesFit, LanesKept, Queues, InLane
<1>3. ASSUME NEW r \in Requests, RenewMiss(r) \/ Lapse(r) \/ ShutRelease(r)
      PROVE  UNCHANGED <<task, future, lane>>
  BY <1>3 DEF RenewMiss, Lapse, ShutRelease
<1>4. ASSUME NEW h \in Remotes, RemoteAcquire(h) \/ RemoteRelease(h)
      PROVE  UNCHANGED <<task, future, lane>>
  BY <1>4 DEF RemoteAcquire, RemoteRelease
<1>5. ASSUME PumpAdvance \/ PumpTry \/ PumpRefused \/ ShutBegin \/ GoDown \/ ComeUp \/ UNCHANGED vars
      PROVE  UNCHANGED <<task, future, lane>>
  BY <1>5 DEF PumpAdvance, PumpTry, PumpRefused, ShutBegin, GoDown, ComeUp, vars
<1>6. task' \in [Requests -> Stages] /\ LanesKept /\ \A x \in Requests : Queues(x)'
  BY <1>1, <1>2, <1>3, <1>4, <1>5, PumpTasks DEF Next, PumpStep, Shutdown
<1>7. (\A r \in Requests : Queues(r)') /\ (\A c \in Classes : Once(lane'[c]))
        <=> LanesFit' /\ WaitersAreQueued'
  BY DEF Queues, LanesFit, WaitersAreQueued
<1> QED BY <1>6, <1>7 DEF LanesKept

-------------------------------------------------------------------------------
(* The invariant holds.                                                        *)

LEMMA InvInit == Init => IInv
<1> SUFFICES ASSUME Init PROVE IInv
  OBVIOUS
<1>1. /\ NoLease \in Lease /\ Untouched(NoLease) /\ ~CountedLease(NoLease)
      /\ NoLease.stage = "none" /\ ~NoLease.bound
  BY DEF NoLease, Lease, Untouched, CountedLease
<1>2. PumpOff \in Pump /\ PumpOff.stage = "off"
  BY DEF PumpOff, PumpAt, Pump, Classes
<1>3. \A c \in Classes : lane[c] = <<>>
  BY DEF Init
<1>4. <<>> \in Seq(Requests) /\ Len(<<>>) = 0 /\ DOMAIN <<>> = {}
  BY EmptySeq
<1>5. \A r \in Requests : ~InLane(r)
  BY <1>3, <1>4, ClassAssumption DEF InLane, Range
<1>6. IsFiniteSet({}) /\ Cardinality({}) = 0
  BY FS_EmptySet
<1>7. TypeOK
  BY <1>1, <1>2, <1>4 DEF Init, TypeOK, Stages
<1>8. LanesFit /\ WaitersAreQueued
  BY <1>3, <1>4, <1>5 DEF Init, LanesFit, WaitersAreQueued, Once, Waiting
<1>9. LeasesFit /\ VictimsAreRevoked /\ PumpFits
  BY <1>1, <1>2 DEF Init, LeasesFit, VictimsAreRevoked, PumpFits
<1>10. OneBudget /\ StoreFits
  BY <1>1, <1>6 DEF Init, OneBudget, Counted, StoreFits
<1> QED BY <1>7, <1>8, <1>9, <1>10 DEF IInv

LEMMA RestStep ==
    ASSUME IInv, [Next]_vars
    PROVE  /\ cancelled' \subseteq Requests
           /\ shut' \in [stage : {"off", "on", "over"}, todo : SUBSET Requests]
<1>0. /\ cancelled \subseteq Requests
      /\ shut \in [stage : {"off", "on", "over"}, todo : SUBSET Requests]
  BY DEF IInv, TypeOK
<1>1. ASSUME NEW r \in Requests, Cancel(r)
      PROVE  cancelled' = cancelled \cup {r} /\ shut' = shut
  BY <1>1 DEF Cancel
<1>2. CASE ShutBegin \/ ShutEnd \/ \E r \in Requests : ShutRelease(r)
  BY <1>0, <1>2 DEF ShutBegin, ShutEnd, ShutRelease
<1>3. ASSUME NEW r \in Requests,
             \/ Begin(r) \/ Count(r) \/ Park(r) \/ Evict(r) \/ FreeVictim(r) \/ HaltVictim(r)
             \/ Wake(r) \/ Withdraw(r) \/ Expire(r) \/ Finish(r) \/ AbortRelease(r)
             \/ Forget(r) \/ Free(r) \/ RenewMiss(r) \/ Lapse(r)
      PROVE  UNCHANGED <<cancelled, shut>>
  BY <1>3 DEF Begin, Count, Park, Evict, FreeVictim, HaltVictim, Wake, Withdraw, Expire, Finish,
     AbortRelease, Forget, Free, RenewMiss, Lapse
<1>4. ASSUME NEW h \in Remotes, RemoteAcquire(h) \/ RemoteRelease(h)
      PROVE  UNCHANGED <<cancelled, shut>>
  BY <1>4 DEF RemoteAcquire, RemoteRelease
<1>5. ASSUME \/ PumpAdvance \/ PumpDrop \/ PumpTry \/ PumpRefused \/ PumpGrant
             \/ GoDown \/ ComeUp \/ UNCHANGED vars
      PROVE  UNCHANGED <<cancelled, shut>>
  BY <1>5 DEF PumpAdvance, PumpDrop, PumpTry, PumpRefused, PumpGrant, GoDown, ComeUp, vars
<1> QED BY <1>0, <1>1, <1>2, <1>3, <1>4, <1>5
        DEF Next, Resume, ReleaseStep, PumpStep, Shutdown

LEMMA InvStep == IInv /\ [Next]_vars => IInv'
<1> SUFFICES ASSUME IInv, [Next]_vars PROVE IInv'
  OBVIOUS
<1>1. lease' \in [Requests -> Lease]
  <2>1. CASE Granting
    <3>1. PICK b \in BOOLEAN : b = (pump.got = "slot")
      OBVIOUS
    <3> QED BY <2>1, <3>1, GrantedLeaseFields DEF Granting, IInv, TypeOK
  <2> QED BY <2>1, LeaseStep DEF LeasesMove
<1>2. future' \in [Requests -> {"pending", "granted", "rejected", "cancelled"}]
  BY FutureStep DEF AnswersStay, Granting, IInv, TypeOK
<1>3. TypeOK'
  BY <1>1, <1>2, LanesStep, VictimsStep, PumpMovesStep, BudgetHolds, OutageStep, RestStep
     DEF TypeOK, LanesKept, PumpMoves
<1> QED BY <1>3, LanesStep, LeasesFitStep, VictimsStep, PumpFitsStep, OneBudgetStep DEF IInv

LEMMA Invariant == Spec => []IInv
BY InvInit, InvStep, PTL DEF Spec

\* Over all processes the store never holds more than the budget, and unless it was
\* unreachable every lease that was neither evicted nor released has its slot there.
THEOREM AdmissionHolds == Spec => []Inv
<1>1. IInv => Inv
  BY DEF IInv, Inv
<1> QED BY Invariant, <1>1, PTL

\* A request that waits for an answer is in its lane, where the pump finds it, and
\* one that withdrew is not, so no lease is made for nobody.
THEOREM WaitersStayQueued == Spec => []WaitersAreQueued
<1>1. IInv => WaitersAreQueued
  BY DEF IInv
<1> QED BY Invariant, <1>1, PTL

-------------------------------------------------------------------------------
(* Slots and their owners.  A store that is reachable, and tasks that are       *)
(* cancelled while they wait but not once they hold a lease: anything else      *)
(* leaves a slot to its TTL, as the code intends.                               *)

Quiet == MaxOutages = 0 /\ Cancellable \subseteq {"counting", "queued"}

\* A refused waiter has no entry of its own.
TriesAreBound ==
    pump.stage = "trying" =>
        pump.got # "open" /\ (pump.got = "refused" => pump.waiter \notin store)

LeasesAreBound ==
    \A r \in Requests :
        /\ lease[r].stage # "none" => lease[r].bound
        /\ future[r] = "granted" => lease[r].stage # "none"

\* Nobody that was cancelled gets a lease any more.
CancelledGetNoLease ==
    \A r \in cancelled :
        \/ future[r] \in {"cancelled", "rejected"}
        \/ future[r] = "pending" /\ task[r] = "done"

\* A task waits for the release it began.
ReleasersLeave ==
    \A r \in Requests :
        lease[r].stage \in {"stopping", "freeing"} /\ lease[r].by = "task" => task[r] = "leaving"

SlotIsOwned(r) ==
    IF future[r] # "granted"
    THEN pump.stage = "trying" /\ pump.waiter = r
    ELSE /\ lease[r].stage = "over" => lease[r].revoked
         /\ lease[r].revoked =>
              \E e \in Requests : task[e] = "evicting" /\ victim[e] = r

Calm ==
    /\ TriesAreBound /\ LeasesAreBound /\ CancelledGetNoLease /\ ReleasersLeave
    /\ \A r \in store \cap Requests : SlotIsOwned(r)

LEMMA StaysUp == IInv /\ Quiet => up
BY DEF IInv, TypeOK, StoreFits, Quiet

LEMMA QuietCancel ==
    ASSUME IInv, Quiet, NEW r \in Requests, Cancel(r)
    PROVE  /\ UNCHANGED <<lease, store, victim>>
           /\ task[r] \in {"counting", "queued"}
           /\ \E s \in {"done", "withdrawing"} : task' = [task EXCEPT ![r] = s]
           /\ \/ future'[r] \in {"cancelled", "rejected"}
              \/ future'[r] = "pending" /\ task'[r] = "done"
<1>0. /\ Queues(r) /\ task \in [Requests -> Stages]
      /\ future \in [Requests -> {"pending", "granted", "rejected", "cancelled"}]
  BY QueuesAre DEF IInv, TypeOK, LanesFit
<1>1. /\ task[r] \in {"counting", "queued"}
      /\ task[r] = "queued" => future[r] # "granted"
  BY DEF Cancel, Quiet, Found, Waiting
<1>2. CASE task[r] = "counting"
  <2>1. task' = [task EXCEPT ![r] = "done"] /\ UNCHANGED <<future, lease, store, victim>>
    BY <1>2 DEF Cancel, CancelWaiter, CancelEviction, CancelFree
  <2>2. future[r] = "pending"
    BY <1>0, <1>2 DEF Queues
  <2> QED BY <1>0, <1>1, <2>1, <2>2
<1>3. CASE task[r] = "queued"
  <2>1. CancelWaiter(r) /\ victim' = victim
    BY <1>3 DEF Cancel, CancelEviction, CancelFree
  <2>2. /\ task' = [task EXCEPT ![r] = "withdrawing"] /\ UNCHANGED <<lease, store>>
        /\ future' = [future EXCEPT ![r] = IF @ = "pending" THEN "cancelled" ELSE @]
    BY <1>3, <2>1 DEF CancelWaiter
  <2>3. future'[r] \in {"cancelled", "rejected"}
    BY <1>0, <1>1, <1>3, <2>2
  <2> QED BY <1>1, <2>1, <2>2, <2>3
<1> QED BY <1>1, <1>2, <1>3

LEMMA NobodyReraises ==
    ASSUME IInv, Calm, NEW r \in Requests
    PROVE  ~AbortRelease(r)
BY DEF IInv, LeasesFit, Untouched, Calm, CancelledGetNoLease, AbortRelease, Reraises

\* What a step makes of a lease: it ends with its slot back, or after an eviction; the
\* task that begins its release leaves; and it is revoked by an eviction.
Settles(r) ==
    /\ \/ lease'[r].stage = lease[r].stage /\ lease'[r].by = lease[r].by
       \/ lease'[r].stage = "held"
       \/ lease'[r].stage = "over" /\ (r \notin store' \/ lease'[r].revoked)
       \/ lease'[r].stage = "stopping" /\ (lease'[r].by = "task" => task'[r] = "leaving")
       \/ /\ lease[r].stage = "stopping" /\ lease'[r].stage = "freeing"
          /\ lease'[r].by = lease[r].by /\ task' = task
    /\ lease'[r].revoked =>
         \/ lease[r].revoked
         \/ r \notin store'
         \/ \E e \in Requests : task'[e] = "evicting" /\ victim'[e] = r

LEMMA RequestsSettle ==
    ASSUME IInv, NEW r \in Requests,
           Evict(r) \/ FreeVictim(r) \/ HaltVictim(r) \/ Withdraw(r) \/ Finish(r)
    PROVE  \A x \in Requests : Settles(x)
<1>0. /\ TypeOK /\ \A x \in Requests : lease[x] \in Lease
      /\ task \in [Requests -> Stages] /\ victim \in [Requests -> Requests \cup {Nobody}]
      /\ lease \in [Requests -> Lease]
  BY DEF IInv, TypeOK
<1>1. CASE Evict(r)
  <2>1. PICK v \in Evictable :
            /\ victim' = [victim EXCEPT ![r] = v]
            /\ lease' = [lease EXCEPT ![v].revoked = TRUE, ![v].listed = FALSE, ![v].local = FALSE]
    BY <1>1 DEF Evict
  <2>2. v \in Requests /\ lease[v] \in Lease
    BY <1>0, <2>1 DEF Evictable
  <2>3. lease'[v].stage = lease[v].stage /\ lease'[v].by = lease[v].by
    BY <1>0, <2>1, <2>2 DEF Lease
  <2>4. task'[r] = "evicting" /\ victim'[r] = v
    BY <1>0, <1>1, <2>1 DEF Evict
  <2>5. \A x \in Requests : x # v => lease'[x] = lease[x]
    BY <1>0, <2>1, <2>2
  <2> QED BY <2>2, <2>3, <2>4, <2>5 DEF Settles
<1>2. CASE FreeVictim(r) \/ HaltVictim(r)
  <2> DEFINE v == victim[r]
  <2>1. v \in Requests
    BY <1>2 DEF IInv, VictimsAreRevoked, FreeVictim, HaltVictim
  <2>2. \E n : lease' = [lease EXCEPT ![v].renewer = n]
    BY <1>2 DEF FreeVictim, HaltVictim
  <2> HIDE DEF v
  <2>3. /\ lease'[v].stage = lease[v].stage /\ lease'[v].by = lease[v].by
        /\ lease'[v].revoked = lease[v].revoked
        /\ \A x \in Requests : x # v => lease'[x] = lease[x]
    <3>1. lease[v] \in Lease
      BY <1>0, <2>1
    <3> QED BY <1>0, <2>1, <2>2, <3>1 DEF Lease
  <2> QED BY <2>1, <2>3 DEF Settles
<1>3. CASE Withdraw(r) \/ Finish(r)
  <2>1. \/ lease' = lease
        \/ lease' = Released(r, "task") /\ task' = [task EXCEPT ![r] = "leaving"]
    BY <1>3 DEF Withdraw, Finish, LeaveAdmit
  <2>2. CASE lease' = lease
    BY <2>2 DEF Settles
  <2>3. CASE lease' = Released(r, "task") /\ task' = [task EXCEPT ![r] = "leaving"]
    <3>1. task'[r] = "leaving"
      BY <1>0, <2>3
    <3> QED BY <1>0, <2>3, <3>1, ReleasedLease DEF Settles
  <2> QED BY <2>1, <2>2, <2>3
<1> QED BY <1>1, <1>2, <1>3

LEMMA ReleasesSettle ==
    ASSUME IInv, Quiet, Calm, NEW r \in Requests,
           ReleaseStep(r) \/ RenewMiss(r) \/ ShutRelease(r)
    PROVE  \A x \in Requests : Settles(x)
<1>0. /\ TypeOK /\ \A x \in Requests : lease[x] \in Lease
      /\ lease \in [Requests -> Lease]
  BY DEF IInv, TypeOK
<1>1. CASE Forget(r)
  <2> DEFINE m(s) == [[lease[r] EXCEPT !.listed = FALSE, !.local = FALSE, !.renewer = "none"]
                        EXCEPT !.stage = s]
  <2>1. /\ lease[r].stage = "stopping" /\ lease[r].bound
        /\ \/ lease' = [lease EXCEPT ![r] = m("freeing")] /\ task' = task
           \/ lease' = [lease EXCEPT ![r] = m("over")] /\ lease[r].revoked
    BY <1>1 DEF Forget, Calm, LeasesAreBound
  <2>2. \A s : /\ m(s).stage = s /\ m(s).by = lease[r].by
               /\ m(s).revoked = lease[r].revoked
    BY <1>0 DEF Lease
  <2> HIDE DEF m
  <2>3. \A x \in Requests : x # r => lease'[x] = lease[x]
    BY <1>0, <2>1
  <2>4. Settles(r)
    <3>1. CASE lease' = [lease EXCEPT ![r] = m("freeing")] /\ task' = task
      <4>1. lease'[r] = m("freeing")
        BY <1>0, <3>1
      <4> QED BY <2>1, <2>2, <3>1, <4>1 DEF Settles
    <3>2. CASE lease' = [lease EXCEPT ![r] = m("over")] /\ lease[r].revoked
      <4>1. lease'[r] = m("over")
        BY <1>0, <3>2
      <4> QED BY <2>2, <3>2, <4>1 DEF Settles
    <3> QED BY <2>1, <3>1, <3>2
  <2> QED BY <2>3, <2>4 DEF Settles
<1>2. CASE Free(r)
  <2>1. r \notin store' /\ lease' = [lease EXCEPT ![r].stage = "over"]
    BY <1>2, StaysUp DEF Free, StoreWithout
  <2>2. lease'[r].stage = "over" /\ \A x \in Requests : x # r => lease'[x] = lease[x]
    <3>1. lease[r] \in Lease
      BY <1>0
    <3> QED BY <1>0, <2>1, <3>1 DEF Lease
  <2> QED BY <2>1, <2>2 DEF Settles
<1>3. CASE RenewMiss(r)
  <2>1. /\ r \notin store' /\ lease[r] \in Lease
        /\ lease' = [lease EXCEPT ![r].revoked = TRUE, ![r].renewer = "ended"]
    BY <1>0, <1>3 DEF RenewMiss
  <2>2. /\ lease'[r].stage = lease[r].stage /\ lease'[r].by = lease[r].by
        /\ \A x \in Requests : x # r => lease'[x] = lease[x]
    BY <1>0, <2>1 DEF Lease
  <2> QED BY <2>1, <2>2 DEF Settles
<1>4. CASE ShutRelease(r)
  <2>1. lease' = lease \/ lease' = Released(r, "shutdown")
    BY <1>4 DEF ShutRelease
  <2>2. CASE lease' = lease
    BY <2>2 DEF Settles
  <2>3. CASE lease' = Released(r, "shutdown")
    BY <1>0, <2>3, ReleasedLease DEF Settles
  <2> QED BY <2>1, <2>2, <2>3
<1> QED BY <1>1, <1>2, <1>3, <1>4, NobodyReraises DEF ReleaseStep

LEMMA LeasesSettle ==
    ASSUME IInv, Quiet, Calm, [Next]_vars
    PROVE  \A r \in Requests : Settles(r)
<1>0. /\ TypeOK /\ \A x \in Requests : lease[x] \in Lease
      /\ lease \in [Requests -> Lease]
  BY DEF IInv, TypeOK
<1>1. ASSUME PumpGrant PROVE \A r \in Requests : Settles(r)
  <2>1. CASE lease' = lease
    BY <2>1 DEF Settles
  <2>2. CASE lease' = [lease EXCEPT ![pump.waiter] = GrantedLease(pump.got = "slot")]
    <3>1. PICK b \in BOOLEAN : b = (pump.got = "slot")
      OBVIOUS
    <3>2. PICK w \in Requests : w = pump.waiter
      BY <1>1 DEF IInv, PumpFits, PumpGrant
    <3>3. lease'[w] = GrantedLease(b) /\ \A x \in Requests : x # w => lease'[x] = lease[x]
      BY <1>0, <2>2, <3>1, <3>2
    <3> QED BY <3>3, GrantedLeaseFields DEF Settles
  <2> QED BY <1>1, <2>1, <2>2 DEF PumpGrant
<1>2. ASSUME ShutEnd PROVE \A r \in Requests : Settles(r)
  <2>1. ASSUME NEW r \in Requests PROVE Settles(r)
    <3>1. lease[r] \in Lease /\ lease'[r] = [lease[r] EXCEPT !.local = FALSE]
      BY <1>0, <1>2 DEF ShutEnd
    <3>2. /\ lease'[r].stage = lease[r].stage /\ lease'[r].by = lease[r].by
          /\ lease'[r].revoked = lease[r].revoked
      BY <3>1 DEF Lease
    <3> QED BY <3>2 DEF Settles
  <2> QED BY <2>1
<1>3. ASSUME NEW r \in Requests,
             \/ Begin(r) \/ Count(r) \/ Park(r) \/ Wake(r) \/ Expire(r) \/ Lapse(r) \/ Cancel(r)
      PROVE  lease' = lease
  BY <1>3, QuietCancel DEF Begin, Count, Park, Wake, Expire, Lapse
<1>4. ASSUME NEW h \in Remotes, RemoteAcquire(h) \/ RemoteRelease(h) PROVE lease' = lease
  BY <1>4 DEF RemoteAcquire, RemoteRelease
<1>5. ASSUME \/ PumpAdvance \/ PumpDrop \/ PumpTry \/ PumpRefused
             \/ ShutBegin \/ GoDown \/ ComeUp \/ UNCHANGED vars
      PROVE  lease' = lease
  BY <1>5 DEF PumpAdvance, PumpDrop, PumpTry, PumpRefused, ShutBegin, GoDown, ComeUp, vars
<1>6. CASE lease' = lease
  BY <1>6 DEF Settles
<1> QED BY <1>1, <1>2, <1>3, <1>4, <1>5, <1>6, RequestsSettle, ReleasesSettle
        DEF Next, Resume, PumpStep, Shutdown

\* A task that ended stays so, one that leaves waits for its release, and an eviction
\* goes on until the slot of its victim is back.
Advances(r) ==
    /\ task[r] = "done" => task'[r] = "done"
    /\ task[r] = "leaving" => task'[r] = "leaving" \/ lease'[r].stage = "over"
    /\ task[r] = "evicting" => \/ task'[r] = "evicting" /\ victim'[r] = victim[r]
                               \/ victim[r] \notin store'

LEMMA TasksAdvance ==
    ASSUME IInv, Quiet, Calm, [Next]_vars
    PROVE  \A r \in Requests : Advances(r)
<1>0. /\ task \in [Requests -> Stages] /\ victim \in [Requests -> Requests \cup {Nobody}]
      /\ \A x \in Requests : lease[x] \in Lease
      /\ lease \in [Requests -> Lease]
  BY DEF IInv, TypeOK
<1>1. ASSUME NEW r \in Requests, ReleaseStep(r) PROVE \A x \in Requests : Advances(x)
  <2>1. /\ victim' = victim
        /\ \/ task' = task
           \/ /\ task' = [task EXCEPT ![r] = "done"]
              /\ task[r] = "leaving" /\ lease'[r].stage = "over"
    <3>1. CASE Forget(r)
      <4>1. lease'[r].stage = "over" \/ task' = task
        <5>1. CASE lease[r].bound /\ ~lease[r].revoked
          BY <3>1, <5>1 DEF Forget
        <5>2. CASE ~(lease[r].bound /\ ~lease[r].revoked)
          <6>1. lease'[r] = [[lease[r] EXCEPT !.listed = FALSE, !.local = FALSE,
                                              !.renewer = "none"] EXCEPT !.stage = "over"]
            BY <1>0, <3>1, <5>2 DEF Forget
          <6> QED BY <1>0, <6>1 DEF Lease
        <5> QED BY <5>1, <5>2
      <4>2. task' = task \/ (task' = [task EXCEPT ![r] = "done"] /\ task[r] = "leaving")
        BY <3>1 DEF Forget, TaskOver, Calm, ReleasersLeave
      <4> QED BY <3>1, <4>1, <4>2 DEF Forget
    <3>2. CASE Free(r)
      <4>1. lease'[r].stage = "over"
        BY <1>0, <3>2 DEF Free, Lease
      <4>2. task' = task \/ (task' = [task EXCEPT ![r] = "done"] /\ task[r] = "leaving")
        BY <3>2 DEF Free, TaskOver, Calm, ReleasersLeave
      <4> QED BY <3>2, <4>1, <4>2 DEF Free
    <3> QED BY <1>1, <3>1, <3>2, NobodyReraises DEF ReleaseStep
  <2> QED BY <1>0, <2>1 DEF Advances
<1>2. ASSUME NEW r \in Requests, FreeVictim(r) PROVE \A x \in Requests : Advances(x)
  <2>1. victim[r] \notin store' /\ victim' = victim
    BY <1>2, StaysUp DEF FreeVictim, StoreWithout
  <2>2. task[r] = "evicting" /\ task' = [task EXCEPT ![r] = "halting"]
    BY <1>2 DEF FreeVictim
  <2> QED BY <1>0, <2>1, <2>2 DEF Advances
<1>3. ASSUME NEW r \in Requests,
             \/ Begin(r) \/ Count(r) \/ Park(r) \/ Evict(r) \/ HaltVictim(r) \/ Wake(r)
             \/ Withdraw(r) \/ Expire(r) \/ Finish(r) \/ Cancel(r)
      PROVE  \A x \in Requests : Advances(x)
  <2>1. /\ task[r] \notin {"done", "leaving", "evicting"}
        /\ \E s : task' = [task EXCEPT ![r] = s]
        /\ victim' = victim \/ \E v : victim' = [victim EXCEPT ![r] = v]
    <3>1. CASE Cancel(r)
      BY <3>1, QuietCancel
    <3>2. CASE Evict(r) \/ HaltVictim(r) \/ Withdraw(r)
      BY <3>2 DEF Evict, HaltVictim, Withdraw, LeaveAdmit
    <3>3. CASE Begin(r) \/ Count(r) \/ Park(r) \/ Wake(r) \/ Expire(r) \/ Finish(r)
      BY <3>3 DEF Begin, Count, Park, Wake, Expire, Finish, LeaveAdmit
    <3> QED BY <1>3, <3>1, <3>2, <3>3
  <2> QED BY <1>0, <2>1 DEF Advances
<1>4. ASSUME NEW r \in Requests, RenewMiss(r) \/ Lapse(r) \/ ShutRelease(r)
      PROVE  UNCHANGED <<task, victim>>
  BY <1>4 DEF RenewMiss, Lapse, ShutRelease
<1>5. ASSUME NEW h \in Remotes, RemoteAcquire(h) \/ RemoteRelease(h)
      PROVE  UNCHANGED <<task, victim>>
  BY <1>5 DEF RemoteAcquire, RemoteRelease
<1>6. ASSUME \/ PumpStep \/ ShutBegin \/ ShutEnd \/ GoDown \/ ComeUp \/ UNCHANGED vars
      PROVE  UNCHANGED <<task, victim>>
  BY <1>6 DEF PumpStep, PumpAdvance, PumpDrop, PumpTry, PumpRefused, PumpGrant,
     ShutBegin, ShutEnd, GoDown, ComeUp, vars
<1>7. CASE UNCHANGED <<task, victim>>
  BY <1>7 DEF Advances
<1> QED BY <1>1, <1>2, <1>3, <1>4, <1>5, <1>6, <1>7 DEF Next, Resume, Shutdown

\* Only the pump puts an entry of this process into the store.
LEMMA Acquired ==
    ASSUME IInv, [Next]_vars, NEW r \in Requests, r \notin store, r \in store'
    PROVE  /\ PumpTry /\ pump'.stage = "trying" /\ pump'.waiter = r
           /\ future[r] = "pending" /\ future' = future
<1>1. ASSUME PumpTry
      PROVE  /\ pump'.stage = "trying" /\ pump'.waiter = r
             /\ future[r] = "pending" /\ future' = future
  <2>1. /\ r = Head(lane[pump.class]) /\ future' = future
        /\ pump' = [[pump EXCEPT !.stage = "trying", !.waiter = r] EXCEPT !.got = "slot"]
    BY <1>1 DEF PumpTry
  <2> QED BY <1>1, <2>1 DEF PumpTry, IInv, TypeOK, Pump
<1>2. ASSUME NEW x \in Requests,
             \/ Begin(x) \/ Count(x) \/ Park(x) \/ Evict(x) \/ FreeVictim(x) \/ HaltVictim(x)
             \/ Wake(x) \/ Expire(x) \/ Withdraw(x) \/ Finish(x) \/ Cancel(x) \/ AbortRelease(x)
             \/ Forget(x) \/ Free(x) \/ RenewMiss(x) \/ Lapse(x) \/ ShutRelease(x)
      PROVE  store' \subseteq store
  BY <1>2 DEF Begin, Count, Park, Evict, FreeVictim, HaltVictim, Wake, Expire, Withdraw, Finish,
     Cancel, CancelWaiter, CancelEviction, CancelFree, AbortRelease, Forget, Free, RenewMiss,
     Lapse, ShutRelease, StoreWithout
<1>3. ASSUME NEW h \in Remotes, RemoteAcquire(h) \/ RemoteRelease(h)
      PROVE  r \notin store'
  <2>1. r # h
    BY HolderAssumption
  <2> QED BY <1>3, <2>1 DEF RemoteAcquire, RemoteRelease
<1>4. ASSUME \/ PumpAdvance \/ PumpDrop \/ PumpRefused \/ PumpGrant \/ ShutBegin \/ ShutEnd
             \/ GoDown \/ ComeUp \/ UNCHANGED vars
      PROVE  store' \subseteq store
  BY <1>4 DEF PumpAdvance, PumpDrop, PumpRefused, PumpGrant, StoreWithout, ShutBegin, ShutEnd,
     GoDown, ComeUp, vars
<1> QED BY <1>1, <1>2, <1>3, <1>4 DEF Next, Resume, ReleaseStep, PumpStep, Shutdown

\* The slot held for a waiter is delivered with its lease or given back.
LEMMA HandedOver ==
    ASSUME IInv, Quiet, Calm, [Next]_vars, NEW r \in Requests, r \in store, r \in store',
           pump.stage = "trying", pump.waiter = r
    PROVE  (pump'.stage = "trying" /\ pump'.waiter = r) \/ Granting
<1>0. pump.got = "slot"
  BY DEF Calm, TriesAreBound, IInv, TypeOK, Pump
<1>1. ~PumpRefused /\ ~PumpAdvance /\ ~PumpDrop /\ ~PumpTry
  BY <1>0 DEF PumpRefused, PumpAdvance, PumpDrop, PumpTry
<1>2. ASSUME PumpGrant PROVE Granting
  <2>1. InLane(pump.waiter) /\ future[pump.waiter] = "pending"
    BY <1>0, <1>2, StaysUp DEF PumpGrant, StoreWithout
  <2> QED BY <1>2, <2>1 DEF PumpGrant, Granting, PumpAt
<1>3. ASSUME NEW x \in Requests,
             \/ Begin(x) \/ Evict(x) \/ FreeVictim(x) \/ Wake(x) \/ Expire(x) \/ Withdraw(x)
             \/ Finish(x) \/ AbortRelease(x) \/ RenewMiss(x) \/ Lapse(x) \/ Cancel(x)
             \/ ShutRelease(x)
      PROVE  pump' = pump
  BY <1>3 DEF Begin, Evict, FreeVictim, Wake, Expire, Withdraw, Finish, AbortRelease,
     RenewMiss, Lapse, Cancel, ShutRelease
<1>4. ASSUME NEW x \in Requests,
             Count(x) \/ Park(x) \/ HaltVictim(x) \/ Forget(x) \/ Free(x)
      PROVE  SchedulePump \/ pump' = pump
  BY <1>4 DEF Count, Park, HaltVictim, Forget, Free
<1>5. ASSUME ShutEnd PROVE SchedulePump
  BY <1>5 DEF ShutEnd
<1>6. ASSUME NEW h \in Remotes, RemoteAcquire(h) \/ RemoteRelease(h) PROVE pump' = pump
  BY <1>6 DEF RemoteAcquire, RemoteRelease
<1>7. ASSUME ShutBegin \/ GoDown \/ ComeUp \/ UNCHANGED vars PROVE pump' = pump
  BY <1>7 DEF ShutBegin, GoDown, ComeUp, vars
<1>8. SchedulePump => pump'.stage = "trying" /\ pump'.waiter = r
  BY DEF SchedulePump, IInv, TypeOK, Pump
<1> QED BY <1>1, <1>2, <1>3, <1>4, <1>5, <1>6, <1>7, <1>8
        DEF Next, Resume, ReleaseStep, PumpStep, Shutdown

LEMMA OwnersStay ==
    ASSUME IInv, Quiet, Calm, [Next]_vars, NEW r \in Requests, r \in store, r \in store',
           future[r] = "granted"
    PROVE  SlotIsOwned(r)'
<1>1. /\ lease[r].stage = "over" => lease[r].revoked
      /\ lease[r].revoked =>
           \E e \in Requests : task[e] = "evicting" /\ victim[e] = r
  BY DEF Calm, SlotIsOwned
<1>2. future'[r] = "granted"
  BY FutureStep DEF AnswersStay, Granting, IInv, TypeOK
<1>3. Settles(r) /\ \A e \in Requests : Advances(e)
  BY LeasesSettle, TasksAdvance
<1>4. lease[r].revoked => lease'[r].revoked
  BY LeaseStep DEF LeasesMove, Moves, Granting, IInv, TypeOK
<1>5. lease'[r].stage = "over" => lease'[r].revoked
  BY <1>1, <1>3, <1>4 DEF Settles
<1>6. lease'[r].revoked => \E e \in Requests : task'[e] = "evicting" /\ victim'[e] = r
  BY <1>1, <1>3 DEF Settles, Advances
<1> QED BY <1>2, <1>5, <1>6 DEF SlotIsOwned

LEMMA SlotsStep ==
    ASSUME IInv, Quiet, Calm, [Next]_vars, NEW r \in Requests, r \in store'
    PROVE  SlotIsOwned(r)'
<1>1. CASE r \notin store
  BY <1>1, Acquired DEF SlotIsOwned
<1>2. CASE r \in store /\ future[r] = "granted"
  BY <1>2, OwnersStay
<1>3. CASE r \in store /\ future[r] # "granted"
  <2>1. pump.stage = "trying" /\ pump.waiter = r
    BY <1>3 DEF Calm, SlotIsOwned
  <2>2. CASE pump'.stage = "trying" /\ pump'.waiter = r
    <3>1. future'[r] # "granted"
      BY <2>2, InvStep DEF IInv, PumpFits
    <3> QED BY <2>2, <3>1 DEF SlotIsOwned
  <2>3. CASE Granting
    <3>1. PICK b \in BOOLEAN : b = (pump.got = "slot")
      OBVIOUS
    <3>2. future'[r] = "granted" /\ lease'[r] = GrantedLease(b)
      BY <2>1, <2>3, <3>1 DEF Granting, IInv, TypeOK
    <3> QED BY <3>2, GrantedLeaseFields DEF SlotIsOwned
  <2> QED BY <1>3, <2>1, <2>2, <2>3, HandedOver
<1> QED BY <1>1, <1>2, <1>3

LEMMA TriesStep ==
    ASSUME IInv, Quiet, Calm, [Next]_vars
    PROVE  TriesAreBound'
<1> SUFFICES ASSUME pump'.stage = "trying"
             PROVE  pump'.got # "open" /\ (pump'.got = "refused" => pump'.waiter \notin store')
  BY DEF TriesAreBound
<1>1. CASE pump.stage = "trying" /\ pump'.waiter = pump.waiter /\ pump'.got = pump.got
  <2>1. ~PumpTry /\ pump.waiter \in Requests
    BY <1>1 DEF PumpTry, IInv, PumpFits
  <2> QED BY <1>1, <2>1, Acquired DEF Calm, TriesAreBound
<1>2. CASE PumpTry
  <2>1. Head(lane[pump.class]) \in Requests
    BY <1>2, HeadlessLane DEF PumpTry, IInv, LanesFit, TypeOK, Pump
  <2>2. PICK w \in Requests : w = Head(lane[pump.class])
    BY <2>1
  <2>3. future[w] = "pending" /\ pump.stage = "looking"
    BY <1>2, <2>2 DEF PumpTry
  <2>4. w \notin store
    BY <2>3 DEF Calm, SlotIsOwned
  <2>5. PICK g \in {"slot", "refused"} :
           /\ pump' = [[pump EXCEPT !.stage = "trying", !.waiter = w] EXCEPT !.got = g]
           /\ g = "refused" => store' = store
    BY <1>2, <2>2, StaysUp DEF PumpTry
  <2>6. pump'.waiter = w /\ pump'.got = g
    BY <2>5 DEF IInv, TypeOK, Pump
  <2> QED BY <2>4, <2>5, <2>6
<1> QED BY <1>1, <1>2, PumpMovesStep DEF PumpMoves

LEMMA BoundsStep ==
    ASSUME IInv, Quiet, Calm, [Next]_vars
    PROVE  LeasesAreBound'
<1>1. CASE Granting
  <2>1. pump.got = "slot"
    BY <1>1 DEF Granting, Calm, TriesAreBound, IInv, TypeOK, Pump
  <2>2. PICK b \in BOOLEAN : b = (pump.got = "slot") /\ b
    BY <2>1
  <2>3. PICK w \in Requests : w = pump.waiter
    BY <1>1 DEF Granting
  <2>4. /\ lease'[w] = GrantedLease(b)
        /\ \A x \in Requests : x # w => lease'[x] = lease[x] /\ future'[x] = future[x]
    BY <1>1, <2>2, <2>3 DEF Granting, IInv, TypeOK
  <2>5. lease'[w].bound /\ lease'[w].stage = "held"
    BY <2>2, <2>4, GrantedLeaseFields
  <2> QED BY <2>4, <2>5 DEF Calm, LeasesAreBound
<1>2. CASE LeasesMove /\ AnswersStay
  BY <1>2 DEF LeasesMove, Moves, AnswersStay, Calm, LeasesAreBound
<1> QED BY <1>1, <1>2, LeaseStep, FutureStep

LEMMA CancelledStep ==
    ASSUME IInv, Quiet, Calm, [Next]_vars
    PROVE  CancelledGetNoLease'
<1>1. ASSUME NEW r \in cancelled
      PROVE  \/ future'[r] \in {"cancelled", "rejected"}
             \/ future'[r] = "pending" /\ task'[r] = "done"
  <2>1. /\ r \in Requests
        /\ \/ future[r] \in {"cancelled", "rejected"}
           \/ future[r] = "pending" /\ task[r] = "done"
    BY DEF IInv, TypeOK, Calm, CancelledGetNoLease
  <2>2. task[r] = "done" => task'[r] = "done" /\ ~InLane(r)
    BY <2>1, TasksAdvance DEF Advances, IInv, WaitersAreQueued, Waiting
  <2>3. CASE AnswersStay
    BY <2>1, <2>2, <2>3 DEF AnswersStay
  <2>4. CASE Granting
    <3>1. pump.waiter # r
      BY <2>1, <2>2, <2>4 DEF Granting
    <3>2. future'[r] = future[r]
      BY <2>1, <2>4, <3>1 DEF Granting, IInv, TypeOK
    <3> QED BY <2>1, <2>2, <3>2
  <2> QED BY <2>3, <2>4, FutureStep
<1>2. ASSUME NEW r \in Requests, Cancel(r)
      PROVE  /\ cancelled' = cancelled \cup {r}
             /\ \/ future'[r] \in {"cancelled", "rejected"}
                \/ future'[r] = "pending" /\ task'[r] = "done"
  BY <1>2, QuietCancel DEF Cancel
<1>3. CASE \E r \in Requests : Cancel(r)
  BY <1>1, <1>2, <1>3 DEF CancelledGetNoLease
<1>4. CASE cancelled' = cancelled
  BY <1>1, <1>4 DEF CancelledGetNoLease
<1>5. cancelled' = cancelled \/ \E r \in Requests : Cancel(r)
  <2>1. ASSUME NEW r \in Requests,
               \/ Begin(r) \/ Count(r) \/ Park(r) \/ Evict(r) \/ FreeVictim(r) \/ HaltVictim(r)
               \/ Wake(r) \/ Withdraw(r) \/ Expire(r) \/ Finish(r) \/ AbortRelease(r)
               \/ Forget(r) \/ Free(r) \/ RenewMiss(r) \/ Lapse(r) \/ ShutRelease(r)
        PROVE  cancelled' = cancelled
    BY <2>1 DEF Begin, Count, Park, Evict, FreeVictim, HaltVictim, Wake, Withdraw, Expire,
       Finish, AbortRelease, Forget, Free, RenewMiss, Lapse, ShutRelease
  <2>2. ASSUME NEW h \in Remotes, RemoteAcquire(h) \/ RemoteRelease(h)
        PROVE  cancelled' = cancelled
    BY <2>2 DEF RemoteAcquire, RemoteRelease
  <2>3. ASSUME \/ PumpAdvance \/ PumpDrop \/ PumpTry \/ PumpRefused \/ PumpGrant
               \/ ShutBegin \/ ShutEnd \/ GoDown \/ ComeUp \/ UNCHANGED vars
        PROVE  cancelled' = cancelled
    BY <2>3 DEF PumpAdvance, PumpDrop, PumpTry, PumpRefused, PumpGrant, ShutBegin, ShutEnd,
       GoDown, ComeUp, vars
  <2> QED BY <2>1, <2>2, <2>3 DEF Next, Resume, ReleaseStep, PumpStep, Shutdown
<1> QED BY <1>3, <1>4, <1>5

LEMMA ReleasersStep ==
    ASSUME IInv, Quiet, Calm, [Next]_vars
    PROVE  ReleasersLeave'
<1> SUFFICES ASSUME NEW r \in Requests,
                    lease'[r].stage \in {"stopping", "freeing"}, lease'[r].by = "task"
             PROVE  task'[r] = "leaving"
  BY DEF ReleasersLeave
<1>1. /\ Settles(r) /\ Advances(r)
      /\ lease[r].stage \in {"stopping", "freeing"} /\ lease[r].by = "task"
            => task[r] = "leaving"
  BY LeasesSettle, TasksAdvance DEF Calm, ReleasersLeave
<1> QED BY <1>1 DEF Settles, Advances

LEMMA CalmInit == Init => Calm
<1>1. ASSUME Init, NEW r \in Requests
      PROVE  lease[r].stage = "none" /\ future[r] # "granted"
  BY <1>1 DEF Init, NoLease
<1>2. Init => pump.stage = "off" /\ cancelled = {} /\ store = {}
  BY DEF Init, PumpOff, PumpAt
<1> QED BY <1>1, <1>2 DEF Calm, TriesAreBound, LeasesAreBound, CancelledGetNoLease,
        ReleasersLeave

LEMMA CalmStep ==
    ASSUME IInv, Quiet, Calm, [Next]_vars
    PROVE  Calm'
BY SlotsStep, TriesStep, BoundsStep, CancelledStep, ReleasersStep DEF Calm

\* With a store that stays reachable, and cancellations that meet waiters and no
\* lease holders, every slot of this process is being handed to a waiter or belongs
\* to a lease that gives it back, whatever is evicted, released, shut down or expired.
THEOREM SlotsAreOwned == ASSUME Quiet PROVE Spec => []SlotsHaveOwners
<1>1. Init => Calm
  BY CalmInit
<1>2. IInv /\ Calm /\ [Next]_vars => Calm'
  BY CalmStep
<1>3. IInv /\ Calm => SlotsHaveOwners
  <2> SUFFICES ASSUME IInv, Calm, NEW r \in store \cap Requests
               PROVE  \/ pump.stage = "trying" /\ pump.waiter = r
                      \/ lease[r].stage \in {"held", "stopping", "freeing"}
                      \/ \E e \in Requests : task[e] = "evicting" /\ victim[e] = r
    BY DEF SlotsHaveOwners
  <2>1. SlotIsOwned(r) /\ lease[r] \in Lease
        /\ (future[r] = "granted" => lease[r].stage # "none")
    BY DEF Calm, LeasesAreBound, IInv, TypeOK
  <2> QED BY <2>1 DEF SlotIsOwned, Lease
<1> QED BY Invariant, <1>1, <1>2, <1>3, PTL DEF Spec

-------------------------------------------------------------------------------
(* The circuit breaker's invariant.  The slot flag and the set of trials in flight are *)
(* two records of the same fact: the flag implies a holder always, a holder    *)
(* implies the flag until a straggler or a reset overtakes it.                 *)

USE StreamsAssumption, ThresholdsAssumption

HoldersInFlight == \A c \in holder : phase[c] # "away"

SlotIsTaken == trial => holder # {}

TrialKeepsItsSlot == ~overtaken /\ holder # {} => trial

BreakerInv ==
    /\ BreakerTypeOK
    /\ HoldersInFlight
    /\ SlotIsTaken
    /\ TrialKeepsItsSlot
    /\ OneTrialUnlessOvertaken
    /\ BudgetsAreOpen

\* What an outcome does to the breaker's own fields.
LEMMA FailureRecorded ==
    ASSUME BreakerTypeOK, BudgetsAreOpen, RecordFailure
    PROVE  /\ state' \in {"closed", "open", "half_open"}
           /\ clock' \in {"none", "running", "elapsed"}
           /\ fails' \in Nat /\ succs' \in Nat
           /\ BudgetsAreOpen'
BY DEF BreakerTypeOK, BudgetsAreOpen, RecordFailure, ToOpen

LEMMA SuccessRecorded ==
    ASSUME BreakerTypeOK, BudgetsAreOpen, NEW slot \in BOOLEAN, RecordSuccess(slot)
    PROVE  /\ state' \in {"closed", "open", "half_open"}
           /\ clock' \in {"none", "running", "elapsed"}
           /\ fails' \in Nat /\ succs' \in Nat /\ trial' \in BOOLEAN
           /\ BudgetsAreOpen'
           /\ trial' = slot \/ (trial' = FALSE /\ state = "half_open")
<1>1. /\ state' \in {"closed", "open", "half_open"}
      /\ clock' \in {"none", "running", "elapsed"}
      /\ fails' \in Nat /\ succs' \in Nat
  BY DEF BreakerTypeOK, RecordSuccess, ToClosed
<1>2. BudgetsAreOpen'
  BY DEF BreakerTypeOK, BudgetsAreOpen, RecordSuccess, ToClosed
<1>3. trial' = slot \/ (trial' = FALSE /\ state = "half_open")
  BY Zenon DEF RecordSuccess, ToClosed
<1>4. trial' \in BOOLEAN
  BY <1>3, Zenon
<1> QED BY <1>1, <1>2, <1>3, <1>4

\* A caller leaves: the slot goes with its holder and with nobody else, unless the
\* breaker closed over a trial.
LEMMA LeavingStep ==
    ASSUME BreakerInv, NEW c \in Calls, phase[c] # "away", Leave(c),
           state' \in {"closed", "open", "half_open"},
           clock' \in {"none", "running", "elapsed"},
           fails' \in Nat, succs' \in Nat, trial' \in BOOLEAN, BudgetsAreOpen',
           overtaken' \in BOOLEAN, overtaken => overtaken',
           \/ trial' = SlotAfter(c)
           \/ trial' = FALSE /\ (c \in holder \/ holder = {} \/ overtaken')
    PROVE  BreakerInv'
<1>1. BreakerTypeOK'
  BY DEF BreakerInv, BreakerTypeOK, Leave
<1>2. HoldersInFlight'
  BY DEF BreakerInv, BreakerTypeOK, HoldersInFlight, Leave
<1>3. SlotIsTaken'
  BY DEF BreakerInv, SlotIsTaken, SlotAfter, Leave
<1>4. TrialKeepsItsSlot'
  BY DEF BreakerInv, BreakerTypeOK, TrialKeepsItsSlot, OneTrialUnlessOvertaken, SlotAfter, Leave
<1>5. OneTrialUnlessOvertaken'
  BY DEF BreakerInv, OneTrialUnlessOvertaken, Leave
<1> QED BY <1>1, <1>2, <1>3, <1>4, <1>5 DEF BreakerInv

LEMMA BreakerInvInit == BreakerInit => BreakerInv
<1> SUFFICES ASSUME BreakerInit PROVE BreakerInv
  OBVIOUS
<1>1. BreakerTypeOK
  <2>1. trial \in BOOLEAN /\ answering \in BOOLEAN /\ overtaken \in BOOLEAN
    BY Zenon DEF BreakerInit
  <2> QED BY <2>1 DEF BreakerInit, BreakerTypeOK
<1>2. BudgetsAreOpen
  BY DEF BreakerInit, BudgetsAreOpen
<1>3. HoldersInFlight /\ SlotIsTaken /\ TrialKeepsItsSlot /\ OneTrialUnlessOvertaken
  BY Zenon DEF BreakerInit, HoldersInFlight, SlotIsTaken, TrialKeepsItsSlot, OneTrialUnlessOvertaken
<1> QED BY <1>1, <1>2, <1>3 DEF BreakerInv

LEMMA BreakerInvStep == BreakerInv /\ [BreakerNext]_breakerVars => BreakerInv'
<1> SUFFICES ASSUME BreakerInv, [BreakerNext]_breakerVars PROVE BreakerInv'
  OBVIOUS
<1>1. ASSUME NEW c \in Calls, EnterClosed(c) PROVE BreakerInv'
  BY <1>1 DEF BreakerInv, BreakerTypeOK, HoldersInFlight, SlotIsTaken, TrialKeepsItsSlot,
              OneTrialUnlessOvertaken, BudgetsAreOpen, EnterClosed, breaker
<1>2. ASSUME NEW c \in Calls, EnterTrial(c) PROVE BreakerInv'
  <2>1. BreakerTypeOK' /\ HoldersInFlight' /\ SlotIsTaken' /\ TrialKeepsItsSlot'
    BY <1>2 DEF BreakerInv, BreakerTypeOK, HoldersInFlight, SlotIsTaken, TrialKeepsItsSlot, EnterTrial
  <2>2. ~overtaken => holder = {}
    BY <1>2 DEF BreakerInv, TrialKeepsItsSlot, EnterTrial
  <2>3. OneTrialUnlessOvertaken'
    BY <1>2, <2>2 DEF OneTrialUnlessOvertaken, EnterTrial
  <2>4. BudgetsAreOpen'
    BY <1>2 DEF BreakerInv, BreakerTypeOK, BudgetsAreOpen, EnterTrial
  <2> QED BY <2>1, <2>3, <2>4 DEF BreakerInv
<1>3. ASSUME NEW c \in Calls, EnterRejected(c) PROVE BreakerInv'
  BY <1>3 DEF BreakerInv, BreakerTypeOK, HoldersInFlight, SlotIsTaken, TrialKeepsItsSlot,
              OneTrialUnlessOvertaken, BudgetsAreOpen, EnterRejected
<1>4. ASSUME NEW c \in Calls, Succeed(c) PROVE BreakerInv'
  <2>1. /\ phase[c] # "away" /\ Leave(c)
        /\ overtaken' = (overtaken \/ (state = "half_open" /\ c \notin holder /\ holder # {}))
    BY <1>4 DEF Succeed, Overtakes
  <2>2. SlotAfter(c) \in BOOLEAN /\ RecordSuccess(SlotAfter(c))
    BY <1>4 DEF Succeed, SlotAfter
  <2>3. PICK slot \in BOOLEAN : slot = SlotAfter(c) /\ RecordSuccess(slot)
    BY <2>2, Zenon
  <2>4. overtaken' \in BOOLEAN
    BY <2>1 DEF BreakerInv, BreakerTypeOK
  <2> QED BY <2>1, <2>3, <2>4, SuccessRecorded, LeavingStep DEF BreakerInv
<1>5. ASSUME NEW c \in Calls, Fail(c) PROVE BreakerInv'
  <2>1. /\ phase[c] # "away" /\ Leave(c) /\ trial' = SlotAfter(c) /\ RecordFailure
        /\ overtaken' \in BOOLEAN /\ (overtaken => overtaken')
    BY <1>5 DEF Fail, Overtakes, BreakerInv, BreakerTypeOK
  <2>2. trial' \in BOOLEAN
    BY <2>1 DEF SlotAfter
  <2> QED BY <2>1, <2>2, FailureRecorded, LeavingStep DEF BreakerInv
<1>6. ASSUME NEW c \in Calls, FailStream(c) PROVE BreakerInv'
  <2>1. /\ state' \in {"closed", "open", "half_open"}
        /\ clock' \in {"none", "running", "elapsed"}
        /\ fails' \in Nat /\ succs' \in Nat /\ BudgetsAreOpen'
    BY <1>6, FailureRecorded DEF BreakerInv, FailStream
  <2>2. overtaken' \in BOOLEAN /\ (overtaken => overtaken')
    BY <1>6 DEF FailStream, Overtakes, BreakerInv, BreakerTypeOK
  <2> QED BY <1>6, <2>1, <2>2
          DEF BreakerInv, BreakerTypeOK, HoldersInFlight, SlotIsTaken, TrialKeepsItsSlot,
              OneTrialUnlessOvertaken, FailStream
<1>7. ASSUME NEW c \in Calls, EndUnrecorded(c) PROVE BreakerInv'
  <2>1. /\ phase[c] # "away" /\ Leave(c) /\ trial' = SlotAfter(c)
        /\ UNCHANGED <<state, fails, succs, clock, overtaken>>
    BY <1>7 DEF EndUnrecorded
  <2>2. trial' \in BOOLEAN /\ BudgetsAreOpen'
    BY <2>1 DEF SlotAfter, BreakerInv, BudgetsAreOpen
  <2> QED BY <2>1, <2>2, LeavingStep DEF BreakerInv, BreakerTypeOK
<1>8. CASE ResetTimeoutElapses \/ ServiceRecovers
  <2>1. BreakerTypeOK' /\ BudgetsAreOpen'
    BY <1>8 DEF BreakerInv, BreakerTypeOK, BudgetsAreOpen, ResetTimeoutElapses, ServiceRecovers, breaker
  <2>2. UNCHANGED <<trial, phase, holder, overtaken>>
    BY <1>8 DEF ResetTimeoutElapses, ServiceRecovers, breaker
  <2> QED BY <2>1, <2>2 DEF BreakerInv, HoldersInFlight, SlotIsTaken, TrialKeepsItsSlot,
                            OneTrialUnlessOvertaken
<1>9. CASE Reset
  <2>1. BreakerTypeOK' /\ BudgetsAreOpen'
    <3>1. overtaken' \in BOOLEAN
      BY <1>9, Zenon DEF Reset
    <3>2. trial' \in BOOLEAN
      BY <1>9, Zenon DEF Reset, ToClosed
    <3> QED BY <1>9, <3>1, <3>2 DEF BreakerInv, BreakerTypeOK, BudgetsAreOpen, Reset, ToClosed
  <2>2. /\ trial' = FALSE /\ UNCHANGED <<phase, holder>>
        /\ overtaken' = (overtaken \/ holder # {})
    BY <1>9 DEF Reset, ToClosed
  <2> QED BY <2>1, <2>2 DEF BreakerInv, HoldersInFlight, SlotIsTaken, TrialKeepsItsSlot,
                            OneTrialUnlessOvertaken
<1>10. CASE UNCHANGED breakerVars
  BY <1>10 DEF BreakerInv, BreakerTypeOK, HoldersInFlight, SlotIsTaken, TrialKeepsItsSlot,
               OneTrialUnlessOvertaken, BudgetsAreOpen, breakerVars, breaker
<1> QED BY <1>1, <1>2, <1>3, <1>4, <1>5, <1>6, <1>7, <1>8, <1>9, <1>10
        DEF BreakerNext, Enter, End

LEMMA BreakerInvariant == BreakerSpec => []BreakerInv
<1> QED BY BreakerInvInit, BreakerInvStep, PTL DEF BreakerSpec

-------------------------------------------------------------------------------
\* The breaker's fields keep their types.
THEOREM BreakerTyped == BreakerSpec => []BreakerTypeOK
<1>1. BreakerInv => BreakerTypeOK
  BY DEF BreakerInv
<1> QED BY BreakerInvariant, <1>1, PTL

\* No outcome, neutral error, cancellation or reset leaves the trial slot taken
\* with nobody in flight to release it.
THEOREM SlotNeverWedges == BreakerSpec => []SlotHasItsHolder
<1>1. BreakerInv => SlotHasItsHolder
  BY DEF BreakerInv, SlotIsTaken, HoldersInFlight, SlotHasItsHolder
<1> QED BY BreakerInvariant, <1>1, PTL

\* Two trials are in flight together only after a straggler or a reset.
THEOREM SingleTrial == BreakerSpec => []OneTrialUnlessOvertaken
<1>1. BreakerInv => OneTrialUnlessOvertaken
  BY DEF BreakerInv
<1> QED BY BreakerInvariant, <1>1, PTL

\* The counters stay below their thresholds and an OPEN breaker has its clock.
THEOREM CountersBounded == BreakerSpec => []BudgetsAreOpen
<1>1. BreakerInv => BudgetsAreOpen
  BY DEF BreakerInv
<1> QED BY BreakerInvariant, <1>1, PTL

===============================================================================
