------------------------- MODULE RegistrationProofs -------------------------
(***************************************************************************)
(* Proofs about Registration: at any time at most one instance is sound,    *)
(* however many instances there are, and it owns the lease.                 *)
(***************************************************************************)
EXTENDS Registration, TLAPS

-----------------------------------------------------------------------------
(* Types *)

\* What Go and Done do to the program counter and the timer.
LEMMA GoTypes ==
  ASSUME PhaseTypes, NEW k \in Instances, NEW l \in Labels, Go(k, l)
  PROVE  pc' \in [Instances -> Labels]
BY DEF PhaseTypes, Go

LEMMA DoneTypes ==
  ASSUME PhaseTypes, NEW k \in Instances, Done(k)
  PROVE  /\ pc' \in [Instances -> Labels] /\ due' \in [Instances -> BOOLEAN]
         /\ record' \in [Instances -> Nat]
<1>1. "idle" \in Labels
  BY DEF Labels
<1>2. pc' \in [Instances -> Labels]
  BY <1>1, GoTypes DEF Done
<1>3. due' \in [Instances -> BOOLEAN] /\ record' \in [Instances -> Nat]
  BY DEF Done, PhaseTypes
<1> QED BY <1>2, <1>3

\* The labels the steps of a reconcile go to.
LEMMA LabelNames ==
  {"register", "get", "again", "extend", "release", "delete"} \subseteq Labels
BY DEF Labels

\* The ranges of local and notice.
BindingType == [on : BOOLEAN, dep : Nat, fails : Nat]
NoticeType == [dep : Nat, fails : Nat]

\* A poll interval that passes leaves the lease with its owner and in its range.
LEMMA PassTypes ==
  ASSUME SharedTypes, NEW k \in Instances, Pass(k)
  PROVE  /\ lease' \in [owner : SUBSET Instances, left : 0..LeaseTTL]
         /\ lease'.owner = lease.owner
<1>1. lease.left > 0 => lease.left - 1 \in 0..LeaseTTL
  BY RegistrationAssumption DEF SharedTypes, RegistrationAssumption
<1> QED BY <1>1 DEF Pass, SharedTypes

\* Types are kept by a step of a reconcile.
LEMMA TypesReconcile ==
  ASSUME TypeOK, NEW k \in Instances, Reconcile(k)
  PROVE  TypeOK'
<1> USE RegistrationAssumption
<1>1. CASE Load(k)
  BY <1>1, SMTT(30) DEF Load, Go, Done, TypeOK, SharedTypes, PhaseTypes, RenewalTypes, Labels,
       Statuses, Terminal, Gone, NoLease, NoNotice, dbVars, boundVars, RegistrationAssumption
<1>2. CASE Claim(k)
  <2>1. PhaseTypes /\ SharedTypes /\ RenewalTypes
    BY DEF TypeOK
  <2>2. /\ pc' \in [Instances -> Labels] /\ due' \in [Instances -> BOOLEAN]
        /\ record' \in [Instances -> Nat]
    BY <1>2, <2>1, GoTypes, DoneTypes, LabelNames DEF Claim, PhaseTypes
  <2>3. UNCHANGED stop
    BY <1>2 DEF Claim
  <2>4. SharedTypes'
    BY <1>2, <2>1 DEF Claim, SharedTypes, dbVars, boundVars, Lease, RegistrationAssumption
  <2>7. RenewalTypes'
    BY <1>2, <2>1 DEF Claim, RenewalTypes
  <2> QED BY <2>1, <2>2, <2>3, <2>4, <2>7 DEF TypeOK, PhaseTypes
<1>3. CASE Get(k)
  <2>1. PhaseTypes /\ SharedTypes /\ RenewalTypes
    BY DEF TypeOK
  <2>2. /\ pc' \in [Instances -> Labels] /\ due' \in [Instances -> BOOLEAN]
        /\ record' \in [Instances -> Nat]
    BY <1>3, <2>1, GoTypes, DoneTypes, LabelNames DEF Get, PhaseTypes
  <2>3. UNCHANGED stop
    BY <1>3 DEF Get
  <2>4. SharedTypes'
    BY <1>3, <2>1 DEF Get, SharedTypes, dbVars, boundVars
  <2>7. RenewalTypes'
    BY <1>3, <2>1 DEF Get, RenewalTypes
  <2> QED BY <2>1, <2>2, <2>3, <2>4, <2>7 DEF TypeOK, PhaseTypes
<1>4. CASE Extend(k)
  BY <1>4, SMTT(30) DEF Extend, Lease, Go, Done, TypeOK, SharedTypes, PhaseTypes, RenewalTypes, Labels,
       Statuses, Terminal, Gone, NoLease, NoNotice, dbVars, boundVars, RegistrationAssumption
<1>5. CASE AlreadyActive(k)
  BY <1>5, SMTT(30) DEF AlreadyActive, Go, Done, TypeOK, SharedTypes, PhaseTypes, RenewalTypes, Labels,
       Statuses, Terminal, Gone, NoLease, NoNotice, dbVars, boundVars, RegistrationAssumption
<1>6. CASE Registered(k)
  BY <1>6, SMTT(30) DEF Registered, Binding, Go, Done, TypeOK, SharedTypes, PhaseTypes, RenewalTypes, Labels,
       Statuses, Terminal, Gone, NoLease, NoNotice, dbVars, boundVars, RegistrationAssumption
<1>7. CASE MarkActive(k)
  BY <1>7, SMTT(30) DEF MarkActive, Write, Go, Done, TypeOK, SharedTypes, PhaseTypes, RenewalTypes, Labels,
       Statuses, Terminal, Gone, NoLease, NoNotice, dbVars, boundVars, RegistrationAssumption
<1>8. CASE Refused(k)
  BY <1>8, SMTT(30) DEF Refused, Write, Terminal, Go, Done, TypeOK, SharedTypes, PhaseTypes, RenewalTypes, Labels,
       Statuses, Terminal, Gone, NoLease, NoNotice, dbVars, boundVars, RegistrationAssumption
<1>9. CASE Transient(k)
  BY <1>9, SMTT(30) DEF Transient, Write, AtMost, Go, Done, TypeOK, SharedTypes, PhaseTypes, RenewalTypes, Labels,
       Statuses, Terminal, Gone, NoLease, NoNotice, dbVars, boundVars, RegistrationAssumption
<1>10. CASE Sweep(k)
  <2>1. PhaseTypes /\ SharedTypes /\ RenewalTypes
    BY DEF TypeOK
  <2>2. /\ pc' \in [Instances -> Labels] /\ due' \in [Instances -> BOOLEAN]
        /\ record' \in [Instances -> Nat]
    BY <1>10, <2>1, GoTypes, DoneTypes, LabelNames DEF Sweep, PhaseTypes
  <2>3. UNCHANGED stop
    BY <1>10 DEF Sweep
  <2>4. SharedTypes'
    BY <1>10, <2>1 DEF Sweep, SharedTypes, dbVars, boundVars
  <2>5. Gone \in BindingType
    BY DEF Gone, BindingType, RegistrationAssumption
  <2>6. local' \in [Instances -> BindingType] /\ UNCHANGED notice
    BY <1>10, <2>1, <2>5 DEF Sweep, RenewalTypes, BindingType
  <2>7. RenewalTypes'
    BY <2>1, <2>6 DEF RenewalTypes, BindingType
  <2> QED BY <2>1, <2>2, <2>3, <2>4, <2>7 DEF TypeOK, PhaseTypes
<1>11. CASE Release(k)
  <2>1. PhaseTypes /\ SharedTypes /\ RenewalTypes
    BY DEF TypeOK
  <2>2. /\ pc' \in [Instances -> Labels] /\ due' \in [Instances -> BOOLEAN]
        /\ record' \in [Instances -> Nat]
    BY <1>11, <2>1, GoTypes, DoneTypes, LabelNames DEF Release, PhaseTypes
  <2>3. UNCHANGED stop
    BY <1>11 DEF Release
  <2>4. SharedTypes'
    BY <1>11, <2>1 DEF Release, SharedTypes, dbVars, boundVars
  <2>7. RenewalTypes'
    BY <1>11, <2>1 DEF Release, RenewalTypes
  <2> QED BY <2>1, <2>2, <2>3, <2>4, <2>7 DEF TypeOK, PhaseTypes
<1>12. CASE Delete(k)
  BY <1>12, SMTT(30) DEF Delete, Del, Go, Done, TypeOK, SharedTypes, PhaseTypes, RenewalTypes, Labels,
       Statuses, Terminal, Gone, NoLease, NoNotice, dbVars, boundVars, RegistrationAssumption
<1> QED BY <1>1, <1>2, <1>3, <1>4, <1>5, <1>6, <1>7, <1>8, <1>9, <1>10, <1>11, <1>12 DEF Reconcile

\* Types are kept by a step of the renewal loop.
LEMMA TypesRenewal ==
  ASSUME TypeOK, NEW k \in Instances, Renewal(k)
  PROVE  TypeOK'
<1> USE RegistrationAssumption
<1>1. CASE Renew(k)
  <2>1. SharedTypes' /\ PhaseTypes'
    BY <1>1 DEF Renew, TypeOK, SharedTypes, PhaseTypes, dbVars, boundVars
  <2>2. Binding(local[k].dep, 0) \in BindingType
    BY DEF Binding, BindingType, TypeOK, RenewalTypes, RegistrationAssumption
  <2>3. local' \in [Instances -> BindingType]
    BY <1>1, <2>2 DEF Renew, TypeOK, RenewalTypes, BindingType
  <2>4. notice' \in [Instances -> NoticeType]
    BY <1>1 DEF Renew, Notice, TypeOK, RenewalTypes, NoticeType
  <2> QED BY <2>1, <2>3, <2>4 DEF TypeOK, RenewalTypes, BindingType, NoticeType
<1>2. CASE RenewFails(k)
  <2>1. SharedTypes' /\ PhaseTypes'
    BY <1>2 DEF RenewFails, TypeOK, SharedTypes, PhaseTypes, dbVars, boundVars
  <2> DEFINE n == AtMost(local[k].fails + 1)
  <2>2. n \in Nat
    BY DEF AtMost, TypeOK, RenewalTypes, RegistrationAssumption
  <2>5. Gone \in BindingType /\ Binding(local[k].dep, n) \in BindingType
    BY <2>2 DEF Gone, Binding, BindingType, TypeOK, RenewalTypes, RegistrationAssumption
  <2>6. \/ local' = [local EXCEPT ![k] = Gone]
        \/ local' = [local EXCEPT ![k] = Binding(local[k].dep, n)]
    BY <1>2 DEF RenewFails
  <2>3. local' \in [Instances -> BindingType]
    BY <2>5, <2>6 DEF TypeOK, RenewalTypes, BindingType
  <2>4. notice' \in [Instances -> NoticeType]
    BY <1>2, <2>2 DEF RenewFails, Notice, TypeOK, RenewalTypes, NoticeType
  <2> QED BY <2>1, <2>3, <2>4 DEF TypeOK, RenewalTypes, BindingType, NoticeType
<1>3. CASE Observe(k)
  BY <1>3, SMTT(30) DEF Observe, Write, Go, Done, TypeOK, SharedTypes, PhaseTypes, RenewalTypes, Labels,
       Statuses, Terminal, Gone, NoLease, NoNotice, dbVars, boundVars, RegistrationAssumption
<1> QED BY <1>1, <1>2, <1>3 DEF Renewal

\* Types are kept by a failure or a step of a shutdown.
LEMMA TypesFaultsAndStops ==
  ASSUME TypeOK, NEW k \in Instances, Fault(k) \/ Stop(k) \/ Stopping(k) \/ Crash(k) \/ Restart(k)
  PROVE  TypeOK'
<1> USE RegistrationAssumption
<1>1. CASE LoadFails(k)
  BY <1>1, SMTT(30) DEF LoadFails, Go, Done, TypeOK, SharedTypes, PhaseTypes, RenewalTypes, Labels,
       Statuses, Terminal, Gone, NoLease, NoNotice, dbVars, boundVars, RegistrationAssumption
<1>2. CASE ClaimFails(k)
  BY <1>2, SMTT(30) DEF ClaimFails, Lease, Go, Done, TypeOK, SharedTypes, PhaseTypes, RenewalTypes, Labels,
       Statuses, Terminal, Gone, NoLease, NoNotice, dbVars, boundVars, RegistrationAssumption
<1>3. CASE SweepFails(k)
  BY <1>3, SMTT(30) DEF SweepFails, Write, Go, Done, TypeOK, SharedTypes, PhaseTypes, RenewalTypes, Labels,
       Statuses, Terminal, Gone, NoLease, NoNotice, dbVars, boundVars, RegistrationAssumption
<1>4. CASE Stop(k)
  BY <1>4, SMTT(30) DEF Stop, Go, Done, TypeOK, SharedTypes, PhaseTypes, RenewalTypes, Labels,
       Statuses, Terminal, Gone, NoLease, NoNotice, dbVars, boundVars, RegistrationAssumption
<1>5. CASE StopRelease(k)
  BY <1>5, SMTT(30) DEF StopRelease, Go, Done, TypeOK, SharedTypes, PhaseTypes, RenewalTypes, Labels,
       Statuses, Terminal, Gone, NoLease, NoNotice, dbVars, boundVars, RegistrationAssumption
<1>6. CASE StopDelete(k)
  BY <1>6, SMTT(30) DEF StopDelete, Del, Go, Done, TypeOK, SharedTypes, PhaseTypes, RenewalTypes, Labels,
       Statuses, Terminal, Gone, NoLease, NoNotice, dbVars, boundVars, RegistrationAssumption
<1>7. CASE StopUnregister(k)
  BY <1>7, SMTT(30) DEF StopUnregister, Down, Write, Go, Done, TypeOK, SharedTypes, PhaseTypes, RenewalTypes, Labels,
       Statuses, Terminal, Gone, NoLease, NoNotice, dbVars, boundVars, RegistrationAssumption
<1>8. CASE Crash(k)
  BY <1>8, SMTT(30) DEF Crash, Down, Go, Done, TypeOK, SharedTypes, PhaseTypes, RenewalTypes, Labels,
       Statuses, Terminal, Gone, NoLease, NoNotice, dbVars, boundVars, RegistrationAssumption
<1>9. CASE Overrun(k)
  <2>1. SharedTypes'
    BY <1>9, PassTypes DEF Overrun, TypeOK, SharedTypes, dbVars
  <2>2. PhaseTypes' /\ RenewalTypes'
    BY <1>9 DEF Overrun, TypeOK, PhaseTypes, RenewalTypes
  <2> QED BY <2>1, <2>2 DEF TypeOK
<1>10. CASE Restart(k)
  BY <1>10, SMTT(30) DEF Restart, Go, Done, TypeOK, SharedTypes, PhaseTypes, RenewalTypes, Labels,
       Statuses, Terminal, Gone, NoLease, NoNotice, dbVars, boundVars, RegistrationAssumption
<1> QED BY <1>1, <1>2, <1>3, <1>4, <1>5, <1>6, <1>7, <1>8, <1>9, <1>10 DEF Fault, Stopping

\* Types are kept by what users and time do.
LEMMA TypesEnvironment ==
  ASSUME TypeOK, Deploy \/ Withdraw \/ Lapse \/ \E k \in Instances : Poll(k)
  PROVE  TypeOK'
<1> USE RegistrationAssumption
<1>1. CASE Deploy
  BY <1>1 DEF Deploy, TypeOK, SharedTypes, PhaseTypes, RenewalTypes, Statuses, boundVars
<1>2. CASE Withdraw
  BY <1>2 DEF Withdraw, TypeOK, SharedTypes, PhaseTypes, RenewalTypes, Statuses, boundVars
<1>3. CASE Lapse
  BY <1>3 DEF Lapse, NoLease, TypeOK, SharedTypes, PhaseTypes, RenewalTypes, dbVars, boundVars,
              RegistrationAssumption
<1>4. ASSUME NEW k \in Instances, Poll(k) PROVE TypeOK'
  <2>1. SharedTypes'
    BY <1>4, PassTypes DEF Poll, TypeOK, SharedTypes, dbVars, boundVars
  <2>2. PhaseTypes' /\ RenewalTypes'
    BY <1>4 DEF Poll, TypeOK, PhaseTypes, RenewalTypes
  <2> QED BY <2>1, <2>2 DEF TypeOK
<1> QED BY <1>1, <1>2, <1>3, <1>4

\* Types and stuttering, types at the start.
LEMMA TypesStutter == ASSUME TypeOK, UNCHANGED vars PROVE TypeOK'
BY DEF TypeOK, SharedTypes, PhaseTypes, RenewalTypes, vars

LEMMA TypesInit == Init => TypeOK
BY RegistrationAssumption
   DEF Init, TypeOK, SharedTypes, PhaseTypes, RenewalTypes, Statuses, Terminal, Labels, NoLease,
       Gone, NoNotice, RegistrationAssumption

\* Every variable keeps its type, for any number of instances, whatever fails.
THEOREM TypeCorrect == Spec => []TypeOK
<1>1. TypeOK /\ [Next]_vars => TypeOK'
  BY TypesReconcile, TypesRenewal, TypesFaultsAndStops, TypesEnvironment, TypesStutter
     DEF Next
<1> QED BY <1>1, TypesInit, PTL DEF Spec

-----------------------------------------------------------------------------
(* The inductive invariant *)

\* The lease as an instance leaves it when it has just refreshed it.
Fresh(i) == lease = Lease(i)

\* Where the reconcile may be, by what the instance holds.
Phase(i) ==
  /\ ~due[i] => pc[i] \in {"idle", "down"}
  /\ due[i] => pc[i] # "down"
  /\ pc[i] \in {"release", "delete", "down"} => ~local[i].on
  /\ pc[i] = "again" => ~Sound(i)

\* An instance that is about to register has just refreshed its lease, unless it failed
\* to and is known to have.
Refreshed(i) ==
  pc[i] \in {"register", "mark"} /\ stop[i] = "no" /\ i \notin missed => Fresh(i)

\* A sound instance owns the lease, and it lasts until the next reconcile has refreshed
\* it: none of it has passed when the reconcile ends, one interval when the next begins.
Covered(i) ==
  Sound(i) => lease.owner = {i} /\ lease.left > 0 /\ (~due[i] => Fresh(i))

Good(i) == Phase(i) /\ Refreshed(i) /\ Covered(i)
IInv == TypeOK /\ \A i \in Instances : Good(i)

\* What another instance does leaves j good, if it leaves alone a lease that is j's,
\* refreshes it or is known to have deleted it.
LEMMA Others ==
  ASSUME IInv, NEW j \in Instances,
         pc'[j] = pc[j], due'[j] = due[j], stop'[j] = stop[j],
         local'[j].on => local[j].on,
         j \in missed => j \in missed',
         lease' = lease \/ lease.owner # {j} \/ lease' = Lease(j) \/ j \in missed'
  PROVE  Good(j)'
<1>1. Sound(j)' => Sound(j)
  BY DEF Sound
<1>2. Good(j) /\ Lease(j).owner = {j}
  BY DEF IInv, Lease
<1>3. Phase(j)'
  BY <1>1, <1>2 DEF Good, Phase
<1>4. lease = Lease(j) => lease' = Lease(j) \/ j \in missed'
  BY <1>2
<1>6. Refreshed(j)'
  BY <1>2, <1>4 DEF Good, Refreshed, Fresh, Lease
<1>7. Covered(j)'
  BY <1>1, <1>2, <1>4, RegistrationAssumption
     DEF Good, Covered, Fresh, Sound, Lease, RegistrationAssumption
<1> QED BY <1>3, <1>6, <1>7 DEF Good

\* Every instance stays good under a step of a reconcile.
LEMMA GoodReconcile ==
  ASSUME IInv, NEW j \in Instances, NEW k \in Instances, Reconcile(k)
  PROVE  Good(j)'
<1> USE RegistrationAssumption
<1>1. CASE Load(k)
  BY <1>1, SMTT(30) DEF Load, Go, Done, IInv, Good, TypeOK, SharedTypes, PhaseTypes,
       RenewalTypes, Phase, Refreshed, Covered, Sound, Fresh, Lease, RegistrationAssumption
<1>2. CASE Claim(k)
  <2>1. ASSUME j # k PROVE Good(j)'
    <3>1. lease' = lease \/ lease.owner # {j}
      BY <1>2 DEF Claim
    <3>2. pc'[j] = pc[j] /\ due'[j] = due[j] /\ UNCHANGED <<stop, local>>
      BY <1>2, <2>1 DEF Claim, Go, Done, IInv, TypeOK, PhaseTypes
    <3>3. j \in missed => j \in missed'
      BY <1>2, <2>1 DEF Claim
    <3> QED BY <3>1, <3>2, <3>3, Others
  <2>2. ASSUME j = k, lease.owner = {} PROVE Good(j)'
    BY <1>2, <2>2, SMTT(30) DEF Claim, Go, Done, IInv, Good, TypeOK, SharedTypes, PhaseTypes,
       RenewalTypes, Phase, Refreshed, Covered, Sound, Fresh, Lease, RegistrationAssumption
  <2>3. ASSUME j = k, lease.owner # {}, pc[k] = "claim" PROVE Good(j)'
    BY <1>2, <2>3, SMTT(30) DEF Claim, Go, Done, IInv, Good, TypeOK, SharedTypes, PhaseTypes,
       RenewalTypes, Phase, Refreshed, Covered, Sound, Fresh, Lease, RegistrationAssumption
  <2>4. ASSUME j = k, lease.owner # {}, pc[k] = "again" PROVE Good(j)'
    BY <1>2, <2>4, SMTT(30) DEF Claim, Go, Done, IInv, Good, TypeOK, SharedTypes, PhaseTypes,
       RenewalTypes, Phase, Refreshed, Covered, Sound, Fresh, Lease, RegistrationAssumption
  <2> QED BY <1>2, <2>1, <2>2, <2>3, <2>4 DEF Claim
<1>3. CASE Get(k)
  <2>1. ASSUME j # k PROVE Good(j)'
    BY <1>3, <2>1, Others, SMTT(30)
       DEF Get, Go, Done, IInv, TypeOK, SharedTypes, PhaseTypes, RenewalTypes
  <2>2. ASSUME j = k, lease.owner = {}, Go(k, "again"), UNCHANGED due PROVE Good(j)'
    <3>1. ~Sound(j)
      BY <2>2 DEF IInv, Good, Covered
    <3> QED BY <1>3, <2>2, <3>1, SMTT(30) DEF Get, Go, Done, IInv, Good, TypeOK, SharedTypes, PhaseTypes,
       RenewalTypes, Phase, Refreshed, Covered, Sound, Fresh, Lease, RegistrationAssumption
  <2>3. ASSUME j = k, lease.owner = {k}, Go(k, "extend"), UNCHANGED due PROVE Good(j)'
    BY <1>3, <2>3, SMTT(30) DEF Get, Go, Done, IInv, Good, TypeOK, SharedTypes, PhaseTypes,
       RenewalTypes, Phase, Refreshed, Covered, Sound, Fresh, Lease, RegistrationAssumption
  <2>4. ASSUME j = k, lease.owner \notin {{}, {k}}, Done(k) PROVE Good(j)'
    BY <1>3, <2>4, SMTT(30) DEF Get, Go, Done, IInv, Good, TypeOK, SharedTypes, PhaseTypes,
       RenewalTypes, Phase, Refreshed, Covered, Sound, Fresh, Lease, RegistrationAssumption
  <2> QED BY <1>3, <2>1, <2>2, <2>3, <2>4 DEF Get
<1>4. CASE Extend(k)
  <2>1. [lease EXCEPT !.left = LeaseTTL] = [owner |-> lease.owner, left |-> LeaseTTL]
    BY DEF IInv, TypeOK, SharedTypes
  <2>2. ASSUME j # k PROVE Good(j)'
    <3>1. pc'[j] = pc[j] /\ UNCHANGED <<due, stop, local>>
      BY <1>4, <2>2 DEF Extend, Go, IInv, TypeOK, PhaseTypes
    <3>2. j \in missed => j \in missed'
      BY <1>4, <2>2 DEF Extend
    <3>3. lease' = lease \/ lease.owner # {j} \/ lease' = Lease(j)
      BY <1>4, <2>1, <2>2 DEF Extend, Lease
    <3> QED BY <3>1, <3>2, <3>3, Others
  <2>3. ASSUME j = k PROVE Good(j)'
    <3>1. pc'[j] = "register" /\ UNCHANGED <<due, local, stop>> /\ due[j]
      BY <1>4, <2>3 DEF Extend, Go, IInv, Good, Phase, TypeOK, PhaseTypes
    <3>2. stop[j] = "no" /\ j \notin missed' => lease' = Lease(j)
      BY <1>4, <2>1, <2>3, SMTT(30) DEF Extend, Lease
    <3> QED BY <3>1, <3>2
         DEF Good, Phase, Refreshed, Covered, Sound, Fresh, Lease, RegistrationAssumption
  <2> QED BY <2>2, <2>3
<1>5. CASE AlreadyActive(k)
  BY <1>5, SMTT(30) DEF AlreadyActive, Go, Done, IInv, Good, TypeOK, SharedTypes, PhaseTypes,
       RenewalTypes, Phase, Refreshed, Covered, Sound, Fresh, Lease, RegistrationAssumption
<1>6. CASE Registered(k)
  BY <1>6, SMTT(30) DEF Registered, Binding, Go, Done, IInv, Good, TypeOK, SharedTypes, PhaseTypes,
       RenewalTypes, Phase, Refreshed, Covered, Sound, Fresh, Lease, RegistrationAssumption
<1>7. CASE MarkActive(k)
  BY <1>7, SMTT(30) DEF MarkActive, Go, Done, IInv, Good, TypeOK, SharedTypes, PhaseTypes,
       RenewalTypes, Phase, Refreshed, Covered, Sound, Fresh, Lease, RegistrationAssumption
<1>8. CASE Refused(k)
  BY <1>8, SMTT(30) DEF Refused, Go, Done, IInv, Good, TypeOK, SharedTypes, PhaseTypes,
       RenewalTypes, Phase, Refreshed, Covered, Sound, Fresh, Lease, RegistrationAssumption
<1>9. CASE Transient(k)
  BY <1>9, SMTT(30) DEF Transient, Go, Done, IInv, Good, TypeOK, SharedTypes, PhaseTypes,
       RenewalTypes, Phase, Refreshed, Covered, Sound, Fresh, Lease, RegistrationAssumption
<1>10. CASE Sweep(k)
  <2>1. ASSUME j # k PROVE Good(j)'
    BY <1>10, <2>1, Others, SMTT(30)
       DEF Sweep, Go, Done, IInv, TypeOK, SharedTypes, PhaseTypes, RenewalTypes
  <2>2. ASSUME j = k PROVE Good(j)'
    BY <1>10, <2>2, SMTT(30) DEF Sweep, Gone, Go, Done, IInv, Good, TypeOK, SharedTypes, PhaseTypes,
       RenewalTypes, Phase, Refreshed, Covered, Sound, Fresh, Lease, RegistrationAssumption
  <2> QED BY <2>1, <2>2
<1>11. CASE Release(k)
  BY <1>11, SMTT(30) DEF Release, Go, Done, IInv, Good, TypeOK, SharedTypes, PhaseTypes,
       RenewalTypes, Phase, Refreshed, Covered, Sound, Fresh, Lease, RegistrationAssumption
<1>12. CASE Delete(k)
  BY <1>12, SMTT(30) DEF Delete, Del, Gone, NoLease, Go, Done, IInv, Good, TypeOK, SharedTypes, PhaseTypes,
       RenewalTypes, Phase, Refreshed, Covered, Sound, Fresh, Lease, RegistrationAssumption
<1> QED BY <1>1, <1>2, <1>3, <1>4, <1>5, <1>6, <1>7, <1>8, <1>9, <1>10, <1>11, <1>12 DEF Reconcile

\* Every instance stays good under a step of the renewal loop.
LEMMA GoodRenewal ==
  ASSUME IInv, NEW j \in Instances, NEW k \in Instances, Renewal(k)
  PROVE  Good(j)'
<1> USE RegistrationAssumption
<1>1. CASE Renew(k)
  <2>1. local'[j].on => local[j].on
    BY <1>1 DEF Renew, Binding, Gone, IInv, TypeOK, RenewalTypes
  <2>2. UNCHANGED <<lease, pc, due, stop, missed>>
    BY <1>1 DEF Renew
  <2> QED BY <2>1, <2>2, Others
<1>2. CASE RenewFails(k)
  <2>1. local'[j].on => local[j].on
    BY <1>2 DEF RenewFails, Binding, Gone, IInv, TypeOK, RenewalTypes
  <2>2. UNCHANGED <<lease, pc, due, stop, missed>>
    BY <1>2 DEF RenewFails
  <2> QED BY <2>1, <2>2, Others
<1>3. CASE Observe(k)
  <2>1. local'[j].on => local[j].on
    BY <1>3 DEF Observe, IInv, TypeOK, RenewalTypes
  <2>2. UNCHANGED <<lease, pc, due, stop, missed>>
    BY <1>3 DEF Observe
  <2> QED BY <2>1, <2>2, Others
<1> QED BY <1>1, <1>2, <1>3 DEF Renewal

\* Every instance stays good under a failure or a step of a shutdown.
LEMMA GoodFaultsAndStops ==
  ASSUME IInv, NEW j \in Instances, NEW k \in Instances, Fault(k) \/ Stop(k) \/ Stopping(k) \/ Crash(k) \/ Restart(k)
  PROVE  Good(j)'
<1> USE RegistrationAssumption
<1>1. CASE LoadFails(k)
  BY <1>1, SMTT(30) DEF LoadFails, Go, Done, IInv, Good, TypeOK, SharedTypes, PhaseTypes,
       RenewalTypes, Phase, Refreshed, Covered, Sound, Fresh, Lease, RegistrationAssumption
<1>2. CASE ClaimFails(k)
  <2>1. ASSUME j # k PROVE Good(j)'
    <3>1. lease' = lease \/ lease.owner # {j}
      BY <1>2 DEF ClaimFails
    <3>2. pc'[j] = pc[j] /\ due'[j] = due[j] /\ UNCHANGED <<stop, local>>
      BY <1>2, <2>1 DEF ClaimFails, Go, Done, IInv, TypeOK, PhaseTypes
    <3>3. j \in missed => j \in missed'
      BY <1>2, <2>1 DEF ClaimFails
    <3> QED BY <3>1, <3>2, <3>3, Others
  <2>2. ASSUME j = k PROVE Good(j)'
    BY <1>2, <2>2, SMTT(30) DEF ClaimFails, Go, Done, IInv, Good, TypeOK, SharedTypes, PhaseTypes,
       RenewalTypes, Phase, Refreshed, Covered, Sound, Fresh, Lease, RegistrationAssumption
  <2> QED BY <2>1, <2>2
<1>3. CASE SweepFails(k)
  BY <1>3, SMTT(30) DEF SweepFails, Gone, NoLease, Go, Done, IInv, Good, TypeOK, SharedTypes, PhaseTypes,
       RenewalTypes, Phase, Refreshed, Covered, Sound, Fresh, Lease, RegistrationAssumption
<1>4. CASE Stop(k)
  BY <1>4, SMTT(30) DEF Stop, Go, Done, IInv, Good, TypeOK, SharedTypes, PhaseTypes,
       RenewalTypes, Phase, Refreshed, Covered, Sound, Fresh, Lease, RegistrationAssumption
<1>5. CASE StopRelease(k)
  BY <1>5, SMTT(30) DEF StopRelease, Go, Done, IInv, Good, TypeOK, SharedTypes, PhaseTypes,
       RenewalTypes, Phase, Refreshed, Covered, Sound, Fresh, Lease, RegistrationAssumption
<1>6. CASE StopDelete(k)
  BY <1>6, SMTT(30) DEF StopDelete, Del, Gone, NoLease, Go, Done, IInv, Good, TypeOK, SharedTypes, PhaseTypes,
       RenewalTypes, Phase, Refreshed, Covered, Sound, Fresh, Lease, RegistrationAssumption
<1>7. CASE StopUnregister(k)
  BY <1>7, SMTT(30) DEF StopUnregister, Down, Gone, NoLease, Go, Done, IInv, Good, TypeOK, SharedTypes, PhaseTypes,
       RenewalTypes, Phase, Refreshed, Covered, Sound, Fresh, Lease, RegistrationAssumption
<1>8. CASE Crash(k)
  BY <1>8, SMTT(30) DEF Crash, Down, Gone, NoLease, Go, Done, IInv, Good, TypeOK, SharedTypes, PhaseTypes,
       RenewalTypes, Phase, Refreshed, Covered, Sound, Fresh, Lease, RegistrationAssumption
<1>9. CASE Overrun(k)
  <2>1. ASSUME j # k PROVE Good(j)'
    <3>1. lease' = lease \/ lease.owner # {j}
      BY <1>9, <2>1 DEF Overrun, Pass
    <3>2. UNCHANGED <<pc, due, stop, local>> /\ (j \in missed => j \in missed')
      BY <1>9 DEF Overrun
    <3> QED BY <3>1, <3>2, Others
  <2>2. ASSUME j = k PROVE Good(j)'
    <3>1. UNCHANGED <<pc, due, stop, local>> /\ j \in missed'
      BY <1>9, <2>2 DEF Overrun
    <3>2. Phase(j)'
      BY <3>1 DEF IInv, Good, Phase, Sound
    <3> QED BY <3>1, <3>2 DEF Good, Refreshed, Covered, Sound
  <2> QED BY <2>1, <2>2
<1>10. CASE Restart(k)
  <2>1. ASSUME j # k PROVE Good(j)'
    <3>1. lease' = lease \/ lease.owner # {j}
      BY <1>10, <2>1 DEF Restart
    <3>2. pc'[j] = pc[j] /\ due'[j] = due[j]
      BY <1>10, <2>1 DEF Restart, Go, IInv, TypeOK, PhaseTypes
    <3>3. UNCHANGED <<stop, local, missed>>
      BY <1>10 DEF Restart
    <3> QED BY <3>1, <3>2, <3>3, Others
  <2>2. ASSUME j = k PROVE Good(j)'
    <3>1. pc[j] = "down" /\ pc'[j] = "idle" /\ due'[j]
      BY <1>10, <2>2 DEF Restart, Go, IInv, TypeOK, PhaseTypes
    <3>2. UNCHANGED <<stop, local, missed>> /\ ~local[j].on
      BY <1>10, <3>1 DEF Restart, IInv, Good, Phase
    <3> QED BY <3>1, <3>2 DEF Good, Phase, Refreshed, Covered, Sound
  <2> QED BY <2>1, <2>2
<1> QED BY <1>1, <1>2, <1>3, <1>4, <1>5, <1>6, <1>7, <1>8, <1>9, <1>10 DEF Fault, Stopping

\* Every instance stays good under what users and time do.
LEMMA GoodEnvironment ==
  ASSUME IInv, NEW j \in Instances,
         Deploy \/ Withdraw \/ Lapse \/ \E k \in Instances : Poll(k)
  PROVE  Good(j)'
<1> USE RegistrationAssumption
<1>1. CASE Deploy
  BY <1>1, Others DEF Deploy
<1>2. CASE Withdraw
  BY <1>2, Others DEF Withdraw
<1>3. CASE Lapse
  <2>1. UNCHANGED <<pc, due, stop, local, missed>>
    BY <1>3 DEF Lapse
  <2>2. CASE lease.owner # {j}
    BY <2>1, <2>2, Others
  <2>3. CASE lease.owner = {j}
    <3>1. lease.left = 0 \/ pc[j] = "down"
      BY <1>3, <2>3 DEF Lapse
    <3>2. ~Sound(j)
      BY <3>1 DEF IInv, Good, Phase, Covered, Sound
    <3>3. pc[j] \in {"register", "mark"} => ~Fresh(j)
      BY <3>1 DEF Fresh, Lease, RegistrationAssumption
    <3>4. ~Sound(j)' /\ Phase(j)'
      BY <2>1, <3>2 DEF IInv, Good, Phase, Sound
    <3>5. Refreshed(j)' /\ Covered(j)'
      BY <2>1, <3>3, <3>4 DEF IInv, Good, Refreshed, Covered
    <3> QED BY <3>4, <3>5 DEF Good
  <2> QED BY <2>2, <2>3
<1>4. ASSUME NEW k \in Instances, Poll(k) PROVE Good(j)'
  <2>1. UNCHANGED <<pc, stop, local, missed>>
    BY <1>4 DEF Poll
  <2>2. ASSUME j # k PROVE Good(j)'
    <3>1. due'[j] = due[j]
      BY <1>4, <2>2 DEF Poll, IInv, TypeOK, PhaseTypes
    <3>2. lease' = lease \/ lease.owner # {j}
      BY <1>4, <2>2 DEF Poll, Pass
    <3> QED BY <2>1, <3>1, <3>2, Others
  <2>3. ASSUME j = k PROVE Good(j)'
    <3>1. pc[j] = "idle" /\ ~due[j] /\ due'[j]
      BY <1>4, <2>3 DEF Poll, IInv, TypeOK, PhaseTypes
    <3>2. Phase(j)' /\ Refreshed(j)'
      BY <2>1, <3>1 DEF Phase, Refreshed
    <3>3. ASSUME Sound(j)' PROVE lease'.owner = {j} /\ lease'.left > 0
      <4>1. lease = Lease(j)
        BY <2>1, <3>1, <3>3 DEF IInv, Good, Covered, Fresh, Sound
      <4>2. lease.owner = {j} /\ lease.left = LeaseTTL /\ LeaseTTL - 1 > 0
        BY <4>1 DEF Lease, RegistrationAssumption
      <4>3. lease' = [lease EXCEPT !.left = LeaseTTL - 1]
        BY <1>4, <2>3, <4>2 DEF Poll, Pass, RegistrationAssumption
      <4> QED BY <4>1, <4>2, <4>3 DEF Lease
    <3> QED BY <3>1, <3>2, <3>3 DEF Good, Covered
  <2> QED BY <2>2, <2>3
<1> QED BY <1>1, <1>2, <1>3, <1>4

\* Stuttering, the initial state and a step of the system.
LEMMA GoodStutter ==
  ASSUME IInv, NEW j \in Instances, UNCHANGED vars PROVE Good(j)'
BY Others DEF vars

LEMMA InvInit == Init => IInv
<1>1. ASSUME Init, NEW i \in Instances PROVE Good(i)
  BY <1>1 DEF Init, Good, Phase, Refreshed, Covered, Sound, Gone
<1> QED BY <1>1, TypesInit DEF IInv

LEMMA InvStep == IInv /\ [Next]_vars => IInv'
<1> SUFFICES ASSUME IInv, [Next]_vars PROVE IInv'
  OBVIOUS
<1>1. TypeOK'
  BY TypesReconcile, TypesRenewal, TypesFaultsAndStops, TypesEnvironment, TypesStutter
     DEF Next, IInv
<1>2. ASSUME NEW j \in Instances PROVE Good(j)'
  BY GoodReconcile, GoodRenewal, GoodFaultsAndStops, GoodEnvironment, GoodStutter DEF Next
<1> QED BY <1>1, <1>2 DEF IInv

\* The registration manager keeps the inductive invariant.
THEOREM Inductive == Spec => []IInv
BY InvInit, InvStep, PTL DEF Spec

-----------------------------------------------------------------------------
(* Safety *)

\* An instance that registered the number, is not shutting down, took or extended its
\* lease when it last tried, in time, and was not robbed of it owns the lease, with time
\* left (handleClaimOwnership, handleRegister, releaseOwner), whatever its peers do and
\* whenever the leases of others lapse.
THEOREM LeaseCoversHolder == Spec => []HolderOwns
<1>1. IInv => HolderOwns
  BY DEF IInv, Good, Covered, HolderOwns
<1> QED BY <1>1, Inductive, PTL

\* No two such instances hold registrations of the number at the same time.
THEOREM OneHolder == Spec => []SoleHolder
<1>1. IInv => SoleHolder
  BY DEF IInv, Good, Covered, SoleHolder
<1> QED BY <1>1, Inductive, PTL
=============================================================================
