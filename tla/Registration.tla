---------------------------- MODULE Registration ----------------------------
(************************************************************************************)
(* Who registers a phone number (DID) with the SIP provider. Every instance of      *)
(* the assistant API polls the deployments; the one that holds the number's lease   *)
(* in Redis sends REGISTER and renews it, the others stand by. Source:              *)
(*   src/api/assistant-api/sip/registration/*.go and                                *)
(*   src/api/assistant-api/sip/internal/core/register.go                            *)
(*                                                                                  *)
(* One number. Every instance polls at its own phase. The lease carries the         *)
(* polls of its owner that it outlasts for certain; with none left it may lapse     *)
(* at any moment, also between two round trips of a reconcile. When a binding at    *)
(* the registrar expires is left open. A step of an instance is one round trip to   *)
(* Redis, to the registrar or to the database. A reconcile takes less than half a   *)
(* poll interval, or it is one of the faults (Overrun). Assumed: the registrar      *)
(* refuses a REGISTER that a later one of the same binding has overtaken. The       *)
(* second of the two reconciles at startup, and writes of a status that fail, are   *)
(* left out.                                                                        *)
(************************************************************************************)
EXTENDS Naturals, FiniteSets

CONSTANTS
  Instances,      \* the instances of the assistant API
  LeaseTTL,       \* OwnershipTTL, in poll intervals (2 in the code)
  MaxRetries,     \* MaxTransientRetries
  MaxDeployments, \* bound on deployments of the number
  MaxFaults,      \* bound on failed lease operations, loads, unregistrations and overruns
  MaxStops        \* bound on crashes and shutdowns

ASSUME RegistrationAssumption ==
  /\ LeaseTTL \in Nat \ {0, 1} /\ MaxRetries \in Nat \ {0}
  /\ MaxDeployments \in Nat /\ MaxFaults \in Nat /\ MaxStops \in Nat

VARIABLES
  deployment, \* the active phone deployment of the number, 0 when there is none
  deployed,   \* number of deployments made
  status,     \* its sip_status
  retries,    \* its sip_retry_count
  lease,      \* owner key in Redis: set of at most one owner, and polls left
  pc,         \* per instance: where its reconcile is
  due,        \* per instance: the poll timer has fired
  record,     \* per instance: deployment the running reconcile loaded, 0 if none
  local,      \* per instance: activeRegistration
  notice,     \* per instance: event of the renewal loop not yet handled
  stop,       \* per instance: where Stop is
  faults, stops,
  missed      \* history: instances that have not refreshed a lease of theirs since a
              \* reconcile failed to, or was late, or a peer deleted the lease they had

vars == <<deployment, deployed, status, retries, lease, pc, due, record, local,
          notice, stop, faults, stops, missed>>
dbVars == <<deployment, deployed, status, retries>>
boundVars == <<faults, stops>>

\* isTerminalRegistrationStatus; "rejected" stands for config_error as well.
Terminal == {"rejected", "unreachable"}
Statuses == {"none", "active", "failed"} \cup Terminal

NoLease == [owner |-> {}, left |-> 0]
Gone == [on |-> FALSE, dep |-> 0, fails |-> 0]
NoNotice == [dep |-> 0, fails |-> 0]

Init ==
  /\ deployment = 0 /\ deployed = 0 /\ status = "none" /\ retries = 0
  /\ lease = NoLease
  /\ pc = [i \in Instances |-> "idle"]
  /\ due = [i \in Instances |-> TRUE]
  /\ record = [i \in Instances |-> 0]
  /\ local = [i \in Instances |-> Gone]
  /\ notice = [i \in Instances |-> NoNotice]
  /\ stop = [i \in Instances |-> "no"]
  /\ faults = 0 /\ stops = 0 /\ missed = {}

Go(i, l) == pc' = [pc EXCEPT ![i] = l]

\* The end of a reconcile.
Done(i) ==
  /\ Go(i, "idle")
  /\ due' = [due EXCEPT ![i] = FALSE] /\ record' = [record EXCEPT ![i] = 0]

\* writeRegistrationStatus: a write to the options of a deployment.
Write(dep, s, n) ==
  IF dep = deployment THEN status' = s /\ retries' = n ELSE UNCHANGED <<status, retries>>

-----------------------------------------------------------------------------
(* Deployments *)

\* Saving a deployment archives the one before and starts with no status.
Deploy ==
  /\ deployed < MaxDeployments
  /\ deployed' = deployed + 1 /\ deployment' = deployed + 1
  /\ status' = "none" /\ retries' = 0
  /\ UNCHANGED <<lease, pc, due, record, local, notice, stop, faults, stops, missed>>

Withdraw ==
  /\ deployment # 0
  /\ deployment' = 0 /\ status' = "none" /\ retries' = 0
  /\ UNCHANGED <<deployed, lease, pc, due, record, local, notice, stop, faults, stops, missed>>

-----------------------------------------------------------------------------
(* Reconcile *)

\* loadRecords: the deployment, unless its status is terminal.
Load(i) ==
  /\ pc[i] = "idle" /\ due[i]
  /\ record' = [record EXCEPT ![i] = IF status \in Terminal THEN 0 ELSE deployment]
  /\ Go(i, IF record'[i] = 0 THEN "sweep" ELSE "claim")
  /\ UNCHANGED <<dbVars, lease, due, local, notice, stop, boundVars, missed>>

\* A reconcile that cannot load the records does nothing at all.
LoadFails(i) ==
  /\ pc[i] = "idle" /\ due[i] /\ faults < MaxFaults
  /\ faults' = faults + 1 /\ missed' = missed \cup {i}
  /\ Done(i)
  /\ UNCHANGED <<dbVars, lease, local, notice, stop, stops>>

LeaseMut(i) == [owner |-> {i}, left |-> LeaseTTL + 1] \* mutant: the TTL rounded up
Lease(i) == [owner |-> {i}, left |-> LeaseTTL]

ClaimMut(i) == \* mutant: the result of the second SETNX is not looked at
  /\ pc[i] \in {"claim", "again"}
  /\ \/ /\ lease.owner = {}
        /\ lease' = Lease(i) /\ missed' = missed \ {i} /\ Go(i, "register")
     \/ /\ lease.owner # {}
        /\ Go(i, IF pc[i] = "claim" THEN "get" ELSE "register") /\ UNCHANGED <<lease, missed>>
  /\ UNCHANGED <<dbVars, due, record, local, notice, stop, boundVars>>

\* SETNX, at first and again when the key has gone before GET saw it.
Claim(i) ==
  /\ pc[i] \in {"claim", "again"}
  /\ \/ /\ lease.owner = {}
        /\ lease' = Lease(i) /\ missed' = missed \ {i}
        /\ Go(i, "register") /\ UNCHANGED <<due, record>>
     \/ /\ lease.owner # {} /\ pc[i] = "claim"
        /\ Go(i, "get") /\ UNCHANGED <<lease, missed, due, record>>
     \/ /\ lease.owner # {} /\ pc[i] = "again"
        /\ Done(i) /\ UNCHANGED <<lease, missed>>
  /\ UNCHANGED <<dbVars, local, notice, stop, boundVars>>

\* SETNX or GET fails, and the reconcile of the number ends. A failed SETNX may
\* have taken the lease all the same.
ClaimFails(i) ==
  /\ pc[i] \in {"claim", "get", "again"} /\ faults < MaxFaults
  /\ faults' = faults + 1 /\ missed' = missed \cup {i}
  /\ \/ lease' = lease
     \/ pc[i] # "get" /\ lease.owner = {} /\ lease' = Lease(i)
  /\ Done(i)
  /\ UNCHANGED <<dbVars, local, notice, stop, stops>>

Get(i) ==
  /\ pc[i] = "get"
  /\ \/ lease.owner = {} /\ Go(i, "again") /\ UNCHANGED <<due, record>>
     \/ lease.owner = {i} /\ Go(i, "extend") /\ UNCHANGED <<due, record>>
     \/ lease.owner \notin {{}, {i}} /\ Done(i)
  /\ UNCHANGED <<dbVars, lease, local, notice, stop, boundVars, missed>>

ExtendMut(i) == \* mutant: the lease it owns already is not extended
  /\ pc[i] = "extend" /\ Go(i, "register")
  /\ UNCHANGED <<dbVars, lease, due, record, local, notice, stop, boundVars, missed>>

\* EXPIRE, on whatever the key holds by now: the lease read to be its own, that of a
\* peer that took it meanwhile, or nothing. Neither its result nor its failure is
\* looked at, and the reconcile goes on as the owner.
Extend(i) ==
  /\ pc[i] = "extend"
  /\ \/ /\ lease.owner = {i}
        /\ lease' = Lease(i) /\ missed' = missed \ {i} /\ UNCHANGED faults
     \/ /\ lease.owner # {i}
        /\ lease' = IF lease.owner = {} THEN lease ELSE [lease EXCEPT !.left = LeaseTTL]
        /\ missed' = missed \cup {i} /\ UNCHANGED faults
     \/ /\ faults < MaxFaults /\ faults' = faults + 1
        /\ missed' = missed \cup {i} /\ UNCHANGED lease
  /\ Go(i, "register")
  /\ UNCHANGED <<dbVars, due, record, local, notice, stop, stops>>

\* Snapshot(did).Active; a binding that is kept may have expired all the same.
AlreadyActive(i) ==
  /\ pc[i] = "register" /\ local[i].on
  /\ Done(i)
  /\ UNCHANGED <<dbVars, lease, local, notice, stop, boundVars, missed>>

\* activeRegistration, after n failed renewals in a row.
Binding(dep, n) == [on |-> TRUE, dep |-> dep, fails |-> n]

\* REGISTER accepted: the binding replaces an expired one and is renewed.
Registered(i) ==
  /\ pc[i] = "register"
  /\ local' = [local EXCEPT ![i] = Binding(record[i], 0)]
  /\ Go(i, "mark")
  /\ UNCHANGED <<dbVars, lease, due, record, notice, stop, boundVars, missed>>

MarkActive(i) ==
  /\ pc[i] = "mark"
  /\ Write(record[i], "active", 0)
  /\ Done(i)
  /\ UNCHANGED <<deployment, deployed, lease, local, notice, stop, boundVars, missed>>

\* Rejected, or a configuration or authentication error.
Refused(i) ==
  /\ pc[i] = "register"
  /\ \E s \in {"rejected", "failed"} : Write(record[i], s, retries)
  /\ Done(i)
  /\ UNCHANGED <<deployment, deployed, lease, local, notice, stop,
                 boundVars, missed>>

\* From MaxRetries - 1 on, counts are alike: the next transient failure is the last.
AtMost(n) == IF n >= MaxRetries THEN MaxRetries - 1 ELSE n

\* handleTransient: the count goes on from what the deployment's options say.
Transient(i) ==
  /\ pc[i] = "register"
  /\ Write(record[i], IF retries + 1 >= MaxRetries THEN "unreachable" ELSE status,
           AtMost(retries + 1))
  /\ Done(i)
  /\ UNCHANGED <<deployment, deployed, lease, local, notice, stop, boundVars, missed>>

SweepMut(i) == \* mutant: nothing is unregistered
  /\ pc[i] = "sweep" /\ Done(i)
  /\ UNCHANGED <<dbVars, lease, local, notice, stop, boundVars, missed>>

\* Nothing is to be registered: what this instance holds is unregistered ...
Sweep(i) ==
  /\ pc[i] = "sweep"
  /\ \/ ~local[i].on /\ Done(i) /\ UNCHANGED local
     \/ /\ local[i].on
        /\ local' = [local EXCEPT ![i] = Gone]
        /\ Go(i, "release") /\ UNCHANGED <<due, record>>
  /\ UNCHANGED <<dbVars, lease, notice, stop, boundVars, missed>>

\* ... or, when that fails, kept, and its deployment shown as active.
SweepFails(i) ==
  /\ pc[i] = "sweep" /\ local[i].on /\ faults < MaxFaults
  /\ faults' = faults + 1 /\ missed' = missed \cup {i}
  /\ Write(local[i].dep, "active", 0)
  /\ Done(i)
  /\ UNCHANGED <<deployment, deployed, lease, local, notice, stop, stops>>

\* releaseOwner: GET, and DEL when the lease was our own.
Release(i) ==
  /\ pc[i] = "release"
  /\ \/ lease.owner = {i} /\ Go(i, "delete") /\ UNCHANGED <<due, record>>
     \/ lease.owner # {i} /\ Done(i)
  /\ UNCHANGED <<dbVars, lease, local, notice, stop, boundVars, missed>>

\* DEL takes away whatever the key holds by now.
Del(i) == lease' = NoLease /\ missed' = missed \cup (lease.owner \ {i})

Delete(i) ==
  /\ pc[i] = "delete"
  /\ Del(i)
  /\ Done(i)
  /\ UNCHANGED <<dbVars, local, notice, stop, boundVars>>

-----------------------------------------------------------------------------
(* The renewal loop *)

\* The event a renewal hands to the observer: whose it is, and the failures in a row.
Notice(i, n) == notice' = [notice EXCEPT ![i] = [dep |-> local[i].dep, fails |-> n]]

Renew(i) ==
  /\ local[i].on /\ notice[i] = NoNotice
  /\ local' = [local EXCEPT ![i] = Binding(local[i].dep, 0)]
  /\ Notice(i, 0)
  /\ UNCHANGED <<dbVars, lease, pc, due, record, stop, boundVars, missed>>

\* markRenewalFailed: past its expiry the registration is given up. What the observer
\* then does, RegistrationExpired, has no effect: the context it writes the status and
\* releases the lease with is the one markRenewalFailed has just cancelled.
RenewFails(i) ==
  /\ local[i].on /\ notice[i] = NoNotice
  /\ LET n == AtMost(local[i].fails + 1)
     IN \/ local' = [local EXCEPT ![i] = Gone] /\ UNCHANGED notice
        \/ /\ local' = [local EXCEPT ![i] = Binding(local[i].dep, n)]
           /\ Notice(i, n)
  /\ UNCHANGED <<dbVars, lease, pc, due, record, stop, boundVars, missed>>

\* The observer: RegistrationRenewed and RegistrationRenewalFailed.
Observe(i) ==
  /\ notice[i] # NoNotice
  /\ Write(notice[i].dep, "active", notice[i].fails)
  /\ notice' = [notice EXCEPT ![i] = NoNotice]
  /\ UNCHANGED <<deployment, deployed, lease, pc, due, record, local, stop,
                 boundVars, missed>>

-----------------------------------------------------------------------------
(* Shutdown, crash and restart *)

\* Stop releases the leases of registered numbers, then unregisters them; the
\* reconcile of the instance goes on meanwhile.
Stop(i) ==
  /\ pc[i] # "down" /\ stop[i] = "no" /\ stops < MaxStops
  /\ stops' = stops + 1
  /\ stop' = [stop EXCEPT ![i] = IF local[i].on THEN "release" ELSE "unregister"]
  /\ UNCHANGED <<dbVars, lease, pc, due, record, local, notice, faults, missed>>

StopRelease(i) ==
  /\ stop[i] = "release"
  /\ stop' = [stop EXCEPT ![i] = IF lease.owner = {i} THEN "delete" ELSE "unregister"]
  /\ UNCHANGED <<dbVars, lease, pc, due, record, local, notice, boundVars, missed>>

StopDelete(i) ==
  /\ stop[i] = "delete"
  /\ Del(i)
  /\ stop' = [stop EXCEPT ![i] = "unregister"]
  /\ UNCHANGED <<dbVars, pc, due, record, local, notice, boundVars>>

\* Whatever runs in the instance ends, and its renewals with it.
Down(i) ==
  /\ pc' = [pc EXCEPT ![i] = "down"] /\ due' = [due EXCEPT ![i] = FALSE]
  /\ record' = [record EXCEPT ![i] = 0]
  /\ local' = [local EXCEPT ![i] = Gone]
  /\ notice' = [notice EXCEPT ![i] = NoNotice]
  /\ stop' = [stop EXCEPT ![i] = "no"] /\ missed' = missed \ {i}

\* A failed unregistration of UnregisterAll writes the status too.
StopUnregister(i) ==
  /\ stop[i] = "unregister"
  /\ \/ UNCHANGED <<status, retries>>
     \/ local[i].on /\ Write(local[i].dep, "active", 0)
  /\ Down(i)
  /\ UNCHANGED <<deployment, deployed, lease, boundVars>>

Crash(i) ==
  /\ pc[i] # "down" /\ stops < MaxStops
  /\ stops' = stops + 1
  /\ Down(i)
  /\ UNCHANGED <<dbVars, lease, faults>>

\* What is left of a lease it had from before is not known.
Restart(i) ==
  /\ pc[i] = "down"
  /\ Go(i, "idle") /\ due' = [due EXCEPT ![i] = TRUE]
  /\ lease' = IF lease.owner = {i} THEN [lease EXCEPT !.left = 0] ELSE lease
  /\ UNCHANGED <<dbVars, record, local, notice, stop, boundVars, missed>>

-----------------------------------------------------------------------------
(* Time *)

\* A poll interval of an instance passes for the lease it has.
Pass(i) ==
  lease' = IF lease.owner = {i} /\ lease.left > 0 THEN [lease EXCEPT !.left = @ - 1] ELSE lease

\* The ticker of an instance that has nothing to do.
Poll(i) ==
  /\ pc[i] = "idle" /\ ~due[i]
  /\ due' = [due EXCEPT ![i] = TRUE]
  /\ Pass(i)
  /\ UNCHANGED <<dbVars, pc, record, local, notice, stop, boundVars, missed>>

\* A reconcile that takes too long: the next one of the instance comes late.
Overrun(i) ==
  /\ pc[i] \notin {"idle", "down"} /\ faults < MaxFaults
  /\ faults' = faults + 1 /\ missed' = missed \cup {i}
  /\ Pass(i)
  /\ UNCHANGED <<dbVars, pc, due, record, local, notice, stop, stops>>

LapseMut == \* mutant: the lease is taken without a TTL
  /\ \E i \in lease.owner : lease.left = 0 \/ pc[i] = "down"
  /\ UNCHANGED vars

\* The key expires: its owner has not extended it in time, or is down.
Lapse ==
  /\ \E i \in lease.owner : lease.left = 0 \/ pc[i] = "down"
  /\ lease' = NoLease
  /\ UNCHANGED <<dbVars, pc, due, record, local, notice, stop, boundVars, missed>>

Reconcile(i) ==
  \/ Load(i) \/ Claim(i) \/ Get(i) \/ Extend(i) \/ AlreadyActive(i) \/ Registered(i)
  \/ MarkActive(i) \/ Refused(i) \/ Transient(i) \/ Sweep(i) \/ Release(i) \/ Delete(i)

Fault(i) == LoadFails(i) \/ ClaimFails(i) \/ SweepFails(i) \/ Overrun(i)
Renewal(i) == Renew(i) \/ RenewFails(i) \/ Observe(i)
Stopping(i) == StopRelease(i) \/ StopDelete(i) \/ StopUnregister(i)

Next ==
  \/ Deploy \/ Withdraw \/ Lapse
  \/ \E i \in Instances : Poll(i) \/ Reconcile(i) \/ Fault(i) \/ Renewal(i)
                          \/ Stop(i) \/ Stopping(i) \/ Crash(i) \/ Restart(i)

Spec == Init /\ [][Next]_vars

\* Time passes, and a reconcile or a shutdown that runs goes on; nothing is assumed
\* of users, of renewals, or that an instance that is down comes back.
FairSpec ==
  /\ Spec
  /\ WF_vars(Lapse)
  /\ \A i \in Instances : WF_vars(Poll(i) \/ Reconcile(i)) /\ WF_vars(Stopping(i))

-----------------------------------------------------------------------------
(* Properties *)

Labels == {"down", "idle", "claim", "get", "again", "extend", "register", "mark",
           "sweep", "release", "delete"}

SharedTypes ==
  /\ deployment \in Nat /\ deployed \in Nat /\ status \in Statuses /\ retries \in Nat
  /\ lease \in [owner : SUBSET Instances, left : 0..LeaseTTL]
  /\ faults \in Nat /\ stops \in Nat /\ missed \subseteq Instances

PhaseTypes ==
  /\ pc \in [Instances -> Labels] /\ due \in [Instances -> BOOLEAN]
  /\ record \in [Instances -> Nat]
  /\ stop \in [Instances -> {"no", "release", "delete", "unregister"}]

RenewalTypes ==
  /\ local \in [Instances -> [on : BOOLEAN, dep : Nat, fails : Nat]]
  /\ notice \in [Instances -> [dep : Nat, fails : Nat]]

TypeOK == SharedTypes /\ PhaseTypes /\ RenewalTypes

\* Holds the number and, when it last tried, took or extended a lease that was its own,
\* in time; no peer has deleted the lease since. The instance itself cannot tell: a
\* lapse between its GET and its EXPIRE goes unnoticed and leaves it unsound.
Sound(i) == local[i].on /\ stop[i] = "no" /\ i \notin missed

\* Two instances never both hold a registration of the number, except those that are
\* shutting down, did not refresh their lease or were robbed of it.
SoleHolder == \A i, j \in Instances : Sound(i) /\ Sound(j) => i = j

\* A sound holder owns the lease, which does not lapse before its next reconcile.
HolderOwns == \A i \in Instances : Sound(i) => lease.owner = {i} /\ lease.left > 0

Held == \E i \in Instances : local[i].on

\* A deployment that can be registered is taken up by an instance that is up: the
\* lease of one that went away does not stand in the way for ever.
Up == {i \in Instances : pc[i] # "down"}
Waiting == deployment # 0 /\ status \notin Terminal /\ ~Held
TakeOver == Waiting ~> \/ ~Waiting
                       \/ \E i \in Instances : pc[i] = "register"
                       \/ Up = {}

\* The registrations of a number without a deployment are given up.
Removed == deployment = 0 /\ Held ~> deployment # 0 \/ ~Held

\* The comment of releaseOwner: the key is deleted only while it is our own.
DeletesOwnLease ==
  [][\A i \in Instances : Delete(i) \/ StopDelete(i) => lease.owner \subseteq {i}]_vars
=============================================================================
