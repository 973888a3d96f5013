---------------------------- MODULE RenewalTimes ----------------------------
(***************************************************************************)
(* When a resource is reconciled next: the computations on lease           *)
(* durations, renewal percentages and jitter of controllers/common.go and  *)
(* of the dynamic, PKI and HCP Vault Secrets controllers.                  *)
(* A duration is a number of time units; the conversion of a float to a    *)
(* duration truncates.                                                     *)
(***************************************************************************)
EXTENDS Integers, Sequences

CONSTANTS
  minHorizon,             \* the PKI controller's shortest horizon, one second
  defaultDynamicRequeue   \* the HCP controller's, for a renewal that is late

ASSUME TimesAssumption == minHorizon \in Nat \ {0} /\ defaultDynamicRequeue \in Nat \ {0}

renewalPercentCap == 90
defaultDynamicRenewPercent == 67

\* percent hundredths of d.
Part(d, percent) == (d * percent) \div 100

\* The jitters that computeMaxJitterWithPercent draws from.
Jitters(d, percent) == IF Part(d, percent) = 0 THEN {0} ELSE 0..(Part(d, percent) - 1)

computeMaxJitter(d) == Part(d, 10)

computeHorizonWithJitter(d, jitter) == d - (computeMaxJitter(d) + jitter)

\* (The mutant does not cap.)
capRenewalPercentNot(p) == IF p < 0 THEN 0 ELSE p
capRenewalPercent(p) == IF p > renewalPercentCap THEN renewalPercentCap ELSE IF p < 0 THEN 0 ELSE p

computeStartRenewingAt(lease, percent) == Part(lease, capRenewalPercent(percent))

computeDynamicHorizonWithJitter(lease, percent, jitter) ==
  computeStartRenewingAt(lease, percent) + computeMaxJitter(lease) - jitter

\* The dynamic controller after a restart, for a lease renewed at time `renewed'.
computeRelativeHorizon(renewed, lease, percent, now) ==
  renewed + computeStartRenewingAt(lease, percent) - now

computeRelativeHorizonWithJitter(horizon, least, jitter) ==
  (IF horizon < least THEN least ELSE horizon) - jitter

\* The PKI controller's horizon, and whether the certificate is to be renewed now.
isInWindow(t1, t2) == t1 >= t2

PKIHorizon(expiration, offset, now) ==
  IF isInWindow(now, expiration - offset) \/ expiration - offset - now < minHorizon
  THEN minHorizon ELSE expiration - offset - now

PKIInWindow(expiration, offset, now) ==
  isInWindow(now, expiration - offset) \/ expiration - offset - now < minHorizon

\* (The mutant always subtracts the jitter.)
computePKIRenewalWindowEarly(expiration, offset, now, jitter) ==
  [horizon |-> PKIHorizon(expiration, offset, now) - jitter,
   inWindow |-> PKIInWindow(expiration, offset, now)]
computePKIRenewalWindow(expiration, offset, now, jitter) ==
  [horizon |-> IF offset > 0 \/ PKIInWindow(expiration, offset, now)
               THEN PKIHorizon(expiration, offset, now) + jitter
               ELSE PKIHorizon(expiration, offset, now) - jitter,
   inWindow |-> PKIInWindow(expiration, offset, now)]

\* The HCP controller: a dynamic instance has a time of creation and one of expiration.
Instance == {i \in [createdAt : Nat, expiresAt : Nat] : i.createdAt <= i.expiresAt}

getDynamicRenewPercent(p) == capRenewalPercent(IF p = 0 THEN defaultDynamicRenewPercent ELSE p)

getRenewTime(i, percent) == i.createdAt + Part(i.expiresAt - i.createdAt, percent)

timeForRenewal(i, percent, now) == now > getRenewTime(i, percent)

\* The time until the renewal of an instance, kept for the instance that is renewed first.
TimeToRenewal(i, percent, now) ==
  IF getRenewTime(i, percent) - now < 0 THEN defaultDynamicRequeue
  ELSE getRenewTime(i, percent) - now

NoRenewal == [timeToNextRenewal |-> 0, ttl |-> 0]

\* (The mutant keeps the first instance's.)
getTimeToNextRenewalFirst(current, i, percent, now) ==
  IF current.timeToNextRenewal = 0
  THEN [timeToNextRenewal |-> TimeToRenewal(i, percent, now), ttl |-> i.expiresAt - i.createdAt]
  ELSE current
getTimeToNextRenewal(current, i, percent, now) ==
  IF \/ TimeToRenewal(i, percent, now) < current.timeToNextRenewal
     \/ current.timeToNextRenewal = 0
  THEN [timeToNextRenewal |-> TimeToRenewal(i, percent, now), ttl |-> i.expiresAt - i.createdAt]
  ELSE current

\* The next renewal of the first n instances, and when to reconcile; refresh is what
\* spec.refreshAfter asks for, 0 for nothing.
nextRenewal(is, percent, now) ==
  LET next[n \in 0..Len(is)] ==
        IF n = 0 THEN NoRenewal ELSE getTimeToNextRenewal(next[n - 1], is[n], percent, now)
  IN next[Len(is)]

requeueAfter(refresh, next, jitter) ==
  IF /\ next.timeToNextRenewal > 0
     /\ refresh = 0 \/ next.timeToNextRenewal + jitter < refresh
  THEN next.timeToNextRenewal + jitter
  ELSE refresh
=============================================================================
