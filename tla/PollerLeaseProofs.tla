------------------------- MODULE PollerLeaseProofs -------------------------
(***************************************************************************)
(* What PollerLease guarantees for every number of processes, overlapping  *)
(* ticks, faults and lease lengths.                                        *)
(*                                                                         *)
(* EpochNamesOneProcess is not inductive: a RETURNING answer on its way    *)
(* carries an epoch that no process holds yet, and a job may carry one     *)
(* that its process has given up.  Custody says where every epoch is: in   *)
(* one answer, or in one process, or retired.                              *)
(***************************************************************************)
EXTENDS PollerPunctual, TLAPS

Tick == Pollers \X Ticks

\* No two processes hold the same epoch.
HeldOnce == \A p, q \in Pollers : p # q /\ epoch[p] # 0 => epoch[p] # epoch[q]

\* An epoch under way is in one answer and in no process, and the tick that
\* it belongs to waits for it.
AnswersApart ==
    /\ \A x \in Tick : got[x] # 0 <=> pc[x] = "acquired"
    /\ \A x, y \in Tick : x # y /\ got[x] # 0 => got[x] # got[y]
    /\ \A x \in Tick, p \in Pollers : got[x] # 0 => got[x] # epoch[p]

\* A retired epoch is nowhere else.
RetiredNowhere ==
    /\ \A p \in Pollers : epoch[p] \notin retired
    /\ \A x \in Tick : got[x] \notin retired

\* A job carries the epoch of its process or one that was retired, and no
\* other process carries the same.
JobsApart ==
    /\ \A p \in Pollers :
          jobEpoch[p] # 0 => jobEpoch[p] = epoch[p] \/ jobEpoch[p] \in retired
    /\ \A p, q \in Pollers : p # q /\ jobEpoch[p] # 0 => jobEpoch[p] # jobEpoch[q]
    /\ \A p \in Pollers : jobPhase[p] = "writing" => jobEpoch[p] # 0

Custody == TypeOK /\ HeldOnce /\ AnswersApart /\ RetiredNowhere /\ JobsApart

-----------------------------------------------------------------------------
\* A fresh lease row has issued no epoch and no process holds one.
LEMMA InitCustody == Init => Custody
<1> SUFFICES ASSUME Init PROVE Custody
    OBVIOUS
<1>1. TypeOK
    BY BoundsAssumption, TtlAssumption DEF Init, TypeOK, Pc
<1>2. HeldOnce /\ AnswersApart /\ RetiredNowhere /\ JobsApart
    BY DEF Init, HeldOnce, AnswersApart, RetiredNowhere, JobsApart, Tick
<1> QED BY <1>1, <1>2 DEF Custody

\* Retiring a number that was issued, or none (0), keeps retired in range.
LEMMA RetireOne ==
    ASSUME NEW n \in Nat, NEW R, R \subseteq 1..n, NEW e \in 0..n
    PROVE  R \cup ({e} \ {0}) \subseteq 1..n
OBVIOUS

\* The epochs in hand of p were issued, and nobody else has them.
LEMMA InHandApart ==
    ASSUME TypeOK, HeldOnce, AnswersApart, NEW p \in Pollers
    PROVE  /\ InHand(p) \subseteq 1..dbEpoch
           /\ \A q \in Pollers : q # p => epoch[q] \notin InHand(p)
           /\ \A x \in Tick : x[1] # p => got[x] \notin InHand(p)
<1> USE BoundsAssumption
<1>1. InHand(p) \subseteq 1..dbEpoch
    <2>1. epoch[p] \in 0..dbEpoch /\ \A t \in Ticks : got[<<p, t>>] \in 0..dbEpoch
        BY DEF TypeOK
    <2>2. dbEpoch \in Nat
        BY DEF TypeOK
    <2>3. ASSUME NEW e \in InHand(p) PROVE e \in 0..dbEpoch /\ e # 0
        BY <2>1 DEF InHand
    <2> QED BY <2>2, <2>3
<1>2. ASSUME NEW q \in Pollers, q # p PROVE epoch[q] \notin InHand(p)
    BY <1>2 DEF InHand, HeldOnce, AnswersApart, Tick
<1>3. ASSUME NEW x \in Tick, x[1] # p PROVE got[x] \notin InHand(p)
    <2>1. \A t \in Ticks : <<p, t>> \in Tick /\ <<p, t>> # x
        BY <1>3 DEF Tick
    <2>2. \A t \in Ticks : got[<<p, t>>] # 0 => got[<<p, t>>] # got[x]
        BY <2>1 DEF AnswersApart
    <2>3. got[x] # 0 => got[x] # epoch[p]
        BY DEF AnswersApart
    <2> QED BY <2>2, <2>3 DEF InHand
<1> QED BY <1>1, <1>2, <1>3

\* No step of the lease, of a tick or of a job puts an epoch into a second hand.
LEMMA StepCustody == Custody /\ [Next]_vars => Custody'
<1> SUFFICES ASSUME Custody, [Next]_vars PROVE Custody'
    OBVIOUS
<1> USE BoundsAssumption, TtlAssumption, GoneAssumption
<1> USE DEF Custody
<1>1. ASSUME NEW p \in Pollers, StartPoller(p) PROVE Custody'
  <2>1. TypeOK'
      BY <1>1 DEF StartPoller, leaseRow, runtime, ticking, jobs, TypeOK, Pc
  <2>2. HeldOnce'
      BY <1>1
      DEF StartPoller, leaseRow, runtime, ticking, jobs, TypeOK, HeldOnce,
          AnswersApart
  <2>3. AnswersApart'
      BY <1>1
      DEF StartPoller, leaseRow, runtime, ticking, jobs, TypeOK, AnswersApart, Tick
  <2>4. RetiredNowhere'
      BY <1>1
      DEF StartPoller, leaseRow, runtime, ticking, jobs, TypeOK, HeldOnce,
          AnswersApart, RetiredNowhere, Tick
  <2>5. JobsApart'
      BY <1>1
      DEF StartPoller, leaseRow, runtime, ticking, jobs, TypeOK, HeldOnce,
          AnswersApart, RetiredNowhere, JobsApart, Tick
  <2> QED BY <2>1, <2>2, <2>3, <2>4, <2>5
<1>2. ASSUME NEW p \in Pollers, BeginStop(p) PROVE Custody'
  <2>1. TypeOK'
      BY <1>2 DEF BeginStop, leaseRow, runtime, ticking, jobs, TypeOK, Pc
  <2>2. HeldOnce'
      BY <1>2
      DEF BeginStop, leaseRow, runtime, ticking, jobs, TypeOK, HeldOnce,
          AnswersApart
  <2>3. AnswersApart'
      BY <1>2
      DEF BeginStop, leaseRow, runtime, ticking, jobs, TypeOK, AnswersApart, Tick
  <2>4. RetiredNowhere'
      BY <1>2
      DEF BeginStop, leaseRow, runtime, ticking, jobs, TypeOK, HeldOnce,
          AnswersApart, RetiredNowhere, Tick
  <2>5. JobsApart'
      BY <1>2
      DEF BeginStop, leaseRow, runtime, ticking, jobs, TypeOK, HeldOnce,
          AnswersApart, RetiredNowhere, JobsApart, Tick
  <2> QED BY <2>1, <2>2, <2>3, <2>4, <2>5
<1>3. ASSUME NEW p \in Pollers, Exit(p) PROVE Custody'
  <2>1. TypeOK'
    <3>1. /\ owner' \in Pollers \cup {Gone} /\ age' \in 0..Ttl + 1 /\ dbEpoch' \in 0..MaxEpoch
          /\ status' \in [Pollers -> {"down", "running", "stopping"}]
          /\ ownsLock' \in [Pollers -> BOOLEAN] /\ faults' \in 0..MaxFaults
        BY <1>3 DEF Exit, InHand, leaseRow, runtime, ticking, jobs, TypeOK
    <3>2. pc' \in [Pollers \X Ticks -> Pc]
        BY <1>3 DEF Exit, InHand, leaseRow, runtime, ticking, jobs, TypeOK, Pc
    <3>3. /\ epoch' \in [Pollers -> 0..dbEpoch'] /\ got' \in [Pollers \X Ticks -> 0..dbEpoch']
          /\ retired' \subseteq 1..dbEpoch'
      <4>1. UNCHANGED dbEpoch /\ dbEpoch \in Nat /\ retired \subseteq 1..dbEpoch
          BY <1>3 DEF Exit, TypeOK
      <4>2. InHand(p) \subseteq 1..dbEpoch
          BY InHandApart
      <4>3. retired' \subseteq 1..dbEpoch
          BY <1>3, <4>1, <4>2 DEF Exit
      <4> QED BY <1>3, <4>1, <4>3 DEF Exit, TypeOK
    <3>4. /\ jobPhase' \in [Pollers -> {"none", "queued", "polling", "writing"}]
          /\ jobEpoch' \in [Pollers -> 0..dbEpoch']
        BY <1>3 DEF Exit, InHand, leaseRow, runtime, ticking, jobs, TypeOK
    <3> QED BY <3>1, <3>2, <3>3, <3>4 DEF TypeOK
  <2>2. HeldOnce'
      BY <1>3
      DEF Exit, InHand, leaseRow, runtime, ticking, jobs, TypeOK, HeldOnce,
          AnswersApart
  <2>3. AnswersApart'
      BY <1>3
      DEF Exit, InHand, leaseRow, runtime, ticking, jobs, TypeOK, AnswersApart,
          Tick
  <2>4. RetiredNowhere'
    <3>1. ASSUME NEW q \in Pollers PROVE epoch'[q] \notin retired'
      <4>1. epoch'[q] = (IF q = p THEN 0 ELSE epoch[q]) /\ retired' = retired \cup InHand(p)
          BY <1>3 DEF Exit, TypeOK
      <4>2. 0 \notin InHand(p) /\ 0 \notin retired
          BY DEF InHand, TypeOK
      <4> QED BY <4>1, <4>2, InHandApart DEF RetiredNowhere
    <3>2. ASSUME NEW x \in Tick PROVE got'[x] \notin retired'
      <4>1. got'[x] = (IF x[1] = p THEN 0 ELSE got[x]) /\ retired' = retired \cup InHand(p)
          BY <1>3 DEF Exit, TypeOK, Tick
      <4>2. 0 \notin InHand(p) /\ 0 \notin retired
          BY DEF InHand, TypeOK
      <4> QED BY <4>1, <4>2, InHandApart DEF RetiredNowhere
    <3> QED BY <3>1, <3>2 DEF RetiredNowhere
  <2>5. JobsApart'
      BY <1>3
      DEF Exit, InHand, leaseRow, runtime, ticking, jobs, TypeOK, HeldOnce,
          AnswersApart, RetiredNowhere, JobsApart, Tick
  <2> QED BY <2>1, <2>2, <2>3, <2>4, <2>5
<1>4. ASSUME NEW p \in Pollers, NEW t \in Ticks, StartTick(p, t) PROVE Custody'
  <2>1. TypeOK'
      BY <1>4 DEF StartTick, SetTick, leaseRow, runtime, ticking, jobs, TypeOK, Pc
  <2>2. HeldOnce'
      BY <1>4
      DEF StartTick, SetTick, leaseRow, runtime, ticking, jobs, TypeOK, HeldOnce,
          AnswersApart
  <2>3. AnswersApart'
      BY <1>4
      DEF StartTick, SetTick, leaseRow, runtime, ticking, jobs, TypeOK,
          AnswersApart, Tick
  <2>4. RetiredNowhere'
      BY <1>4
      DEF StartTick, SetTick, leaseRow, runtime, ticking, jobs, TypeOK, HeldOnce,
          AnswersApart, RetiredNowhere, Tick
  <2>5. JobsApart'
      BY <1>4
      DEF StartTick, SetTick, leaseRow, runtime, ticking, jobs, TypeOK, HeldOnce,
          AnswersApart, RetiredNowhere, JobsApart, Tick
  <2> QED BY <2>1, <2>2, <2>3, <2>4, <2>5
<1>5. ASSUME NEW p \in Pollers, NEW t \in Ticks, Renew(p, t) PROVE Custody'
  <2>1. TypeOK'
    <3>1. /\ owner' \in Pollers \cup {Gone} /\ age' \in 0..Ttl + 1 /\ dbEpoch' \in 0..MaxEpoch
          /\ status' \in [Pollers -> {"down", "running", "stopping"}]
          /\ ownsLock' \in [Pollers -> BOOLEAN] /\ faults' \in 0..MaxFaults
        BY <1>5 DEF Renew, SetTick, leaseRow, runtime, ticking, jobs, TypeOK
    <3>2. pc' \in [Pollers \X Ticks -> Pc]
        BY <1>5 DEF Renew, SetTick, leaseRow, runtime, ticking, jobs, TypeOK, Pc
    <3>3. /\ epoch' \in [Pollers -> 0..dbEpoch'] /\ got' \in [Pollers \X Ticks -> 0..dbEpoch']
          /\ retired' \subseteq 1..dbEpoch'
        BY <1>5 DEF Renew, SetTick, leaseRow, runtime, ticking, jobs, TypeOK
    <3>4. /\ jobPhase' \in [Pollers -> {"none", "queued", "polling", "writing"}]
          /\ jobEpoch' \in [Pollers -> 0..dbEpoch']
        BY <1>5 DEF Renew, SetTick, leaseRow, runtime, ticking, jobs, TypeOK
    <3> QED BY <3>1, <3>2, <3>3, <3>4 DEF TypeOK
  <2>2. HeldOnce'
      BY <1>5
      DEF Renew, SetTick, leaseRow, runtime, ticking, jobs, TypeOK, HeldOnce,
          AnswersApart
  <2>3. AnswersApart'
    <3>1. PICK v \in {"renewed", "acquire"} : pc' = [pc EXCEPT ![<<p, t>>] = v]
        BY <1>5 DEF Renew, SetTick
    <3>2. UNCHANGED <<got, epoch>> /\ pc[<<p, t>>] = "renew"
        BY <1>5 DEF Renew, runtime, ticking
    <3> QED BY <3>1, <3>2 DEF TypeOK, AnswersApart, Tick
  <2>4. RetiredNowhere'
      BY <1>5
      DEF Renew, SetTick, leaseRow, runtime, ticking, jobs, TypeOK, HeldOnce,
          AnswersApart, RetiredNowhere, Tick
  <2>5. JobsApart'
      BY <1>5
      DEF Renew, SetTick, leaseRow, runtime, ticking, jobs, TypeOK, HeldOnce,
          AnswersApart, RetiredNowhere, JobsApart, Tick
  <2> QED BY <2>1, <2>2, <2>3, <2>4, <2>5
<1>6. ASSUME NEW p \in Pollers, NEW t \in Ticks, TakeOver(p, t) PROVE Custody'
  <2>1. TypeOK'
      BY <1>6
      DEF TakeOver, SetTick, MayExpire, leaseRow, runtime, ticking, jobs, TypeOK, Pc
  <2>2. HeldOnce'
      BY <1>6
      DEF TakeOver, SetTick, MayExpire, leaseRow, runtime, ticking, jobs, TypeOK,
          HeldOnce, AnswersApart
  <2>3. AnswersApart'
      BY <1>6
      DEF TakeOver, SetTick, MayExpire, leaseRow, runtime, ticking, jobs, TypeOK,
          AnswersApart, Tick
  <2>4. RetiredNowhere'
      BY <1>6
      DEF TakeOver, SetTick, MayExpire, leaseRow, runtime, ticking, jobs, TypeOK,
          HeldOnce, AnswersApart, RetiredNowhere, Tick
  <2>5. JobsApart'
      BY <1>6
      DEF TakeOver, SetTick, MayExpire, leaseRow, runtime, ticking, jobs, TypeOK,
          HeldOnce, AnswersApart, RetiredNowhere, JobsApart, Tick
  <2> QED BY <2>1, <2>2, <2>3, <2>4, <2>5
<1>7. ASSUME NEW p \in Pollers, NEW t \in Ticks, RefuseTakeOver(p, t) PROVE Custody'
  <2>1. TypeOK'
      BY <1>7
      DEF RefuseTakeOver, SetTick, Expired, leaseRow, runtime, ticking, jobs,
          TypeOK, Pc
  <2>2. HeldOnce'
      BY <1>7
      DEF RefuseTakeOver, SetTick, Expired, leaseRow, runtime, ticking, jobs,
          TypeOK, HeldOnce, AnswersApart
  <2>3. AnswersApart'
      BY <1>7
      DEF RefuseTakeOver, SetTick, Expired, leaseRow, runtime, ticking, jobs,
          TypeOK, AnswersApart, Tick
  <2>4. RetiredNowhere'
      BY <1>7
      DEF RefuseTakeOver, SetTick, Expired, leaseRow, runtime, ticking, jobs,
          TypeOK, HeldOnce, AnswersApart, RetiredNowhere, Tick
  <2>5. JobsApart'
      BY <1>7
      DEF RefuseTakeOver, SetTick, Expired, leaseRow, runtime, ticking, jobs,
          TypeOK, HeldOnce, AnswersApart, RetiredNowhere, JobsApart, Tick
  <2> QED BY <2>1, <2>2, <2>3, <2>4, <2>5
<1>8. ASSUME NEW p \in Pollers, NEW t \in Ticks, HandleRenewed(p, t) PROVE Custody'
  <2>1. TypeOK'
      BY <1>8 DEF HandleRenewed, SetTick, leaseRow, runtime, ticking, jobs, TypeOK, Pc
  <2>2. HeldOnce'
      BY <1>8
      DEF HandleRenewed, SetTick, leaseRow, runtime, ticking, jobs, TypeOK,
          HeldOnce, AnswersApart
  <2>3. AnswersApart'
      BY <1>8
      DEF HandleRenewed, SetTick, leaseRow, runtime, ticking, jobs, TypeOK,
          AnswersApart, Tick
  <2>4. RetiredNowhere'
      BY <1>8
      DEF HandleRenewed, SetTick, leaseRow, runtime, ticking, jobs, TypeOK,
          HeldOnce, AnswersApart, RetiredNowhere, Tick
  <2>5. JobsApart'
      BY <1>8
      DEF HandleRenewed, SetTick, leaseRow, runtime, ticking, jobs, TypeOK,
          HeldOnce, AnswersApart, RetiredNowhere, JobsApart, Tick
  <2> QED BY <2>1, <2>2, <2>3, <2>4, <2>5
<1>9. ASSUME NEW p \in Pollers, NEW t \in Ticks, HandleAcquired(p, t) PROVE Custody'
  <2>1. TypeOK'
    <3>1. /\ owner' \in Pollers \cup {Gone} /\ age' \in 0..Ttl + 1 /\ dbEpoch' \in 0..MaxEpoch
          /\ status' \in [Pollers -> {"down", "running", "stopping"}]
          /\ ownsLock' \in [Pollers -> BOOLEAN] /\ faults' \in 0..MaxFaults
        BY <1>9 DEF HandleAcquired, SetTick, leaseRow, runtime, ticking, jobs, TypeOK
    <3>2. pc' \in [Pollers \X Ticks -> Pc]
        BY <1>9
        DEF HandleAcquired, SetTick, leaseRow, runtime, ticking, jobs, TypeOK, Pc
    <3>3. /\ epoch' \in [Pollers -> 0..dbEpoch'] /\ got' \in [Pollers \X Ticks -> 0..dbEpoch']
          /\ retired' \subseteq 1..dbEpoch'
      <4>1. UNCHANGED dbEpoch /\ dbEpoch \in Nat /\ epoch[p] \in 0..dbEpoch
          BY <1>9 DEF HandleAcquired, leaseRow, TypeOK
      <4>2. retired' \subseteq 1..dbEpoch
          BY <1>9, <4>1, RetireOne DEF HandleAcquired, TypeOK
      <4> QED BY <1>9, <4>1, <4>2 DEF HandleAcquired, leaseRow, runtime, TypeOK
    <3>4. /\ jobPhase' \in [Pollers -> {"none", "queued", "polling", "writing"}]
          /\ jobEpoch' \in [Pollers -> 0..dbEpoch']
        BY <1>9 DEF HandleAcquired, SetTick, leaseRow, runtime, ticking, jobs, TypeOK
    <3> QED BY <3>1, <3>2, <3>3, <3>4 DEF TypeOK
  <2>2. HeldOnce'
      BY <1>9
      DEF HandleAcquired, SetTick, leaseRow, runtime, ticking, jobs, TypeOK,
          HeldOnce, AnswersApart, Tick
  <2>3. AnswersApart'
      BY <1>9
      DEF HandleAcquired, SetTick, leaseRow, runtime, ticking, jobs, TypeOK,
          AnswersApart, Tick
  <2>4. RetiredNowhere'
      BY <1>9
      DEF HandleAcquired, SetTick, leaseRow, runtime, ticking, jobs, TypeOK,
          HeldOnce, AnswersApart, RetiredNowhere, Tick
  <2>5. JobsApart'
      BY <1>9
      DEF HandleAcquired, SetTick, leaseRow, runtime, ticking, jobs, TypeOK,
          HeldOnce, AnswersApart, RetiredNowhere, JobsApart, Tick
  <2> QED BY <2>1, <2>2, <2>3, <2>4, <2>5
<1>10. ASSUME NEW p \in Pollers, NEW t \in Ticks, HandleDenied(p, t) PROVE Custody'
  <2>1. TypeOK'
    <3>1. /\ owner' \in Pollers \cup {Gone} /\ age' \in 0..Ttl + 1 /\ dbEpoch' \in 0..MaxEpoch
          /\ status' \in [Pollers -> {"down", "running", "stopping"}]
          /\ ownsLock' \in [Pollers -> BOOLEAN] /\ faults' \in 0..MaxFaults
        BY <1>10 DEF HandleDenied, SetTick, leaseRow, runtime, ticking, jobs, TypeOK
    <3>2. pc' \in [Pollers \X Ticks -> Pc]
        BY <1>10 DEF HandleDenied, SetTick, leaseRow, runtime, ticking, jobs, TypeOK, Pc
    <3>3. /\ epoch' \in [Pollers -> 0..dbEpoch'] /\ got' \in [Pollers \X Ticks -> 0..dbEpoch']
          /\ retired' \subseteq 1..dbEpoch'
      <4>1. UNCHANGED dbEpoch /\ dbEpoch \in Nat /\ epoch[p] \in 0..dbEpoch
          BY <1>10 DEF HandleDenied, leaseRow, TypeOK
      <4>2. retired' \subseteq 1..dbEpoch
          BY <1>10, <4>1, RetireOne DEF HandleDenied, TypeOK
      <4> QED BY <1>10, <4>1, <4>2 DEF HandleDenied, leaseRow, runtime, TypeOK
    <3>4. /\ jobPhase' \in [Pollers -> {"none", "queued", "polling", "writing"}]
          /\ jobEpoch' \in [Pollers -> 0..dbEpoch']
        BY <1>10 DEF HandleDenied, SetTick, leaseRow, runtime, ticking, jobs, TypeOK
    <3> QED BY <3>1, <3>2, <3>3, <3>4 DEF TypeOK
  <2>2. HeldOnce'
      BY <1>10
      DEF HandleDenied, SetTick, leaseRow, runtime, ticking, jobs, TypeOK,
          HeldOnce, AnswersApart
  <2>3. AnswersApart'
      BY <1>10
      DEF HandleDenied, SetTick, leaseRow, runtime, ticking, jobs, TypeOK,
          AnswersApart, Tick
  <2>4. RetiredNowhere'
      BY <1>10
      DEF HandleDenied, SetTick, leaseRow, runtime, ticking, jobs, TypeOK,
          HeldOnce, AnswersApart, RetiredNowhere, Tick
  <2>5. JobsApart'
      BY <1>10
      DEF HandleDenied, SetTick, leaseRow, runtime, ticking, jobs, TypeOK,
          HeldOnce, AnswersApart, RetiredNowhere, JobsApart, Tick
  <2> QED BY <2>1, <2>2, <2>3, <2>4, <2>5
<1>11. ASSUME NEW p \in Pollers, NEW t \in Ticks, StatementFails(p, t) PROVE Custody'
  <2>1. TypeOK'
      BY <1>11 DEF StatementFails, SetTick, leaseRow, runtime, ticking, jobs, TypeOK, Pc
  <2>2. HeldOnce'
      BY <1>11
      DEF StatementFails, SetTick, leaseRow, runtime, ticking, jobs, TypeOK,
          HeldOnce, AnswersApart
  <2>3. AnswersApart'
      BY <1>11
      DEF StatementFails, SetTick, leaseRow, runtime, ticking, jobs, TypeOK,
          AnswersApart, Tick
  <2>4. RetiredNowhere'
      BY <1>11
      DEF StatementFails, SetTick, leaseRow, runtime, ticking, jobs, TypeOK,
          HeldOnce, AnswersApart, RetiredNowhere, Tick
  <2>5. JobsApart'
      BY <1>11
      DEF StatementFails, SetTick, leaseRow, runtime, ticking, jobs, TypeOK,
          HeldOnce, AnswersApart, RetiredNowhere, JobsApart, Tick
  <2> QED BY <2>1, <2>2, <2>3, <2>4, <2>5
<1>12. ASSUME NEW p \in Pollers, NEW t \in Ticks, AnswerLost(p, t) PROVE Custody'
  <2>1. TypeOK'
    <3>1. /\ owner' \in Pollers \cup {Gone} /\ age' \in 0..Ttl + 1 /\ dbEpoch' \in 0..MaxEpoch
          /\ status' \in [Pollers -> {"down", "running", "stopping"}]
          /\ ownsLock' \in [Pollers -> BOOLEAN] /\ faults' \in 0..MaxFaults
        BY <1>12 DEF AnswerLost, SetTick, leaseRow, runtime, ticking, jobs, TypeOK
    <3>2. pc' \in [Pollers \X Ticks -> Pc]
        BY <1>12 DEF AnswerLost, SetTick, leaseRow, runtime, ticking, jobs, TypeOK, Pc
    <3>3. /\ epoch' \in [Pollers -> 0..dbEpoch'] /\ got' \in [Pollers \X Ticks -> 0..dbEpoch']
          /\ retired' \subseteq 1..dbEpoch'
      <4>1. UNCHANGED dbEpoch /\ dbEpoch \in Nat /\ got[<<p, t>>] \in 0..dbEpoch
          BY <1>12 DEF AnswerLost, leaseRow, TypeOK
      <4>2. retired' \subseteq 1..dbEpoch
          BY <1>12, <4>1, RetireOne DEF AnswerLost, TypeOK
      <4> QED BY <1>12, <4>1, <4>2 DEF AnswerLost, leaseRow, runtime, TypeOK
    <3>4. /\ jobPhase' \in [Pollers -> {"none", "queued", "polling", "writing"}]
          /\ jobEpoch' \in [Pollers -> 0..dbEpoch']
        BY <1>12 DEF AnswerLost, SetTick, leaseRow, runtime, ticking, jobs, TypeOK
    <3> QED BY <3>1, <3>2, <3>3, <3>4 DEF TypeOK
  <2>2. HeldOnce'
      BY <1>12
      DEF AnswerLost, SetTick, leaseRow, runtime, ticking, jobs, TypeOK, HeldOnce,
          AnswersApart
  <2>3. AnswersApart'
      BY <1>12
      DEF AnswerLost, SetTick, leaseRow, runtime, ticking, jobs, TypeOK,
          AnswersApart, Tick
  <2>4. RetiredNowhere'
      BY <1>12
      DEF AnswerLost, SetTick, leaseRow, runtime, ticking, jobs, TypeOK, HeldOnce,
          AnswersApart, RetiredNowhere, Tick
  <2>5. JobsApart'
      BY <1>12
      DEF AnswerLost, SetTick, leaseRow, runtime, ticking, jobs, TypeOK, HeldOnce,
          AnswersApart, RetiredNowhere, JobsApart, Tick
  <2> QED BY <2>1, <2>2, <2>3, <2>4, <2>5
<1>13. ASSUME NEW p \in Pollers, NEW t \in Ticks, QueueJob(p, t) PROVE Custody'
  <2>1. TypeOK'
      BY <1>13
      DEF QueueJob, SetTick, PollerEpoch, leaseRow, runtime, ticking, jobs, TypeOK,
          Pc
  <2>2. HeldOnce'
      BY <1>13
      DEF QueueJob, SetTick, PollerEpoch, leaseRow, runtime, ticking, jobs, TypeOK,
          HeldOnce, AnswersApart
  <2>3. AnswersApart'
      BY <1>13
      DEF QueueJob, SetTick, PollerEpoch, leaseRow, runtime, ticking, jobs, TypeOK,
          AnswersApart, Tick
  <2>4. RetiredNowhere'
      BY <1>13
      DEF QueueJob, SetTick, PollerEpoch, leaseRow, runtime, ticking, jobs, TypeOK,
          HeldOnce, AnswersApart, RetiredNowhere, Tick
  <2>5. JobsApart'
      BY <1>13
      DEF QueueJob, SetTick, PollerEpoch, leaseRow, runtime, ticking, jobs, TypeOK,
          HeldOnce, AnswersApart, RetiredNowhere, JobsApart, Tick
  <2> QED BY <2>1, <2>2, <2>3, <2>4, <2>5
<1>14. ASSUME NEW p \in Pollers, NEW t \in Ticks, QueueNothing(p, t) PROVE Custody'
  <2>1. TypeOK'
      BY <1>14 DEF QueueNothing, SetTick, leaseRow, runtime, ticking, jobs, TypeOK, Pc
  <2>2. HeldOnce'
      BY <1>14
      DEF QueueNothing, SetTick, leaseRow, runtime, ticking, jobs, TypeOK,
          HeldOnce, AnswersApart
  <2>3. AnswersApart'
      BY <1>14
      DEF QueueNothing, SetTick, leaseRow, runtime, ticking, jobs, TypeOK,
          AnswersApart, Tick
  <2>4. RetiredNowhere'
      BY <1>14
      DEF QueueNothing, SetTick, leaseRow, runtime, ticking, jobs, TypeOK,
          HeldOnce, AnswersApart, RetiredNowhere, Tick
  <2>5. JobsApart'
      BY <1>14
      DEF QueueNothing, SetTick, leaseRow, runtime, ticking, jobs, TypeOK,
          HeldOnce, AnswersApart, RetiredNowhere, JobsApart, Tick
  <2> QED BY <2>1, <2>2, <2>3, <2>4, <2>5
<1>15. ASSUME NEW p \in Pollers, BeginJob(p) PROVE Custody'
  <2>1. TypeOK'
      BY <1>15
      DEF BeginJob, EndJob, JobFrame, PollerEpoch, leaseRow, runtime, ticking,
          jobs, TypeOK, Pc
  <2>2. HeldOnce'
      BY <1>15
      DEF BeginJob, EndJob, JobFrame, PollerEpoch, leaseRow, runtime, ticking,
          jobs, TypeOK, HeldOnce, AnswersApart
  <2>3. AnswersApart'
      BY <1>15
      DEF BeginJob, EndJob, JobFrame, PollerEpoch, leaseRow, runtime, ticking,
          jobs, TypeOK, AnswersApart, Tick
  <2>4. RetiredNowhere'
      BY <1>15
      DEF BeginJob, EndJob, JobFrame, PollerEpoch, leaseRow, runtime, ticking,
          jobs, TypeOK, HeldOnce, AnswersApart, RetiredNowhere, Tick
  <2>5. JobsApart'
    <3>1. UNCHANGED <<epoch, retired>>
        BY <1>15 DEF BeginJob, JobFrame, runtime
    <3>2. CASE EndJob(p)
        BY <3>1, <3>2 DEF EndJob, TypeOK, JobsApart
    <3>3. CASE UNCHANGED jobEpoch /\ jobPhase' = [jobPhase EXCEPT ![p] = "polling"]
        BY <3>1, <3>3 DEF CanCommitPoll, TypeOK, JobsApart
    <3> QED BY <1>15, <3>2, <3>3 DEF BeginJob
  <2> QED BY <2>1, <2>2, <2>3, <2>4, <2>5
<1>16. ASSUME NEW p \in Pollers, CheckFence(p) PROVE Custody'
  <2>1. TypeOK'
      BY <1>16
      DEF CheckFence, EndJob, JobFrame, CanCommitPoll, leaseRow, runtime, ticking,
          jobs, TypeOK, Pc
  <2>2. HeldOnce'
      BY <1>16
      DEF CheckFence, EndJob, JobFrame, CanCommitPoll, leaseRow, runtime, ticking,
          jobs, TypeOK, HeldOnce, AnswersApart
  <2>3. AnswersApart'
      BY <1>16
      DEF CheckFence, EndJob, JobFrame, CanCommitPoll, leaseRow, runtime, ticking,
          jobs, TypeOK, AnswersApart, Tick
  <2>4. RetiredNowhere'
      BY <1>16
      DEF CheckFence, EndJob, JobFrame, CanCommitPoll, leaseRow, runtime, ticking,
          jobs, TypeOK, HeldOnce, AnswersApart, RetiredNowhere, Tick
  <2>5. JobsApart'
    <3>1. UNCHANGED <<epoch, retired>>
        BY <1>16 DEF CheckFence, JobFrame, runtime
    <3>2. CASE EndJob(p)
        BY <3>1, <3>2 DEF EndJob, TypeOK, JobsApart
    <3>3. CASE /\ UNCHANGED jobEpoch /\ CanCommitPoll(p)
               /\ jobPhase' = [jobPhase EXCEPT ![p] = "writing"]
        BY <3>1, <3>3 DEF CanCommitPoll, TypeOK, JobsApart
    <3> QED BY <1>16, <3>2, <3>3 DEF CheckFence
  <2> QED BY <2>1, <2>2, <2>3, <2>4, <2>5
<1>17. ASSUME NEW p \in Pollers, FinishJob(p) PROVE Custody'
  <2>1. TypeOK'
      BY <1>17
      DEF FinishJob, EndJob, JobFrame, leaseRow, runtime, ticking, jobs, TypeOK, Pc
  <2>2. HeldOnce'
      BY <1>17
      DEF FinishJob, EndJob, JobFrame, leaseRow, runtime, ticking, jobs, TypeOK,
          HeldOnce, AnswersApart
  <2>3. AnswersApart'
      BY <1>17
      DEF FinishJob, EndJob, JobFrame, leaseRow, runtime, ticking, jobs, TypeOK,
          AnswersApart, Tick
  <2>4. RetiredNowhere'
      BY <1>17
      DEF FinishJob, EndJob, JobFrame, leaseRow, runtime, ticking, jobs, TypeOK,
          HeldOnce, AnswersApart, RetiredNowhere, Tick
  <2>5. JobsApart'
      BY <1>17
      DEF FinishJob, EndJob, JobFrame, leaseRow, runtime, ticking, jobs, TypeOK,
          HeldOnce, AnswersApart, RetiredNowhere, JobsApart, Tick
  <2> QED BY <2>1, <2>2, <2>3, <2>4, <2>5
<1>18. CASE TimePasses
  <2>1. TypeOK'
      BY <1>18 DEF TimePasses, Expired, leaseRow, runtime, ticking, jobs, TypeOK, Pc
  <2>2. HeldOnce'
      BY <1>18
      DEF TimePasses, Expired, leaseRow, runtime, ticking, jobs, TypeOK, HeldOnce,
          AnswersApart
  <2>3. AnswersApart'
      BY <1>18
      DEF TimePasses, Expired, leaseRow, runtime, ticking, jobs, TypeOK,
          AnswersApart, Tick
  <2>4. RetiredNowhere'
      BY <1>18
      DEF TimePasses, Expired, leaseRow, runtime, ticking, jobs, TypeOK, HeldOnce,
          AnswersApart, RetiredNowhere, Tick
  <2>5. JobsApart'
      BY <1>18
      DEF TimePasses, Expired, leaseRow, runtime, ticking, jobs, TypeOK, HeldOnce,
          AnswersApart, RetiredNowhere, JobsApart, Tick
  <2> QED BY <2>1, <2>2, <2>3, <2>4, <2>5
<1>19. CASE UNCHANGED vars
    BY <1>19
    DEF vars, leaseRow, runtime, ticking, jobs, TypeOK, HeldOnce, AnswersApart,
        RetiredNowhere, JobsApart
<1> QED
    BY <1>1, <1>2, <1>3, <1>4, <1>5, <1>6, <1>7, <1>8, <1>9, <1>10, <1>11, <1>12,
       <1>13, <1>14, <1>15, <1>16, <1>17, <1>18, <1>19
    DEF Next, ProcessNext, TickStep, TickFault, JobStep, ProcessStep

\* Every issued epoch is in one place only: with one process, in one answer
\* that is under way, or nowhere any more.
THEOREM CustodyHolds == Spec => []Custody
BY InitCustody, StepCustody, PTL DEF Spec

\* Every variable keeps its type, whatever the number of processes.
THEOREM TypesHold == Spec => []TypeOK
<1>1. Custody => TypeOK
    BY DEF Custody
<1> QED BY <1>1, CustodyHolds, PTL

\* The epoch of a write names the process that made it: two processes never
\* hold one epoch, and two polls that are being written never carry one.
THEOREM EpochsNameOneProcess == Spec => []EpochNamesOneProcess
<1>1. Custody => EpochNamesOneProcess
    BY DEF Custody, HeldOnce, JobsApart, EpochNamesOneProcess
<1> QED BY <1>1, CustodyHolds, PTL

-----------------------------------------------------------------------------
(* The lease implements FencingTokens. *)

\* The initial states of the lease map to those of the source of numbers.
LEMMA InitTokens == Init => Tokens!Init
BY DEF Init, Tokens!Init

\* Every step of the lease maps to a step of the source of numbers or to none.
LEMMA StepTokens == Custody /\ [Next]_vars => [Tokens!Next]_(Tokens!tokenVars)
<1> SUFFICES ASSUME Custody, [Next]_vars
             PROVE  Tokens!Next \/ UNCHANGED Tokens!tokenVars
    OBVIOUS
<1> USE BoundsAssumption DEF Custody
<1>1. ASSUME NEW p \in Pollers, Exit(p) PROVE Tokens!GiveUp(p)
  <2> DEFINE gone == {got[<<p, t>>] : t \in Ticks} \ {0}
  <2>1. gone \in SUBSET (1..dbEpoch)
      BY InHandApart DEF InHand
  <2>2. ASSUME NEW e \in gone PROVE Tokens!Free(e)
      BY <2>2 DEF Tokens!Free, AnswersApart, RetiredNowhere, Tick
  <2>3. retired' = retired \cup gone \cup ({epoch[p]} \ {0})
      BY <1>1 DEF Exit, InHand
  <2>4. epoch' = [epoch EXCEPT ![p] = 0] /\ UNCHANGED dbEpoch
      BY <1>1 DEF Exit
  <2> QED BY <2>1, <2>2, <2>3, <2>4 DEF Tokens!GiveUp
<1>2. ASSUME NEW p \in Pollers, NEW t \in Ticks, TakeOver(p, t) PROVE Tokens!Issue
    BY <1>2 DEF TakeOver, runtime, Tokens!Issue
<1>3. ASSUME NEW p \in Pollers, NEW t \in Ticks, HandleAcquired(p, t) PROVE Tokens!Take(p)
  <2> DEFINE e == got[<<p, t>>]
  <2>1. e # 0 /\ <<p, t>> \in Tick
      BY <1>3 DEF HandleAcquired, AnswersApart, Tick
  <2>2. e \in 1..dbEpoch
      BY <2>1 DEF TypeOK, Tick
  <2>3. Tokens!Free(e)
      BY <2>1 DEF Tokens!Free, AnswersApart, RetiredNowhere
  <2>4. /\ epoch' = [epoch EXCEPT ![p] = e] /\ UNCHANGED dbEpoch
        /\ retired' = retired \cup ({epoch[p]} \ {0})
      BY <1>3 DEF HandleAcquired, leaseRow
  <2> QED BY <2>2, <2>3, <2>4 DEF Tokens!Take
<1>4. ASSUME NEW p \in Pollers, NEW t \in Ticks, HandleDenied(p, t) PROVE Tokens!GiveUp(p)
  <2>1. /\ epoch' = [epoch EXCEPT ![p] = 0] /\ UNCHANGED dbEpoch
        /\ retired' = retired \cup {} \cup ({epoch[p]} \ {0})
      BY <1>4 DEF HandleDenied, leaseRow
  <2>2. {} \in SUBSET (1..dbEpoch) /\ \A e \in {} : Tokens!Free(e)
      OBVIOUS
  <2> QED BY <2>1, <2>2, Zenon DEF Tokens!GiveUp
<1>5. ASSUME NEW p \in Pollers, NEW t \in Ticks, AnswerLost(p, t) PROVE Tokens!Lose
  <2> DEFINE gone == {got[<<p, t>>]} \ {0}
  <2>1. gone \in SUBSET (1..dbEpoch)
      BY RetireOne DEF TypeOK
  <2>2. ASSUME NEW e \in gone PROVE Tokens!Free(e)
      BY <2>2 DEF Tokens!Free, AnswersApart, RetiredNowhere, Tick
  <2>3. retired' = retired \cup gone /\ UNCHANGED <<dbEpoch, epoch>>
      BY <1>5 DEF AnswerLost, leaseRow, runtime
  <2> QED BY <2>1, <2>2, <2>3 DEF Tokens!Lose
<1>6. \/ \E p \in Pollers : StartPoller(p) \/ BeginStop(p) \/ JobStep(p)
      \/ \E p \in Pollers, t \in Ticks :
            \/ StartTick(p, t) \/ Renew(p, t) \/ RefuseTakeOver(p, t)
            \/ HandleRenewed(p, t) \/ StatementFails(p, t)
            \/ QueueJob(p, t) \/ QueueNothing(p, t)
      \/ TimePasses \/ UNCHANGED vars
      => UNCHANGED <<dbEpoch, epoch, retired>>
    BY DEF StartPoller, BeginStop, JobStep, BeginJob, CheckFence, FinishJob,
           JobFrame, StartTick, Renew, RefuseTakeOver, HandleRenewed,
           StatementFails, QueueJob, QueueNothing, TimePasses, vars, leaseRow,
           runtime
<1> QED
    BY <1>1, <1>2, <1>3, <1>4, <1>5, <1>6
    DEF Next, ProcessNext, TickStep, TickFault, ProcessStep, Tokens!Next,
        Tokens!tokenVars

\* The lease row and the memories of the processes together behave like a
\* source of numbers that nobody ever uses twice.
THEOREM LeaseIsTokenSource == Spec => ImplementsTokens
<1>1. Init => Tokens!Init
    BY InitTokens
<1>2. Custody /\ [Next]_vars => [Tokens!Next]_(Tokens!tokenVars)
    BY StepTokens
<1> QED BY <1>1, <1>2, CustodyHolds, PTL DEF Spec, ImplementsTokens, Tokens!Spec

-----------------------------------------------------------------------------
(* PollerPunctual: pollers that never stalled.                            *)

\* The ticks of p that the database has told whether p owns the row, and whose
\* end p does not know yet.
Served(p) ==
    {t \in Ticks : pc[<<p, t>>] \in {"acquire", "renewed", "acquired", "denied"}}

\* A process that does not exist has nothing and owns nothing.
DownHasNothing ==
    \A p \in Pollers : status[p] = "down" =>
        /\ owner # p /\ epoch[p] = 0 /\ jobEpoch[p] = 0
        /\ \A t \in Ticks : pc[<<p, t>>] = "idle"

\* The lease of a punctual owner is young.  A tick that was served while p owns
\* the row began before p last renewed or acquired it, so the end of that tick
\* says how old the renewal can be; and each interval has such an end.
Renewing ==
    \A p \in Pollers : status[p] # "down" /\ ~late[p] /\ owner = p =>
        /\ age <= IF answered[p] THEN 1 ELSE 2
        /\ \A t \in Served(p) : age <= IF <<p, t>> \in waiting THEN 1 ELSE 0

\* p has an epoch, a job under one, or the answer of an UPDATE that matched.
Involved(p) ==
    \/ epoch[p] # 0
    \/ jobEpoch[p] # 0
    \/ \E t \in Ticks : pc[<<p, t>>] \in {"renewed", "acquired"}

\* The row still names a punctual process that was once told that it does.
PunctualOwns ==
    \A p \in Pollers :
        status[p] # "down" /\ ~late[p] /\ Involved(p) => owner = p

TimedTypes ==
    /\ answered \in [Pollers -> BOOLEAN]
    /\ late \in [Pollers -> BOOLEAN]

Punctuality ==
    Custody /\ TimedTypes /\ DownHasNothing /\ Renewing /\ PunctualOwns

\* The history variables only watch: a timed step is a step of the lease.
LEMMA TimedStepIsStep == [Within \/ IntervalEnds]_timedVars => [Next]_vars
BY DEF Within, IntervalEnds, Next, timedVars

\* The lease of a punctual owner cannot have expired.
LEMMA PunctualNotExpired ==
    ASSUME Punctuality, NEW p \in Pollers, owner = p, ~late[p]
    PROVE  ~MayExpire
<1>1. status[p] # "down"
    BY DEF Punctuality, DownHasNothing
<1>2. age \in Nat /\ Ttl \in Nat
    BY TtlAssumption DEF Punctuality, Custody, TypeOK
<1>3. age <= 2
    BY <1>1, <1>2 DEF Punctuality, Renewing
<1> QED BY <1>2, <1>3, PunctualAssumption DEF MayExpire

\* Nobody has anything before the first process is started.
LEMMA InitPunctuality == TimedInit => Punctuality
<1> SUFFICES ASSUME TimedInit PROVE Punctuality
    OBVIOUS
<1>1. Custody
    BY InitCustody DEF TimedInit
<1>2. DownHasNothing
    BY GoneAssumption DEF TimedInit, Init, DownHasNothing
<1>3. TimedTypes /\ Renewing /\ PunctualOwns
    BY DEF TimedInit, Init, TimedTypes, Renewing, PunctualOwns
<1> QED BY <1>1, <1>2, <1>3 DEF Punctuality

\* The tick whose answer is handled was served, and nothing else changes for p.
LEMMA AnswerWasServed ==
    ASSUME TypeOK, NEW p \in Pollers, HandleAnswer(p)
    PROVE  /\ UNCHANGED <<leaseRow, status>>
           /\ Served(p) # {} /\ Served(p)' \subseteq Served(p)
<1>1. PICK t \in Ticks : HandleRenewed(p, t) \/ HandleAcquired(p, t) \/ HandleDenied(p, t)
    BY DEF HandleAnswer
<1>2. UNCHANGED <<leaseRow, status>>
    BY <1>1 DEF HandleRenewed, HandleAcquired, HandleDenied
<1>3. PICK v \in {"leased", "idle"} : pc' = [pc EXCEPT ![<<p, t>>] = v]
    BY <1>1 DEF HandleRenewed, HandleAcquired, HandleDenied, SetTick
<1>4. pc[<<p, t>>] \in {"renewed", "acquired", "denied"}
    BY <1>1 DEF HandleRenewed, HandleAcquired, HandleDenied
<1>5. Served(p)' \subseteq Served(p) /\ t \in Served(p)
    BY <1>3, <1>4 DEF Served, TypeOK
<1> QED BY <1>2, <1>5

\* Any other step after which p owns the row either renewed it or left the
\* row, and what p was served, as they were.
LEMMA QuietStep ==
    ASSUME TypeOK, DownHasNothing, ProcessNext, NEW p \in Pollers,
           ~HandleAnswer(p), owner' = p, status'[p] # "down"
    PROVE  /\ status[p] # "down"
           /\ \/ age' = 0
              \/ owner = p /\ age' = age /\ Served(p)' \subseteq Served(p)
<1> DEFINE Left == owner = p /\ age' = age /\ Served(p)' \subseteq Served(p)
<1> USE DEF TypeOK
<1>1. ASSUME NEW q \in Pollers, StartPoller(q) \/ BeginStop(q) \/ JobStep(q)
      PROVE  Left /\ status[p] # "down"
  <2>1. UNCHANGED <<owner, age, pc>>
      BY <1>1 DEF StartPoller, BeginStop, JobStep, BeginJob, CheckFence,
                  FinishJob, JobFrame, leaseRow, ticking
  <2>2. Served(p)' = Served(p)
      BY <2>1 DEF Served
  <2> QED BY <2>1, <2>2 DEF DownHasNothing
<1>2. ASSUME NEW q \in Pollers, Exit(q)
      PROVE  Left /\ status[p] # "down"
  <2>1. q # p /\ status[p] # "down"
      BY <1>2 DEF Exit
  <2>2. owner = p /\ UNCHANGED age
      BY <1>2, GoneAssumption DEF Exit
  <2>3. \A t \in Ticks : pc'[<<p, t>>] = pc[<<p, t>>]
      BY <1>2, <2>1 DEF Exit
  <2> QED BY <2>1, <2>2, <2>3 DEF Served
<1>3. ASSUME NEW q \in Pollers, NEW t \in Ticks, Renew(q, t) \/ TakeOver(q, t)
      PROVE  (age' = 0 \/ Left) /\ status[p] # "down"
  <2>1. CASE q = p
    <3>1. age' = 0
        BY <1>3, <2>1 DEF Renew, TakeOver
    <3>2. pc[<<p, t>>] # "idle"
        BY <1>3, <2>1 DEF Renew, TakeOver
    <3> QED BY <3>1, <3>2 DEF DownHasNothing
  <2>2. CASE q # p
    <3>1. Renew(q, t)
        BY <1>3, <2>2 DEF TakeOver
    <3>2. owner = p /\ UNCHANGED <<status, age>>
        BY <3>1, <2>2 DEF Renew
    <3>3. \A u \in Ticks : pc'[<<p, u>>] = pc[<<p, u>>]
        BY <3>1, <2>2 DEF Renew, SetTick
    <3> QED BY <3>2, <3>3 DEF Served
  <2> QED BY <2>1, <2>2
<1>4. ASSUME NEW q \in Pollers, NEW t \in Ticks,
             \/ StartTick(q, t) \/ RefuseTakeOver(q, t)
             \/ QueueJob(q, t) \/ QueueNothing(q, t) \/ TickFault(q, t)
             \/ HandleRenewed(q, t) \/ HandleAcquired(q, t) \/ HandleDenied(q, t)
      PROVE  Left /\ status[p] # "down"
  <2>1. UNCHANGED <<owner, age, status>>
      BY <1>4 DEF StartTick, RefuseTakeOver, QueueJob, QueueNothing, TickFault,
                  StatementFails, AnswerLost, HandleRenewed, HandleAcquired,
                  HandleDenied, leaseRow
  <2>2. CASE q # p
    <3>1. \A u \in Ticks : pc'[<<p, u>>] = pc[<<p, u>>]
        BY <1>4, <2>2
        DEF StartTick, RefuseTakeOver, QueueJob, QueueNothing, TickFault,
            StatementFails, AnswerLost, HandleRenewed, HandleAcquired,
            HandleDenied, SetTick
    <3> QED BY <2>1, <3>1 DEF Served
  <2>3. CASE q = p
    <3>1. ~(HandleRenewed(q, t) \/ HandleAcquired(q, t) \/ HandleDenied(q, t))
        BY <2>3 DEF HandleAnswer
    <3>2. CASE RefuseTakeOver(q, t)
      <4>1. pc' = [pc EXCEPT ![<<p, t>>] = "denied"] /\ pc[<<p, t>>] = "acquire"
          BY <2>3, <3>2 DEF RefuseTakeOver, SetTick
      <4> QED BY <2>1, <4>1 DEF Served
    <3>3. CASE ~RefuseTakeOver(q, t)
      <4>1. PICK v \in {"renew", "idle"} : pc' = [pc EXCEPT ![<<p, t>>] = v]
          BY <1>4, <2>3, <3>1, <3>3
          DEF StartTick, QueueJob, QueueNothing, TickFault, StatementFails,
              AnswerLost, SetTick
      <4> QED BY <2>1, <4>1 DEF Served
    <3> QED BY <3>2, <3>3
  <2>4. status[p] # "down"
      BY <2>1
  <2> QED BY <2>2, <2>3, <2>4
<1> QED
    BY <1>1, <1>2, <1>3, <1>4
    DEF ProcessNext, TickStep, TickFault, ProcessStep

\* The lease stays young through every step within an interval.
LEMMA WithinRenewing == Punctuality /\ Within => Renewing'
<1> SUFFICES ASSUME Punctuality, Within, NEW p \in Pollers,
                    status'[p] # "down", ~late'[p], owner' = p
             PROVE  /\ age' <= IF answered'[p] THEN 1 ELSE 2
                    /\ \A t \in Served(p)' :
                          age' <= IF <<p, t>> \in waiting' THEN 1 ELSE 0
    BY DEF Renewing, Served
<1>0. TypeOK /\ age \in Nat
    BY DEF Punctuality, Custody, TypeOK
<1>1. ~late[p] /\ (answered'[p] <=> answered[p] \/ HandleAnswer(p))
    BY DEF Within, Punctuality, TimedTypes
<1>2. \A t \in Served(p)' : <<p, t>> \in waiting => <<p, t>> \in waiting'
    BY DEF Within, Served, Asking
<1>3. CASE HandleAnswer(p)
  <2>1. /\ UNCHANGED <<leaseRow, status>>
        /\ Served(p) # {} /\ Served(p)' \subseteq Served(p)
      BY <1>0, <1>3, AnswerWasServed
  <2>2. age' = age /\ owner = p /\ status[p] # "down" /\ answered'[p]
      BY <1>1, <1>3, <2>1 DEF leaseRow
  <2>3. \A t \in Served(p) : age <= IF <<p, t>> \in waiting THEN 1 ELSE 0
      BY <1>1, <2>2 DEF Punctuality, Renewing
  <2>4. age <= 1
    <3>1. PICK t \in Served(p) : age <= IF <<p, t>> \in waiting THEN 1 ELSE 0
        BY <2>1, <2>3
    <3> QED BY <1>0, <3>1
  <2> QED BY <1>0, <1>2, <2>1, <2>2, <2>3, <2>4
<1>4. CASE ~HandleAnswer(p)
  <2>1. /\ status[p] # "down"
        /\ \/ age' = 0
           \/ owner = p /\ age' = age /\ Served(p)' \subseteq Served(p)
      BY <1>0, <1>4, QuietStep DEF Within, Punctuality
  <2>2. answered'[p] = answered[p]
      BY <1>1, <1>4 DEF Within, Punctuality, TimedTypes
  <2>3. CASE age' = 0
      BY <2>3
  <2>4. CASE owner = p /\ age' = age /\ Served(p)' \subseteq Served(p)
    <3>1. /\ age <= IF answered[p] THEN 1 ELSE 2
          /\ \A t \in Served(p) : age <= IF <<p, t>> \in waiting THEN 1 ELSE 0
        BY <1>1, <2>1, <2>4 DEF Punctuality, Renewing
    <3> QED BY <1>0, <1>2, <2>2, <2>4, <3>1
  <2> QED BY <2>1, <2>3, <2>4
<1> QED BY <1>3, <1>4

\* A process that ends leaves nothing behind, and the others give nothing to
\* one that does not exist.
LEMMA StepDown == TypeOK /\ DownHasNothing /\ Next => DownHasNothing'
<1> SUFFICES ASSUME TypeOK, DownHasNothing, Next, NEW p \in Pollers,
                    status'[p] = "down"
             PROVE  /\ owner' # p /\ epoch'[p] = 0 /\ jobEpoch'[p] = 0
                    /\ \A t \in Ticks : pc'[<<p, t>>] = "idle"
    BY DEF DownHasNothing
<1> DEFINE Nothing == /\ owner' # p /\ epoch'[p] = 0 /\ jobEpoch'[p] = 0
                      /\ \A t \in Ticks : pc'[<<p, t>>] = "idle"
<1> USE DEF TypeOK
<1>1. ASSUME NEW q \in Pollers, Exit(q) PROVE Nothing
  <2>1. CASE q = p
      BY <1>1, <2>1, GoneAssumption DEF Exit
  <2>2. CASE q # p
    <3>1. status[p] = "down"
        BY <1>1, <2>2 DEF Exit
    <3>2. owner' # p /\ epoch'[p] = epoch[p] /\ jobEpoch'[p] = jobEpoch[p]
        BY <1>1, <2>2, <3>1, GoneAssumption DEF Exit, DownHasNothing
    <3>3. \A t \in Ticks : pc'[<<p, t>>] = pc[<<p, t>>]
        BY <1>1, <2>2 DEF Exit
    <3> QED BY <3>1, <3>2, <3>3 DEF DownHasNothing
  <2> QED BY <2>1, <2>2
<1>2. CASE TimePasses \/ \E q \in Pollers : StartPoller(q) \/ BeginStop(q) \/ JobStep(q)
  <2>1. UNCHANGED <<owner, epoch, pc>>
      BY <1>2 DEF TimePasses, StartPoller, BeginStop, JobStep, BeginJob,
                  CheckFence, FinishJob, JobFrame, leaseRow, runtime, ticking
  <2>2. status[p] = "down"
      BY <1>2 DEF TimePasses, StartPoller, BeginStop, JobStep, BeginJob,
                  CheckFence, FinishJob, JobFrame
  <2>3. jobEpoch'[p] \in {0, jobEpoch[p]}
      BY <1>2 DEF TimePasses, StartPoller, BeginStop, JobStep, BeginJob,
                  CheckFence, FinishJob, EndJob, jobs
  <2> QED BY <2>1, <2>2, <2>3 DEF DownHasNothing
<1>3. ASSUME NEW q \in Pollers, NEW t \in Ticks, TickStep(q, t) \/ TickFault(q, t)
      PROVE  Nothing
  <2>1. UNCHANGED status
      BY <1>3 DEF TickStep, TickFault, StartTick, Renew, TakeOver, RefuseTakeOver,
                  HandleRenewed, HandleAcquired, HandleDenied, QueueJob,
                  QueueNothing, StatementFails, AnswerLost
  <2>2. status[q] = "running" \/ pc[<<q, t>>] # "idle"
      BY <1>3 DEF TickStep, TickFault, StartTick, Renew, TakeOver, RefuseTakeOver,
                  HandleRenewed, HandleAcquired, HandleDenied, QueueJob,
                  QueueNothing, StatementFails, AnswerLost
  <2>3. q # p /\ status[p] = "down"
      BY <2>1, <2>2 DEF DownHasNothing
  <2>4. owner' \in {owner, q}
      BY <1>3 DEF TickStep, TickFault, StartTick, Renew, TakeOver, RefuseTakeOver,
                  HandleRenewed, HandleAcquired, HandleDenied, QueueJob,
                  QueueNothing, StatementFails, AnswerLost, leaseRow
  <2>5. epoch'[p] = epoch[p] /\ jobEpoch'[p] = jobEpoch[p]
      BY <1>3, <2>3
      DEF TickStep, TickFault, StartTick, Renew, TakeOver, RefuseTakeOver,
          HandleRenewed, HandleAcquired, HandleDenied, QueueJob, QueueNothing,
          StatementFails, AnswerLost, runtime, jobs
  <2>6. \A u \in Ticks : pc'[<<p, u>>] = pc[<<p, u>>]
      BY <1>3, <2>3
      DEF TickStep, TickFault, StartTick, Renew, TakeOver, RefuseTakeOver,
          HandleRenewed, HandleAcquired, HandleDenied, QueueJob, QueueNothing,
          StatementFails, AnswerLost, SetTick
  <2> QED BY <2>3, <2>4, <2>5, <2>6 DEF DownHasNothing
<1> QED BY <1>1, <1>2, <1>3 DEF Next, ProcessNext, ProcessStep

\* A process becomes involved only by an UPDATE that matched.
LEMMA BecomeInvolved ==
    ASSUME TypeOK, DownHasNothing, ProcessNext, NEW p \in Pollers,
           status'[p] # "down", Involved(p)'
    PROVE  owner' = p \/ (Involved(p) /\ status[p] # "down")
<1> USE DEF TypeOK
<1>1. ASSUME NEW q \in Pollers, StartPoller(q) \/ BeginStop(q) \/ JobStep(q)
      PROVE  Involved(p)
  <2>1. UNCHANGED <<epoch, pc>>
      BY <1>1 DEF StartPoller, BeginStop, JobStep, BeginJob, CheckFence,
                  FinishJob, JobFrame, runtime, ticking
  <2>2. jobEpoch'[p] \in {0, jobEpoch[p]}
      BY <1>1 DEF StartPoller, BeginStop, JobStep, BeginJob, CheckFence,
                  FinishJob, EndJob, jobs
  <2> QED BY <2>1, <2>2 DEF Involved
<1>2. ASSUME NEW q \in Pollers, Exit(q) PROVE Involved(p)
  <2>1. q # p
      BY <1>2 DEF Exit
  <2>2. epoch'[p] = epoch[p] /\ jobEpoch'[p] = jobEpoch[p]
      BY <1>2, <2>1 DEF Exit
  <2>3. \A t \in Ticks : pc'[<<p, t>>] = pc[<<p, t>>]
      BY <1>2, <2>1 DEF Exit
  <2> QED BY <2>2, <2>3 DEF Involved
<1>3. ASSUME NEW q \in Pollers, NEW t \in Ticks, TickStep(q, t) \/ TickFault(q, t)
      PROVE  owner' = p \/ Involved(p)
  <2>1. CASE q # p
    <3>1. epoch'[p] = epoch[p] /\ jobEpoch'[p] = jobEpoch[p]
        BY <1>3, <2>1
        DEF TickStep, TickFault, StartTick, Renew, TakeOver, RefuseTakeOver,
            HandleRenewed, HandleAcquired, HandleDenied, QueueJob, QueueNothing,
            StatementFails, AnswerLost, runtime, jobs
    <3>2. \A u \in Ticks : pc'[<<p, u>>] = pc[<<p, u>>]
        BY <1>3, <2>1
        DEF TickStep, TickFault, StartTick, Renew, TakeOver, RefuseTakeOver,
            HandleRenewed, HandleAcquired, HandleDenied, QueueJob, QueueNothing,
            StatementFails, AnswerLost, SetTick
    <3> QED BY <3>1, <3>2 DEF Involved
  <2>2. CASE q = p /\ (HandleRenewed(q, t) \/ HandleAcquired(q, t))
      BY <2>2 DEF HandleRenewed, HandleAcquired, Involved
  <2>3. CASE q = p /\ Renew(q, t)
    <3>1. CASE owner = p
        BY <2>3, <3>1 DEF Renew
    <3>2. CASE owner # p
      <4>1. /\ pc' = [pc EXCEPT ![<<p, t>>] = "acquire"]
            /\ UNCHANGED <<epoch, jobEpoch>>
          BY <2>3, <3>2 DEF Renew, SetTick, runtime, jobs
      <4> QED BY <4>1 DEF Involved
    <3> QED BY <3>1, <3>2
  <2>4. CASE q = p /\ TakeOver(q, t)
      BY <2>4 DEF TakeOver
  <2>5. CASE q = p /\ QueueJob(q, t)
    <3>1. /\ pc' = [pc EXCEPT ![<<p, t>>] = "idle"] /\ UNCHANGED epoch
          /\ jobEpoch' = [jobEpoch EXCEPT ![p] = PollerEpoch(p)]
        BY <2>5 DEF QueueJob, SetTick, runtime
    <3> QED BY <3>1 DEF Involved, PollerEpoch
  <2>6. CASE /\ q = p
             /\ \/ StartTick(q, t) \/ RefuseTakeOver(q, t) \/ HandleDenied(q, t)
                \/ QueueNothing(q, t) \/ TickFault(q, t)
    <3>1. PICK v \in {"renew", "denied", "idle"} : pc' = [pc EXCEPT ![<<p, t>>] = v]
        BY <2>6 DEF StartTick, RefuseTakeOver, HandleDenied, QueueNothing,
                    TickFault, StatementFails, AnswerLost, SetTick
    <3>2. epoch'[p] \in {0, epoch[p]} /\ UNCHANGED jobEpoch
        BY <2>6 DEF StartTick, RefuseTakeOver, HandleDenied, QueueNothing,
                    TickFault, StatementFails, AnswerLost, runtime, jobs
    <3> QED BY <3>1, <3>2 DEF Involved
  <2> QED BY <1>3, <2>1, <2>2, <2>3, <2>4, <2>5, <2>6 DEF TickStep
<1>4. Involved(p) => status[p] # "down"
    BY DEF DownHasNothing, Involved
<1> QED BY <1>1, <1>2, <1>3, <1>4 DEF ProcessNext, ProcessStep

\* No step takes the row away from a punctual process that it names.
LEMMA WithinOwns == Punctuality /\ Within => PunctualOwns'
<1> SUFFICES ASSUME Punctuality, Within, NEW p \in Pollers,
                    status'[p] # "down", ~late'[p], Involved(p)'
             PROVE  owner' = p
    BY DEF PunctualOwns, Involved
<1> USE DEF Punctuality, Custody
<1>1. ~late[p]
    BY DEF Within, TimedTypes
<1>2. owner' = p \/ (Involved(p) /\ status[p] # "down")
    BY BecomeInvolved DEF Within
<1>3. CASE Involved(p) /\ status[p] # "down"
  <2>1. owner = p
      BY <1>1, <1>3 DEF PunctualOwns
  <2>2. ~MayExpire
      BY <1>1, <2>1, PunctualNotExpired
  <2>3. ASSUME NEW q \in Pollers, StartPoller(q) \/ BeginStop(q) \/ JobStep(q)
        PROVE  UNCHANGED owner
      BY <2>3 DEF StartPoller, BeginStop, JobStep, BeginJob, CheckFence,
                  FinishJob, JobFrame, leaseRow
  <2>4. ASSUME NEW q \in Pollers, Exit(q) PROVE owner' = p
      BY <2>1, <2>4 DEF Exit, TypeOK
  <2>5. ASSUME NEW q \in Pollers, NEW t \in Ticks, TickStep(q, t) \/ TickFault(q, t)
        PROVE  UNCHANGED owner
      BY <2>2, <2>5
      DEF TickStep, TickFault, StartTick, Renew, TakeOver, RefuseTakeOver,
          HandleRenewed, HandleAcquired, HandleDenied, QueueJob, QueueNothing,
          StatementFails, AnswerLost, leaseRow
  <2> QED BY <2>1, <2>3, <2>4, <2>5 DEF Within, ProcessNext, ProcessStep
<1> QED BY <1>2, <1>3

\* The end of an interval: who was answered in it, by every tick that it began
\* with, finds its lease one interval older; who was not is late.
LEMMA IntervalPunctuality ==
    Punctuality /\ IntervalEnds => Renewing' /\ PunctualOwns'
<1> SUFFICES ASSUME Punctuality, IntervalEnds, NEW p \in Pollers,
                    status'[p] # "down", ~late'[p]
             PROVE  /\ owner' = p =>
                         /\ age' <= IF answered'[p] THEN 1 ELSE 2
                         /\ \A t \in Served(p)' :
                               age' <= IF <<p, t>> \in waiting' THEN 1 ELSE 0
                    /\ Involved(p)' => owner' = p
    BY DEF Renewing, PunctualOwns, Served, Involved
<1> USE DEF Punctuality, Custody
<1>1. UNCHANGED <<owner, status, epoch, pc, jobEpoch>>
    BY DEF IntervalEnds, TimePasses, runtime, ticking, jobs
<1>2. ~late[p] /\ ~Stalls(p) /\ ~answered'[p]
    BY DEF IntervalEnds, TimedTypes
<1>3. answered[p] /\ \A t \in Ticks : <<p, t>> \notin waiting
    BY <1>1, <1>2 DEF Stalls
<1>4. Served(p)' = Served(p) /\ (Involved(p)' <=> Involved(p))
    BY <1>1 DEF Served, Involved
<1>5. \A t \in Served(p)' : t \in Ticks /\ <<p, t>> \in waiting'
    BY DEF IntervalEnds, Served, Asking, TypeOK, TimePasses, ticking
<1>6. age \in Nat /\ age' \in {age, age + 1}
    BY DEF IntervalEnds, TimePasses, TypeOK
<1>7. ASSUME owner = p
      PROVE  age <= 1 /\ \A t \in Served(p) : age <= 0
    BY <1>1, <1>2, <1>3, <1>5, <1>4, <1>7 DEF Renewing
<1> QED BY <1>1, <1>2, <1>4, <1>5, <1>6, <1>7 DEF PunctualOwns

\* Every step of the timed lease keeps punctual owners in place.
LEMMA StepPunctuality ==
    Punctuality /\ [Within \/ IntervalEnds]_timedVars => Punctuality'
<1> SUFFICES ASSUME Punctuality, [Within \/ IntervalEnds]_timedVars
             PROVE  Punctuality'
    OBVIOUS
<1>1. Custody'
    BY TimedStepIsStep, StepCustody DEF Punctuality
<1>2. CASE Within
  <2>1. TimedTypes'
      BY <1>2 DEF Within, TimedTypes, Punctuality
  <2>2. DownHasNothing'
      BY <1>2, StepDown DEF Within, Next, Punctuality, Custody
  <2> QED BY <1>1, <1>2, <2>1, <2>2, WithinRenewing, WithinOwns DEF Punctuality
<1>3. CASE IntervalEnds
  <2>1. TimedTypes'
      BY <1>3 DEF IntervalEnds, TimedTypes, Punctuality
  <2>2. DownHasNothing'
      BY <1>3, StepDown DEF IntervalEnds, Next, Punctuality, Custody
  <2> QED BY <1>1, <1>3, <2>1, <2>2, IntervalPunctuality DEF Punctuality
<1>4. CASE UNCHANGED timedVars
    BY <1>1, <1>4
    DEF timedVars, vars, leaseRow, runtime, ticking, jobs, Punctuality, TimedTypes,
        DownHasNothing, Renewing, PunctualOwns, Served, Involved
<1> QED BY <1>2, <1>3, <1>4

\* The lease of a process that never stalled ends at most two intervals after
\* it was renewed, however many ticks are under way.
THEOREM PunctualityHolds == TimedSpec => []Punctuality
BY InitPunctuality, StepPunctuality, PTL DEF TimedSpec

\* However many pollers there are, and however many of their ticks overlap, of
\* those that never stalled at most one may write: the row names each of them.
THEOREM PunctualWriterIsAloneHolds == TimedSpec => []PunctualWriterIsAlone
<1>1. Punctuality => PunctualWriterIsAlone
  <2> SUFFICES ASSUME Punctuality, NEW p \in Pollers, MayWrite(p), ~late[p]
               PROVE  owner = p
      BY DEF PunctualWriterIsAlone
  <2>1. jobEpoch[p] # 0
      BY DEF MayWrite, CanCommitPoll, Punctuality, Custody, JobsApart
  <2>2. status[p] # "down"
      BY <2>1 DEF Punctuality, DownHasNothing
  <2> QED BY <2>1, <2>2 DEF Punctuality, PunctualOwns, Involved
<1> QED BY <1>1, PunctualityHolds, PTL
=============================================================================
