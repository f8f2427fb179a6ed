--------------------------- MODULE ServicesProofs ---------------------------
(***************************************************************************)
(* What the services around the executions promise, as the behaviours of   *)
(* MCServices have it: a behaviour is about one of them for good, and      *)
(* takes the steps of that one alone, so the invariant of a component is   *)
(* one of the behaviours about it.                                         *)
(***************************************************************************)
EXTENDS MCServices, RegistryProofs, ConductorProofs, HoldingProofs

\* The services of the behaviours which are about a component.
LEMMA InitOfOne ==
  ASSUME Init
  PROVE  /\ about = "locks" => LockInit
         /\ about = "licence" => LicensingInit
         /\ about = "registry" => SchedInit
         /\ about = "cron" => CronInit
         /\ about = "progress" => ProgressInit
         /\ about = "selections" => SelectionsInit
BY DEF Init

LEMMA StepOfOne ==
  ASSUME [Next]_vars
  PROVE  /\ about' = about
         /\ about = "locks" => [LockNext]_lockVars
         /\ about = "licence" => [LicensingNext]_licensingVars
         /\ about = "registry" => [SchedNext]_schedVars
         /\ about = "cron" => [CronNext]_cronVars
         /\ about = "progress" => [ProgressNext]_progressVars
         /\ about = "selections" => [SelectionsNext]_selectionVars
<1>1. CASE UNCHANGED vars
  BY <1>1 DEF vars
<1>2. CASE Next
  BY <1>2 DEF Next
<1> QED
  BY <1>1, <1>2

-----------------------------------------------------------------------------
\* The conductor's handlers wait for one another in a circle only where one is of a request
\* and another of a worker's report (the locks which the handlers take, and the order in
\* which they nest), for any number of threads and of handlers which raise.
THEOREM CirclesHaveBothKinds == Spec => []LockCircles
<1> DEFINE Inv == about = "locks" => LockInv
<1>1. Init => Inv
  BY InitOfOne, InitLocks
<1>2. Inv /\ [Next]_vars => Inv'
  BY StepOfOne, NextLocks
<1>3. Inv => LockCircles
  BY LockPromises DEF LockCircles
<1> QED
  BY <1>1, <1>2, <1>3, PTL DEF Spec

\* Every completed deployment of a live migration, but for those whose new reservation was
\* not saved next to a fulfilled one, and every replica with a completed
\* execution was charged, and unless something was lost or dropped the only open
\* reservation is that of a transfer which is there (the licensing client and the
\* handlers of the conductor which call it), for any number of reservations, attempts
\* and lost requests.
THEOREM LicencesCharged == Spec => []EverythingCharged
<1> DEFINE Inv == about = "licence" => LInv /\ ChargeInv
<1>1. Init => Inv
  BY InitOfOne, InitLInv, InitChargeInv
<1>2. Inv /\ [Next]_vars => Inv'
  BY StepOfOne, NextLInv, ChargeStep
<1>3. Inv => EverythingCharged
  BY ChargedAndHeld DEF EverythingCharged
<1> QED
  BY <1>1, <1>2, <1>3, PTL DEF Spec

\* The worker which a task is given fits it, and what is known of a worker is what it
\* registered last (the scheduler's filters, and the registration of workers with the
\* conductor), for any number of workers, endpoints and regions; hosts and endpoints,
\* both of which are mapped to regions, have different names.
THEOREM WorkersFit == Endpoints \cap Hosts = {} /\ Spec => []WorkerFits
<1> DEFINE Inv == about = "registry" => RegInv /\ ChoiceInv
<1>1. Init => Inv
  BY InitOfOne, InitRegInv, InitChoiceInv
<1>2. ASSUME Endpoints \cap Hosts = {}
      PROVE  Inv /\ [Next]_vars => Inv'
  BY <1>2, StepOfOne, NextRegInv, NextChoiceInv
<1>3. Inv => WorkerFits
  BY DEF WorkerFits, RegInv, ChoiceInv
<1>4. CASE Endpoints \cap Hosts = {}
  <2>1. Inv /\ [Next]_vars => Inv'
    BY <1>2, <1>4
  <2> QED
    BY <1>1, <1>3, <2>1, PTL DEF Spec
<1> QED
  BY <1>4

\* The cron service's jobs are those of the schedules in the database once nothing is being
\* done about them, each is started at most once in a minute, and no schedule is left without
\* the trust which its job needs (the cron service, the conductor's handlers of schedules and
\* what they do when a request is not answered), for any number of schedules, failures and
\* restarts.  What an operation which was rolled back has left of a job is put right by the
\* next one or by a restart, and a deletion which was rolled back may have cost the trust.
THEOREM SchedulesAreFollowed == Spec => []JobsFollowSchedules
<1> DEFINE Inv == about = "cron" => CronInv
<1>1. Init => Inv
  BY InitOfOne, InitCronInv
<1>2. Inv /\ [Next]_vars => Inv'
  BY StepOfOne, NextCronInv
<1>3. Inv => JobsFollowSchedules
  BY SchedulesFollowed DEF JobsFollowSchedules
<1> QED
  BY <1>1, <1>2, <1>3, PTL DEF Spec

\* What is shown of a task is what it has got to (the EventManager of its process, and
\* the conductor's handlers of progress updates, under the lock on the task), for any
\* number of steps, messages and values, in whatever order the updates are handled.
THEOREM ProgressIsShown == Distinct /\ Spec => []ProgressShown
<1> DEFINE Inv == about = "progress" => RowsInv /\ RowIsCurrent /\ ToldInv /\ CountInv
<1>1. Init => Inv
  BY InitOfOne, InitRowsInv, InitRowIsCurrent, InitToldInv, InitCountInv
<1>2. ASSUME Distinct
      PROVE  Inv /\ [Next]_vars => Inv'
  BY <1>2, StepOfOne, NextRowsInv, NextRowIsCurrent, NextToldInv, NextCountInv
<1>3. ASSUME Distinct
      PROVE  Inv => ProgressShown
  BY <1>3, AllIsShown DEF ProgressShown
<1>4. CASE Distinct
  <2>1. (Inv /\ [Next]_vars => Inv') /\ (Inv => ProgressShown)
    BY <1>2, <1>3, <1>4
  <2> QED
    BY <1>1, <2>1, PTL DEF Spec
<1> QED
  BY <1>4

\* Whatever actions select and pools' owners change, an action whose machines are
\* confirmed has for every instance a machine of its own in each pool it selected, one
\* which is over has none, and no pool has more machines than its maximum (the minion
\* manager's allocation and the updates of pools), for any number of pools, machines,
\* actions and instances; updates of pools are made one at a time.
THEOREM SelectionsAreServed == []OneUpdate /\ Spec => []SelectionsServed
<1> DEFINE Inv == about = "selections" => SelInv /\ HeldInv
<1>1. Init => Inv
  BY InitOfOne, InitSelInv, InitHeldInv, SelectionsAssumption
<1>2. OneUpdate /\ Inv /\ [Next]_vars => Inv'
  BY StepOfOne, NextSelInv, NextHeldInv, SelectionsAssumption
<1>3. Inv => SelectionsServed
  BY RequestServed DEF SelectionsServed
<1> QED
  BY <1>1, <1>2, <1>3, PTL DEF Spec
=============================================================================
