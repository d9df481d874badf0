----------------------------- MODULE LeaseProofs -----------------------------
(***************************************************************************)
(* The lease of an attempt outlasts what its worker does with it, and the   *)
(* worker keeps to the phases of the server, for every lease, margin,       *)
(* timeout and grace.                                                       *)
(***************************************************************************)
EXTENDS LeaseAuthority, TLAPS

(* Zenon proves the steps; the ones that need arithmetic, or more of sets   *)
(* and functions than it knows, cite SMT.                                   *)
USE ZenonT(40)

(* A grant that is on its way back grants no more than the row has left.    *)
GrantInsideLease ==
    call = "answered" /\ reply.decision = "ACCEPTED" => reply.lease - age <= lease

(* What the worker waits for is one of the server's answers.                *)
AnswersOnly ==
    call = "answered" => reply.decision \in {"error", "ACCEPTED"} \cup Rejections

(* The window the supervisor looked at last may be an earlier one.          *)
LastInsideLease == lastWindow > 0 => lastWindow + Margin <= lease

(* A container runs only before finalization, and there is time to kill it. *)
ContainerInsideLease ==
    /\ container = "running" =>
         /\ stage \in {"launched", "toRunning", "refreshRunning", "running"}
         /\ Margin <= lease
    /\ container = "stopping" => stage = "stopped" /\ 0 < killIn /\ killIn <= lease

Inside ==
    /\ TypeOK
    /\ AnswersOnly
    /\ GrantInsideLease
    /\ WindowInsideLease
    /\ LastInsideLease
    /\ ContainerInsideLease

-----------------------------------------------------------------------------
(* No grant is a grant that grants nothing.                                 *)
LEMMA NoGrantIsGrant == NoGrant \in Grants
BY LeaseAssumption, SMT DEF NoGrant, Grants

(* Every answer to a renewal is a grant, and grants at most the lease.      *)
LEMMA GrantFacts ==
    ASSUME TypeOK
    PROVE  /\ NoGrant \in Grants
           /\ \A d \in {"error"} \cup Rejections : Rejection(d) \in Grants
           /\ FreshGrant \in Grants /\ ReplayedGrant \in Grants
           /\ LeaseDecision \in {"ACCEPTED"} \cup Rejections
           /\ ReplayedGrant.decision = "ACCEPTED" => ReplayedGrant.lease <= lease
           /\ FreshGrant.decision = "ACCEPTED" => FreshGrant.lease = InitialLease
<1>1. NoGrant \in Grants
  BY NoGrantIsGrant
<1>2. \A d \in {"error"} \cup Rejections : Rejection(d) \in Grants
  BY LeaseAssumption, SMT DEF Rejection, Rejections, Grants
<1>3. LeaseDecision \in {"ACCEPTED"} \cup Rejections
  BY DEF LeaseDecision, Rejections
<1>4. LeaseDecision # "ACCEPTED" => Rejection(LeaseDecision) \in Grants
  BY <1>2, <1>3
<1>5. ASSUME NEW d \in Rejections PROVE Rejection(d).decision # "ACCEPTED"
  BY DEF Rejection, Rejections
<1>6. /\ FreshGrant \in Grants
      /\ FreshGrant.decision = "ACCEPTED" => FreshGrant.lease = InitialLease
  <2>1. CASE LeaseDecision = "ACCEPTED"
    BY <2>1, LeaseAssumption, SMT DEF FreshGrant, Grants, TypeOK, TimesOK
  <2>2. CASE LeaseDecision # "ACCEPTED"
    BY <1>3, <1>4, <1>5, <2>2 DEF FreshGrant
  <2> QED BY <2>1, <2>2
<1>7. /\ ReplayedGrant \in Grants
      /\ ReplayedGrant.decision = "ACCEPTED" => ReplayedGrant.lease <= lease
  <2> DEFINE l == Lesser(saved.lease, lease)
             p == Lesser(saved.phase, phase)
  <2>1. lease \in 0..InitialLease /\ phase \in Nat /\ saved \in Grants
    BY DEF TypeOK, TimesOK
  <2>2. /\ saved.lease \in 0..InitialLease /\ saved.phase \in Nat
        /\ saved.decision \in {"none", "error", "ACCEPTED"} \cup Rejections
    BY <2>1 DEF Grants
  <2>3. l \in 0..InitialLease /\ l <= lease /\ p \in Nat
    BY <2>1, <2>2, LeaseAssumption, SMT DEF Lesser
  <2>4. CASE saved.decision # "ACCEPTED"
    <3>1. ReplayedGrant = Rejection(saved.decision)
      BY <2>4 DEF ReplayedGrant
    <3>2. Rejection(saved.decision) \in Grants /\ Rejection(saved.decision).decision # "ACCEPTED"
      BY <2>2, <2>4, LeaseAssumption, SMT DEF Rejection, Grants
    <3> QED BY <3>1, <3>2
  <2>5. CASE saved.decision = "ACCEPTED" /\ LeaseDecision # "ACCEPTED"
    BY <1>3, <1>4, <1>5, <2>5 DEF ReplayedGrant
  <2>6. CASE saved.decision = "ACCEPTED" /\ LeaseDecision = "ACCEPTED"
    <3>1. "FENCED" \in Rejections /\ "STOP_REQUESTED" \in Rejections
      BY DEF Rejections
    <3>2. ReplayedGrant \in {Rejection("FENCED"), Rejection("STOP_REQUESTED"),
                             [decision |-> "ACCEPTED", lease |-> l, phase |-> p]}
      BY <2>6 DEF ReplayedGrant
    <3> HIDE DEF l, p
    <3>3. [decision |-> "ACCEPTED", lease |-> l, phase |-> p] \in Grants
      BY <2>3 DEF Grants
    <3> QED BY <1>2, <1>5, <2>3, <3>1, <3>2, <3>3, SMT
  <2> QED BY <2>4, <2>5, <2>6
<1> QED BY <1>1, <1>2, <1>3, <1>6, <1>7

(* A replay of a saved result is one of the server's answers.               *)
LEMMA ReplayAnswers ==
    ASSUME TypeOK, saved.decision # "none"
    PROVE  ReplayedGrant.decision \in {"error", "ACCEPTED"} \cup Rejections
<1>1. saved.decision \in {"error", "ACCEPTED"} \cup Rejections
  BY DEF TypeOK, TimesOK, Grants
<1>2. LeaseDecision \in {"ACCEPTED"} \cup Rejections
  BY GrantFacts
<1> QED BY <1>1, <1>2 DEF ReplayedGrant, Rejection, Rejections

-----------------------------------------------------------------------------
(* The assignment the worker starts from.                                   *)
LEMMA InsideInit == Init => Inside
<1> SUFFICES ASSUME Init PROVE Inside
  OBVIOUS
<1>1. PICK l \in 1..InitialLease, p \in 1..StartupTimeout,
           travel \in 0..InitialLease, back \in 0..InitialLease :
        /\ window = Window([decision |-> "ACCEPTED", lease |-> l, phase |-> p], travel + back)
        /\ window > 0
        /\ lease = l - back
        /\ phase = p - back
  BY DEF Init
<1>2. /\ l \in Int /\ p \in Int /\ travel \in Nat /\ back \in Nat /\ Margin \in Nat
      /\ InitialLease \in Nat /\ l <= InitialLease
  BY LeaseAssumption, SMT
<1>3. window = Lesser(l - Margin, p) - (travel + back)
  BY <1>1 DEF Window
<1>4. Lesser(l - Margin, p) \in Int /\ Lesser(l - Margin, p) <= l - Margin
      /\ Lesser(l - Margin, p) <= p
  BY <1>2, SMT DEF Lesser
<1>5. window \in Nat /\ window + Margin <= lease /\ lease \in 0..InitialLease /\ phase \in Nat
  BY <1>1, <1>2, <1>3, <1>4, SMT
<1>6. TypeOK
  <2>1. FlagsOK
    BY DEF Init, FlagsOK
  <2>2. TimesOK
    BY <1>5, NoGrantIsGrant, LeaseAssumption, SMT DEF Init, TimesOK
  <2> QED BY <2>1, <2>2 DEF Init, TypeOK, ActiveStates
<1> QED BY <1>1, <1>5, <1>6 DEF Init, Inside, GrantInsideLease, WindowInsideLease,
              LastInsideLease, ContainerInsideLease, AnswersOnly, NoGrant

-----------------------------------------------------------------------------
(* Each action keeps the flags Boolean.                                     *)
LEMMA FlagsStep == FlagsOK /\ [Next]_vars => FlagsOK'
<1> SUFFICES ASSUME FlagsOK, [Next]_vars PROVE FlagsOK'
  OBVIOUS
<1> USE DEF serverVars, authorityVars, renewalVars, launchVars, containerVars
<1>1. CASE \E awaited \in BOOLEAN : RenewLeases(awaited)
  BY <1>1 DEF RenewLeases, FlagsOK
<1>2. CASE \E to \in {"STARTING", "RUNNING", "FINALIZING"}, awaited \in BOOLEAN :
                     ReportPhase(to, awaited)
  BY <1>2 DEF ReportPhase, FlagsOK
<1>3. CASE RequestCancellation
  BY <1>3 DEF RequestCancellation, FlagsOK
<1>4. CASE \E replaced \in BOOLEAN : Fence(replaced)
  BY <1>4 DEF Fence, FlagsOK
<1>5. CASE SendRenewal
  BY <1>5 DEF SendRenewal, FlagsOK
<1>6. CASE RenewalFails
  BY <1>6 DEF RenewalFails, FlagsOK
<1>7. CASE ReceiveRenewal
  BY <1>7 DEF ReceiveRenewal, FlagsOK
<1>8. CASE RenewalEnds
  BY <1>8 DEF RenewalEnds, FlagsOK
<1>9. CASE PrepareLaunch
  BY <1>9 DEF PrepareLaunch, FlagsOK
<1>10. CASE SendReport
  BY <1>10 DEF SendReport, FlagsOK
<1>11. CASE ReportFails
  BY <1>11 DEF ReportFails, FlagsOK
<1>12. CASE ReceiveReport
  BY <1>12 DEF ReceiveReport, FlagsOK
<1>13. CASE StartContainer
  BY <1>13 DEF StartContainer, FlagsOK
<1>14. CASE Inspect
  BY <1>14 DEF Inspect, FlagsOK
<1>15. CASE RefreshDone
  BY <1>15 DEF RefreshDone, FlagsOK
<1>16. CASE ObserveExit
  BY <1>16 DEF ObserveExit, FlagsOK
<1>17. CASE Publish
  BY <1>17 DEF Publish, FlagsOK
<1>18. CASE Terminate
  BY <1>18 DEF Terminate, EndWithin, FlagsOK
<1>19. CASE Abandon
  BY <1>19 DEF Abandon, EndWithin, FlagsOK
<1>20. CASE ContainerExits
  BY <1>20 DEF ContainerExits, FlagsOK
<1>21. CASE ContainerStopped
  BY <1>21 DEF ContainerStopped, FlagsOK
<1>22. CASE Tick
  BY <1>22 DEF Tick, FlagsOK
<1>23. CASE UNCHANGED vars
  BY <1>23 DEF FlagsOK, vars
<1> QED BY <1>1, <1>2, <1>3, <1>4, <1>5, <1>6, <1>7, <1>8, <1>9, <1>10, <1>11,
         <1>12, <1>13, <1>14, <1>15, <1>16, <1>17, <1>18, <1>19, <1>20,
         <1>21, <1>22, <1>23 DEF Next, ServerStep, WorkerStep

(* Type correctness is inductive.                                           *)
LEMMA TypeStep == Inside /\ [Next]_vars => TypeOK'
<1> SUFFICES ASSUME Inside, [Next]_vars PROVE TypeOK'
  OBVIOUS
<1> USE DEF serverVars, authorityVars, renewalVars, launchVars, containerVars
<1> USE DEF Inside
<1>0. FlagsOK'
  BY FlagsStep DEF TypeOK
<1>1. CASE \E awaited \in BOOLEAN : RenewLeases(awaited)
  <2>1. PICK awaited \in BOOLEAN : RenewLeases(awaited)
    BY <1>1
  <2>2. TimesOK'
    <3>1. Rejection("error") \in Grants /\ FreshGrant \in Grants /\ ReplayedGrant \in Grants
      BY GrantFacts
    <3> QED BY <2>1, <3>1, LeaseAssumption, SMT DEF RenewLeases, TypeOK, TimesOK
  <2> QED BY <1>0, <2>1, <2>2, SMT DEF RenewLeases, TypeOK
<1>2. CASE \E to \in {"STARTING", "RUNNING", "FINALIZING"}, awaited \in BOOLEAN :
                     ReportPhase(to, awaited)
  <2>1. PICK to \in {"STARTING", "RUNNING", "FINALIZING"}, awaited \in BOOLEAN :
          ReportPhase(to, awaited)
    BY <1>2
  <2>2. NextPhaseDeadline(to) \in Nat
    BY LeaseAssumption DEF NextPhaseDeadline, TypeOK, TimesOK
  <2>3. TimesOK'
    BY <2>1, <2>2 DEF ReportPhase, TypeOK, TimesOK
  <2>4. attState' \in ActiveStates \cup {"ENDED"}
    BY <2>1 DEF ReportPhase, TypeOK, ActiveStates
  <2>5. PhaseAnswer(to, attState') \in {"error", "ACCEPTED"} \cup Rejections
    BY GrantFacts DEF PhaseAnswer
  <2>6. report' \in {"none", "sent", "error", "ACCEPTED"} \cup Rejections
    BY <2>1, <2>5 DEF ReportPhase, TypeOK
  <2> QED BY <1>0, <2>1, <2>3, <2>4, <2>6, SMT DEF ReportPhase, TypeOK
<1>3. CASE RequestCancellation
  <2>1. TimesOK'
    BY <1>3 DEF RequestCancellation, TypeOK, TimesOK
  <2> QED BY <1>0, <1>3, <2>1, SMT DEF RequestCancellation, TypeOK
<1>4. CASE \E replaced \in BOOLEAN : Fence(replaced)
  <2>1. TimesOK'
    BY <1>4 DEF Fence, TypeOK, TimesOK
  <2> QED BY <1>0, <1>4, <2>1 DEF Fence, ActiveStates, TypeOK
<1>5. CASE SendRenewal
  <2>1. TimesOK'
    BY <1>5, NoGrantIsGrant, LeaseAssumption, SMT DEF SendRenewal, TypeOK, TimesOK
  <2> QED BY <1>0, <1>5, <2>1, SMT DEF SendRenewal, TypeOK
<1>6. CASE RenewalFails
  <2>1. TimesOK'
    BY <1>6, NoGrantIsGrant, LeaseAssumption, SMT DEF RenewalFails, TypeOK, TimesOK
  <2> QED BY <1>0, <1>6, <2>1, SMT DEF RenewalFails, TypeOK
<1>7. CASE ReceiveRenewal
  <2> DEFINE w == Window(reply, age)
  <2>1. w \in Int
    BY LeaseAssumption, SMT DEF Window, Lesser, TypeOK, TimesOK, Grants
  <2>2. AuthorityAfter(reply, w) = "none" => w > 0
    BY <1>7, <2>1, SMT DEF AuthorityAfter, AnswersOnly, ReceiveRenewal, Rejections
  <2>3. AuthorityAfter(reply, w) \in {"none", "expired", "error"} \cup Rejections
    BY <1>7 DEF AnswersOnly, AuthorityAfter, ReceiveRenewal, TypeOK
  <2>4. TimesOK'
    BY <1>7, <2>1, <2>2, NoGrantIsGrant, LeaseAssumption, SMT DEF ReceiveRenewal, Refreshed, TypeOK,
           TimesOK
  <2> QED BY <1>0, <1>7, <2>3, <2>4, SMT DEF ReceiveRenewal, TypeOK
<1>8. CASE RenewalEnds
  <2>1. AuthorityAfter(Rejection("error"), 0) \in {"none", "expired", "error"} \cup Rejections
    BY DEF AuthorityAfter, Rejection, TypeOK
  <2>2. TimesOK'
    BY <1>8, NoGrantIsGrant, LeaseAssumption, SMT DEF RenewalEnds, TypeOK, TimesOK
  <2> QED BY <1>0, <1>8, <2>1, <2>2, SMT DEF RenewalEnds, TypeOK
<1>9. CASE PrepareLaunch
  <2>1. TimesOK'
    BY <1>9 DEF PrepareLaunch, TypeOK, TimesOK
  <2> QED BY <1>0, <1>9, <2>1 DEF PrepareLaunch, TypeOK
<1>10. CASE SendReport
  <2>1. TimesOK'
    BY <1>10 DEF SendReport, TypeOK, TimesOK
  <2> QED BY <1>0, <1>10, <2>1 DEF SendReport, TypeOK
<1>11. CASE ReportFails
  <2>1. TimesOK'
    BY <1>11 DEF ReportFails, TypeOK, TimesOK
  <2> QED BY <1>0, <1>11, <2>1, SMT DEF ReportFails, Reporting, TypeOK
<1>12. CASE ReceiveReport
  <2>1. TimesOK'
    BY <1>12, SMT DEF ReceiveReport, TypeOK, TimesOK
  <2> QED BY <1>0, <1>12, <2>1 DEF ReceiveReport, TypeOK
<1>13. CASE StartContainer
  <2>1. TimesOK'
    BY <1>13 DEF StartContainer, TypeOK, TimesOK
  <2> QED BY <1>0, <1>13, <2>1 DEF StartContainer, Over, TypeOK
<1>14. CASE Inspect
  <2>1. TimesOK'
    BY <1>14, LeaseAssumption DEF Inspect, TypeOK, TimesOK
  <2> QED BY <1>0, <1>14, <2>1 DEF Inspect, TypeOK
<1>15. CASE RefreshDone
  <2>1. TimesOK'
    BY <1>15 DEF RefreshDone, TypeOK, TimesOK
  <2> QED BY <1>0, <1>15, <2>1 DEF RefreshDone, TypeOK
<1>16. CASE ObserveExit
  <2>1. TimesOK'
    BY <1>16, LeaseAssumption DEF ObserveExit, TypeOK, TimesOK
  <2> QED BY <1>0, <1>16, <2>1 DEF ObserveExit, TypeOK
<1>17. CASE Publish
  <2>1. TimesOK'
    BY <1>17 DEF Publish, TypeOK, TimesOK
  <2> QED BY <1>0, <1>17, <2>1 DEF Publish, Over, TypeOK
<1>18. CASE Terminate
  <2>1. StopTime \in Nat
    BY LeaseAssumption, SMT DEF StopTime, Grace, Lesser, TypeOK, TimesOK
  <2>2. TimesOK'
    BY <1>18, <2>1 DEF Terminate, EndWithin, TypeOK, TimesOK
  <2> QED BY <1>0, <1>18, <2>2 DEF Terminate, EndWithin, TypeOK, Over
<1>19. CASE Abandon
  <2>1. TimesOK'
    BY <1>19, LeaseAssumption DEF Abandon, EndWithin, TypeOK, TimesOK
  <2> QED BY <1>0, <1>19, <2>1 DEF Abandon, EndWithin, Over, TypeOK
<1>20. CASE ContainerExits
  <2>1. TimesOK'
    BY <1>20 DEF ContainerExits, TypeOK, TimesOK
  <2> QED BY <1>0, <1>20, <2>1, SMT DEF ContainerExits, TypeOK
<1>21. CASE ContainerStopped
  <2>1. TimesOK'
    BY <1>21 DEF ContainerStopped, TypeOK, TimesOK
  <2> QED BY <1>0, <1>21, <2>1 DEF ContainerStopped, TypeOK
<1>22. CASE Tick
  <2>1. saved' \in Grants
    <3>1. saved \in Grants
      BY DEF TypeOK, TimesOK
    <3>2. Countdown(saved.lease) \in 0..InitialLease /\ Countdown(saved.phase) \in Nat
      BY <3>1, LeaseAssumption, SMT DEF Countdown, Grants
    <3>3. saved' = [saved EXCEPT !.lease = Countdown(saved.lease), !.phase = Countdown(saved.phase)]
      BY <1>22 DEF Tick
    <3> HIDE DEF Inside
    <3> QED BY <3>1, <3>2, <3>3 DEF Grants
  <2>2. TimesOK'
    BY <1>22, <2>1, LeaseAssumption, SMT DEF Tick, Countdown, Lesser, TypeOK, TimesOK
  <2> QED BY <1>0, <1>22, <2>2, SMT DEF Tick, TypeOK
<1>23. CASE UNCHANGED vars
  BY <1>23, <1>0, SMT DEF TypeOK, TimesOK, vars
<1> QED BY <1>1, <1>2, <1>3, <1>4, <1>5, <1>6, <1>7, <1>8, <1>9, <1>10, <1>11,
         <1>12, <1>13, <1>14, <1>15, <1>16, <1>17, <1>18, <1>19, <1>20,
         <1>21, <1>22, <1>23 DEF Next, ServerStep, WorkerStep

(* The invariant is inductive.                                              *)
LEMMA InsideStep == Inside /\ [Next]_vars => Inside'
<1> SUFFICES ASSUME Inside, [Next]_vars PROVE Inside'
  OBVIOUS
<1> USE DEF serverVars, authorityVars, renewalVars, launchVars, containerVars
<1> USE DEF Inside, AnswersOnly, GrantInsideLease, WindowInsideLease, LastInsideLease,
            ContainerInsideLease
<1>0. TypeOK'
  BY TypeStep
<1>1. CASE \E awaited \in BOOLEAN : RenewLeases(awaited)
  <2>1. PICK awaited \in BOOLEAN : RenewLeases(awaited)
    BY <1>1
  <2>2. lease <= lease' /\ age \in Nat /\ lease \in Nat /\ lease' \in Nat
    BY <1>0, <2>1, LeaseAssumption, SMT DEF RenewLeases, TypeOK, TimesOK
  <2>3. AnswersOnly' /\ GrantInsideLease'
    <3>1. CASE awaited /\ ~sessionCurrent
      BY <2>1, <3>1 DEF RenewLeases, Rejection
    <3>2. CASE awaited /\ sessionCurrent /\ saved.decision = "none"
      <4>1. reply' = FreshGrant /\ (FreshGrant.decision = "ACCEPTED" => lease' = InitialLease)
        BY <2>1, <3>2 DEF RenewLeases
      <4>2. FreshGrant.decision \in {"ACCEPTED"} \cup Rejections
        BY GrantFacts DEF FreshGrant, Rejection
      <4>3. FreshGrant.decision = "ACCEPTED" => FreshGrant.lease = InitialLease
        BY GrantFacts
      <4>4. age' = age /\ InitialLease \in Nat
        BY <2>1, LeaseAssumption DEF RenewLeases
      <4> QED BY <2>2, <4>1, <4>2, <4>3, <4>4, SMT
    <3>3. CASE awaited /\ sessionCurrent /\ saved.decision # "none"
      <4>1. reply' = ReplayedGrant /\ age' = age /\ lease' = lease
        BY <2>1, <3>3 DEF RenewLeases
      <4>2. ReplayedGrant.decision = "ACCEPTED" => ReplayedGrant.lease <= lease
        BY GrantFacts
      <4>3. ReplayedGrant.lease \in Int
        BY GrantFacts, SMT DEF Grants
      <4>4. ReplayedGrant.decision \in {"error", "ACCEPTED"} \cup Rejections
        BY ReplayAnswers, <3>3
      <4> QED BY <2>2, <4>1, <4>2, <4>3, <4>4, SMT
    <3>4. CASE ~awaited
      <4>1. reply' = reply /\ age' = age /\ call' = call
        BY <2>1, <3>4 DEF RenewLeases
      <4>2. reply.lease \in Int
        BY SMT DEF TypeOK, TimesOK, Grants
      <4> QED BY <2>2, <4>1, <4>2, SMT
    <3> QED BY <3>1, <3>2, <3>3, <3>4
  <2>4. UNCHANGED <<window, lastWindow, container, stage, killIn>>
    BY <2>1 DEF RenewLeases
  <2>5. window \in Nat /\ lastWindow \in Nat /\ killIn \in Nat /\ Margin \in Nat
    BY LeaseAssumption DEF TypeOK, TimesOK
  <2> QED BY <1>0, <2>2, <2>3, <2>4, <2>5, SMT
<1>2. CASE \E to \in {"STARTING", "RUNNING", "FINALIZING"}, awaited \in BOOLEAN :
                     ReportPhase(to, awaited)
  BY <1>0, <1>2 DEF ReportPhase
<1>3. CASE RequestCancellation
  BY <1>0, <1>3 DEF RequestCancellation
<1>4. CASE \E replaced \in BOOLEAN : Fence(replaced)
  BY <1>0, <1>4 DEF Fence
<1>5. CASE SendRenewal
  BY <1>0, <1>5 DEF SendRenewal
<1>6. CASE RenewalFails
  BY <1>0, <1>6 DEF RenewalFails
<1>7. CASE ReceiveRenewal
  <2> DEFINE w == Window(reply, age)
             next == AuthorityAfter(reply, w)
  <2>1. /\ reply.lease \in Int /\ reply.phase \in Int /\ age \in Int /\ lease \in Int
        /\ Margin \in Nat
    BY LeaseAssumption, SMT DEF TypeOK, TimesOK, Grants
  <2>2. w \in Int /\ w <= reply.lease - Margin - age
    BY <2>1, SMT DEF Window, Lesser
  <2>3. next = "none" => reply.decision = "ACCEPTED"
    BY <1>7 DEF AuthorityAfter, ReceiveRenewal, Rejections
  <2>4. next = "none" => w + Margin <= lease
    BY <1>7, <2>1, <2>2, <2>3, SMT DEF ReceiveRenewal
  <2> HIDE DEF w, next
  <2>5. /\ window' = IF next = "none" THEN w ELSE window
        /\ lastWindow' \in {lastWindow, window'}
        /\ call' = "none"
        /\ UNCHANGED <<lease, container, stage, killIn>>
    BY <1>7 DEF ReceiveRenewal, w, next
  <2> QED BY <1>0, <2>4, <2>5
<1>8. CASE RenewalEnds
  BY <1>0, <1>8 DEF RenewalEnds
<1>9. CASE PrepareLaunch
  BY <1>0, <1>9 DEF PrepareLaunch
<1>10. CASE SendReport
  BY <1>0, <1>10 DEF SendReport
<1>11. CASE ReportFails
  BY <1>0, <1>11 DEF ReportFails
<1>12. CASE ReceiveReport
  BY <1>0, <1>12 DEF ReceiveReport, Waiting
<1>13. CASE StartContainer
  <2>1. Margin <= lease
    BY <1>13, LeaseAssumption, SMT DEF StartContainer, Allowed, Live, TypeOK, TimesOK
  <2> QED BY <1>0, <1>13, <2>1 DEF StartContainer
<1>14. CASE Inspect
  BY <1>0, <1>14 DEF Inspect
<1>15. CASE RefreshDone
  BY <1>0, <1>15 DEF RefreshDone
<1>16. CASE ObserveExit
  BY <1>0, <1>16 DEF ObserveExit
<1>17. CASE Publish
  BY <1>0, <1>17 DEF Publish
<1>18. CASE Terminate
  <2>1. container = "running" => 0 < StopTime /\ StopTime <= lease
    <3>1. /\ lease \in Nat /\ window \in Nat /\ lastWindow \in Nat
          /\ CleanupBudget \in Nat \ {0} /\ Margin \in Nat /\ CleanupBudget <= Margin
          /\ TerminationGrace \in Nat
      BY LeaseAssumption, SMT DEF TypeOK, TimesOK
    <3> DEFINE remaining == IF stop = "none" THEN window ELSE lastWindow
    <3>2. remaining \in Nat /\ (remaining > 0 => remaining + Margin <= lease)
      BY <3>1
    <3>3. Grace \in Int /\ Grace <= remaining - 3 * CleanupBudget
      BY <3>1, <3>2, SMT DEF Grace, Lesser
    <3> HIDE DEF remaining
    <3>4. StopTime = CleanupBudget \/ (Grace > 0 /\ StopTime = Grace + 2 * CleanupBudget)
      BY DEF StopTime
    <3> QED BY <3>1, <3>2, <3>3, <3>4, SMT
  <2> QED BY <1>0, <1>18, <2>1 DEF Terminate, Lapsed, Refused, Waiting, EndWithin, Over
<1>19. CASE Abandon
  <2>1. container = "running" => 0 < CleanupBudget /\ CleanupBudget <= lease
    BY LeaseAssumption, SMT DEF TypeOK, TimesOK
  <2> QED BY <1>0, <1>19, <2>1 DEF Abandon, EndWithin, Over
<1>20. CASE ContainerExits
  BY <1>0, <1>20 DEF ContainerExits
<1>21. CASE ContainerStopped
  BY <1>0, <1>21 DEF ContainerStopped
<1>22. CASE Tick
  <2>1. /\ lease \in 0..InitialLease /\ window \in Nat /\ lastWindow \in Nat /\ killIn \in Nat
        /\ age \in 0..InitialLease /\ reply.lease \in 0..InitialLease
        /\ InitialLease \in Nat /\ Margin \in Nat
    BY LeaseAssumption DEF TypeOK, TimesOK, Grants
  <2>2. AnswersOnly'
    BY <1>22 DEF Tick
  <2>3. GrantInsideLease'
    BY <1>22, <2>1, SMT DEF Tick, Countdown, Lesser
  <2>4. WindowInsideLease' /\ LastInsideLease'
    BY <1>22, <2>1, SMT DEF Tick, Countdown
  <2>5. container = "running" => window > 0
    BY <1>22 DEF Tick, Lapsed, Over, Allowed, Live
  <2>6. ContainerInsideLease'
    BY <1>22, <2>1, <2>5, SMT DEF Tick, Countdown
  <2> QED BY <1>0, <2>2, <2>3, <2>4, <2>6
<1>23. CASE UNCHANGED vars
  BY <1>0, <1>23 DEF vars
<1> QED BY <1>1, <1>2, <1>3, <1>4, <1>5, <1>6, <1>7, <1>8, <1>9, <1>10, <1>11,
         <1>12, <1>13, <1>14, <1>15, <1>16, <1>17, <1>18, <1>19, <1>20,
         <1>21, <1>22, <1>23 DEF Next, ServerStep, WorkerStep

-----------------------------------------------------------------------------
(* The invariant holds in every state.                                      *)
LEMMA InsideHolds == Spec => []Inside
BY InsideInit, InsideStep, PTL DEF Spec

(* Every deadline stays a time left, every answer one the server gives      *)
(* (AuthorityWindow::remaining_at, decode_renewals).                        *)
THEOREM LeaseTypeCorrect == Spec => []TypeOK
<1>1. Inside => TypeOK
  BY DEF Inside
<1> QED BY <1>1, InsideHolds, PTL

(* However late, lost or repeated renewals are, the worker's window closes  *)
(* at least the margin before the lease does (AuthorityWindow::from_grant). *)
THEOREM WindowClosesFirst == Spec => []WindowInsideLease
<1>1. Inside => WindowInsideLease
  BY DEF Inside
<1> QED BY <1>1, InsideHolds, PTL

(* If the runtime kills within its budget, and the budget is within the     *)
(* margin, no container outlives the lease of its attempt                   *)
(* (terminate_requested, terminate).                                        *)
THEOREM ContainerGoneFirst == Spec => []ContainerGoneBeforeLeaseEnds
<1>1. ASSUME Inside PROVE ContainerGoneBeforeLeaseEnds
  <2>1. lease \in Nat /\ killIn \in Nat /\ Margin \in Nat /\ Margin > 0
    BY <1>1, LeaseAssumption, SMT DEF Inside, TypeOK, TimesOK
  <2> QED BY <1>1, <2>1, SMT DEF Inside, ContainerInsideLease, ContainerGoneBeforeLeaseEnds
<1> QED BY <1>1, InsideHolds, PTL

(* Lapsed or stopped authority stays so: no late grant revives it           *)
(* (AuthorityController::update).                                           *)
THEOREM NoRevivalOfAuthority == Spec => NoLocalRevival
<1> USE DEF authorityVars
<1> DEFINE Stays == /\ stop # "none" => stop' = stop
                    /\ window <= 0 => window' <= 0
<1>1. ASSUME Inside, Next PROVE Stays
  <2>1. CASE \E awaited \in BOOLEAN : RenewLeases(awaited)
    BY <2>1 DEF RenewLeases
  <2>2. CASE \E to \in {"STARTING", "RUNNING", "FINALIZING"}, awaited \in BOOLEAN :
                       ReportPhase(to, awaited)
    BY <2>2 DEF ReportPhase
  <2>3. CASE RequestCancellation
    BY <2>3 DEF RequestCancellation
  <2>4. CASE \E replaced \in BOOLEAN : Fence(replaced)
    BY <2>4 DEF Fence
  <2>5. CASE SendRenewal
    BY <2>5 DEF SendRenewal
  <2>6. CASE RenewalFails
    BY <2>6 DEF RenewalFails
  <2>7. CASE ReceiveRenewal
    BY <2>7 DEF ReceiveRenewal, AuthorityAfter, Live
  <2>8. CASE RenewalEnds
    BY <2>8 DEF RenewalEnds, AuthorityAfter, Live
  <2>9. CASE PrepareLaunch
    BY <2>9 DEF PrepareLaunch
  <2>10. CASE SendReport
    BY <2>10 DEF SendReport
  <2>11. CASE ReportFails
    BY <2>11 DEF ReportFails
  <2>12. CASE ReceiveReport
    BY <2>12 DEF ReceiveReport
  <2>13. CASE StartContainer
    BY <2>13 DEF StartContainer
  <2>14. CASE Inspect
    BY <2>14 DEF Inspect
  <2>15. CASE RefreshDone
    BY <2>15 DEF RefreshDone
  <2>16. CASE ObserveExit
    BY <2>16 DEF ObserveExit
  <2>17. CASE Publish
    BY <2>17 DEF Publish
  <2>18. CASE Terminate
    BY <2>18 DEF Terminate, EndWithin
  <2>19. CASE Abandon
    BY <2>19 DEF Abandon, EndWithin
  <2>20. CASE ContainerExits
    BY <2>20 DEF ContainerExits
  <2>21. CASE ContainerStopped
    BY <2>21 DEF ContainerStopped
  <2>22. CASE Tick
    BY <1>1, <2>22, SMT DEF Tick, Countdown, Inside, TypeOK, TimesOK
  <2> QED BY <1>1, <2>1, <2>2, <2>3, <2>4, <2>5, <2>6, <2>7, <2>8, <2>9, <2>10, <2>11, <2>12,
         <2>13, <2>14, <2>15, <2>16, <2>17, <2>18, <2>19, <2>20,
         <2>21, <2>22 DEF Next, ServerStep, WorkerStep
<1>2. ASSUME UNCHANGED vars PROVE Stays
  BY <1>2 DEF vars
<1>3. Inside /\ [Next]_vars => [Stays]_vars
  BY <1>1
<1> QED BY <1>3, InsideHolds, PTL DEF Spec, NoLocalRevival

-----------------------------------------------------------------------------
(* Acting within the phase.  The deadline of the phase moves in the report  *)
(* of RUNNING and of FINALIZING, so a grant from before the move says       *)
(* nothing about the new one: until a renewal built after the move is       *)
(* granted, the worker's own deadline, started before the report, stands in.*)

(* A grant on its way back, if it is still worth a window.                  *)
ReplyInPhase ==
    call = "answered" /\ reply.decision = "ACCEPTED" /\ age < InitialLease
        => reply.phase - age <= phase

GrantsInPhase == window <= phase /\ ReplyInPhase

BeforeRunning == {"staging", "starting", "launching", "launched"}

(* Up to the report of RUNNING the deadline stays where it was.             *)
NotYetRunning ==
    stage \in BeforeRunning =>
        /\ attState \in {"ASSIGNED", "STARTING", "ENDED"}
        /\ strayReports \subseteq {"STARTING"}
        /\ GrantsInPhase

ReportingRunning ==
    stage = "toRunning" =>
        /\ bounded /\ local <= ExecutionTimeout
        /\ "FINALIZING" \notin strayReports
        /\ attState # "FINALIZING"
        /\ GrantsInPhase \/ local <= phase
        /\ attState = "RUNNING" \/ report = "ACCEPTED" => local <= phase
        /\ report = "ACCEPTED" => attState \in {"RUNNING", "ENDED"}

RefreshingRunning ==
    stage = "refreshRunning" =>
        /\ bounded /\ local <= phase
        /\ "FINALIZING" \notin strayReports
        /\ attState \in {"RUNNING", "ENDED"}
        /\ revision >= requested => ReplyInPhase
        /\ acknowledged >= requested => window <= phase

NowRunning ==
    stage = "running" =>
        /\ "FINALIZING" \notin strayReports
        /\ attState \in {"RUNNING", "ENDED"}
        /\ GrantsInPhase

ReportingFinalizing ==
    stage = "toFinalizing" =>
        /\ bounded /\ local <= FinalizationTimeout
        /\ attState = "FINALIZING" \/ report = "ACCEPTED" => local <= phase
        /\ report = "ACCEPTED" => attState \in {"FINALIZING", "ENDED"}

NowFinalizing ==
    stage \in {"refreshFinalizing", "finalizing"} =>
        /\ bounded /\ local <= phase
        /\ attState \in {"FINALIZING", "ENDED"}

Within ==
    /\ acknowledged <= revision /\ revision <= requested
    /\ stage \notin Waiting \cup Over => report = "none"
    /\ NotYetRunning
    /\ ReportingRunning
    /\ RefreshingRunning
    /\ NowRunning
    /\ ReportingFinalizing
    /\ NowFinalizing

(* The assignment's window ends before the deadline of the start-up phase.  *)
LEMMA WithinInit == Init => Within
<1> SUFFICES ASSUME Init PROVE Within
  OBVIOUS
<1>1. PICK l \in 1..InitialLease, p \in 1..StartupTimeout,
           travel \in 0..InitialLease, back \in 0..InitialLease :
        /\ window = Window([decision |-> "ACCEPTED", lease |-> l, phase |-> p], travel + back)
        /\ phase = p - back
  BY DEF Init
<1>2. l \in Int /\ p \in Int /\ travel \in Nat /\ back \in Nat /\ Margin \in Nat
  BY LeaseAssumption, SMT
<1>3. window = Lesser(l - Margin, p) - (travel + back)
  BY <1>1 DEF Window
<1>4. window <= phase
  BY <1>1, <1>2, <1>3, SMT DEF Lesser
<1> QED BY <1>4, SMT DEF Init, Within, NotYetRunning, GrantsInPhase, ReplyInPhase, BeforeRunning,
              ReportingRunning, RefreshingRunning, NowRunning, ReportingFinalizing,
              NowFinalizing

(* Whatever a renewal is answered, it grants no more than the phase has     *)
(* left: the first answer copies the deadline, a replay takes the lesser.   *)
LEMMA AnswerInPhase ==
    ASSUME TypeOK, NEW awaited \in BOOLEAN, RenewLeases(awaited), ~awaited => ReplyInPhase
    PROVE  ReplyInPhase'
<1>1. /\ phase \in Nat /\ age \in Nat /\ saved.phase \in Nat
      /\ phase' = phase /\ age' = age
  BY LeaseAssumption, SMT DEF RenewLeases, TypeOK, TimesOK, Grants
<1>2. CASE ~awaited
  BY <1>1, <1>2 DEF RenewLeases, ReplyInPhase
<1>3. CASE awaited
  <2>1. FreshGrant.decision = "ACCEPTED" => FreshGrant.phase = phase
    BY GrantFacts DEF FreshGrant, Rejection, Rejections
  <2>2. ReplayedGrant.decision = "ACCEPTED" => ReplayedGrant.phase \in Nat
                                               /\ ReplayedGrant.phase <= phase
    <3>1. Lesser(saved.phase, phase) \in Nat /\ Lesser(saved.phase, phase) <= phase
      BY <1>1, SMT DEF Lesser
    <3>2. LeaseDecision \in {"ACCEPTED"} \cup Rejections
      BY GrantFacts
    <3> QED BY <3>1, <3>2 DEF ReplayedGrant, Rejection, Rejections
  <2>3. reply' \in {Rejection("error"), FreshGrant, ReplayedGrant}
    BY <1>3 DEF RenewLeases
  <2>4. Rejection("error").decision # "ACCEPTED"
    BY DEF Rejection
  <2>5. reply'.decision = "ACCEPTED" => reply'.phase \in Nat /\ reply'.phase <= phase
    BY <1>1, <2>1, <2>2, <2>3, <2>4, SMT
  <2> QED BY <1>1, <2>5, SMT DEF ReplyInPhase
<1> QED BY <1>2, <1>3

(* The window a grant opens ends with what it grants of the phase.          *)
LEMMA WindowInPhase ==
    ASSUME Inside, ReceiveRenewal, ReplyInPhase
    PROVE  window' <= phase \/ (window' = window /\ acknowledged' = acknowledged)
<1> DEFINE w == Window(reply, age)
           next == AuthorityAfter(reply, w)
<1>1. /\ reply.lease \in 0..InitialLease /\ reply.phase \in Nat /\ age \in 0..InitialLease
      /\ phase \in Nat /\ Margin \in Nat /\ InitialLease \in Nat
  BY LeaseAssumption DEF Inside, TypeOK, TimesOK, Grants
<1>2. w \in Int /\ w <= reply.lease - Margin - age /\ w <= reply.phase - age
  BY <1>1, SMT DEF Window, Lesser
<1>3. next = "none" => reply.decision = "ACCEPTED" /\ w > 0
  BY <1>2, SMT DEF AuthorityAfter, ReceiveRenewal, Rejections, Inside, AnswersOnly
<1>4. /\ next = "none" => window' = w
      /\ next # "none" => window' = window /\ acknowledged' = acknowledged
  BY DEF ReceiveRenewal
<1>5. call = "answered"
  BY DEF ReceiveRenewal
<1> HIDE DEF w, next
<1> QED BY <1>1, <1>2, <1>3, <1>4, <1>5, SMT DEF ReplyInPhase

(* The invariant is inductive.                                              *)
LEMMA WithinStep == Inside /\ Within /\ [Next]_vars => Within'
<1> SUFFICES ASSUME Inside, Within, [Next]_vars PROVE Within'
  OBVIOUS
<1> USE DEF serverVars, authorityVars, renewalVars, launchVars, containerVars
<1> USE DEF Within, NotYetRunning, GrantsInPhase, BeforeRunning, ReportingRunning,
            RefreshingRunning, NowRunning, ReportingFinalizing, NowFinalizing, Waiting, Over
<1>0. /\ phase \in Nat /\ window \in Nat /\ local \in Nat /\ age \in Nat
      /\ requested \in Nat /\ acknowledged \in Nat /\ revision \in Nat
      /\ stage \in BeforeRunning \cup {"toRunning", "refreshRunning", "running",
            "toFinalizing", "refreshFinalizing", "finalizing", "finished", "stopped"}
  BY LeaseAssumption, SMT DEF Inside, TypeOK, TimesOK
<1>1. CASE \E awaited \in BOOLEAN : RenewLeases(awaited)
  <2>1. PICK awaited \in BOOLEAN : RenewLeases(awaited)
    BY <1>1
  <2>2. ReplyInPhase => ReplyInPhase'
    BY <2>1, AnswerInPhase DEF Inside
  <2>3. /\ UNCHANGED <<attState, phase, window, requested, acknowledged, revision>>
        /\ UNCHANGED launchVars
    BY <2>1 DEF RenewLeases
  <2> QED BY <2>2, <2>3
<1>2. CASE \E to \in {"STARTING", "RUNNING", "FINALIZING"}, awaited \in BOOLEAN :
                     ReportPhase(to, awaited)
  <2>1. PICK to \in {"STARTING", "RUNNING", "FINALIZING"}, awaited \in BOOLEAN :
          ReportPhase(to, awaited)
    BY <1>2
  <2> QED BY <1>0, <2>1, LeaseAssumption, SMT DEF ReportPhase, PhaseMayFollow, NextPhaseDeadline, PhaseAnswer, Reporting, ReplyInPhase
<1>3. CASE RequestCancellation
  BY <1>3, SMT DEF RequestCancellation, ReplyInPhase
<1>4. CASE \E replaced \in BOOLEAN : Fence(replaced)
  BY <1>4, SMT DEF Fence, ReplyInPhase
<1>5. CASE SendRenewal
  BY <1>0, <1>5, SMT DEF SendRenewal, ReplyInPhase
<1>6. CASE RenewalFails
  BY <1>6 DEF RenewalFails, ReplyInPhase
<1>7. CASE ReceiveRenewal
  <2>1. ReplyInPhase'
    BY <1>7 DEF ReceiveRenewal, ReplyInPhase
  <2>2. ReplyInPhase => window' <= phase \/ (window' = window /\ acknowledged' = acknowledged)
    BY <1>7, WindowInPhase
  <2>3. /\ UNCHANGED <<attState, phase, requested, revision>>
        /\ UNCHANGED launchVars
        /\ acknowledged' \in {acknowledged, revision}
        /\ acknowledged' = acknowledged \/ revision > acknowledged
    BY <1>7 DEF ReceiveRenewal, Refreshed
  <2> QED BY <1>0, <2>1, <2>2, <2>3, SMT
<1>8. CASE RenewalEnds
  BY <1>0, <1>8, LeaseAssumption DEF RenewalEnds, ReplyInPhase
<1>9. CASE PrepareLaunch
  BY <1>0, <1>9, LeaseAssumption DEF PrepareLaunch, ReplyInPhase
<1>10. CASE SendReport
  BY <1>0, <1>10, LeaseAssumption DEF SendReport, ReplyInPhase
<1>11. CASE ReportFails
  BY <1>0, <1>11, LeaseAssumption DEF ReportFails, Reporting, ReplyInPhase
<1>12. CASE ReceiveReport
  BY <1>0, <1>12, LeaseAssumption, SMT DEF ReceiveReport, ReplyInPhase
<1>13. CASE StartContainer
  BY <1>0, <1>13, LeaseAssumption DEF StartContainer, ReplyInPhase
<1>14. CASE Inspect
  BY <1>0, <1>14, LeaseAssumption, SMT DEF Inspect, ReplyInPhase
<1>15. CASE RefreshDone
  <2>1. /\ stage = "refreshRunning" \/ stage = "refreshFinalizing"
        /\ stage = "refreshRunning" => stage' = "running" /\ acknowledged >= requested
        /\ stage = "refreshFinalizing" => stage' = "finalizing"
        /\ UNCHANGED <<attState, phase, window, requested, acknowledged, revision, report,
                       strayReports, local>>
    BY <1>15 DEF RefreshDone
  <2>2. stage = "refreshFinalizing" => bounded'
    BY <1>15 DEF RefreshDone
  <2>3. ReplyInPhase => ReplyInPhase'
    BY <1>15 DEF RefreshDone, ReplyInPhase
  <2>4. stage = "refreshRunning" => ReplyInPhase /\ window <= phase
    BY <1>0, <2>1, SMT
  <2> QED BY <1>0, <2>1, <2>2, <2>3, <2>4
<1>16. CASE ObserveExit
  BY <1>0, <1>16, LeaseAssumption, SMT DEF ObserveExit, ReplyInPhase
<1>17. CASE Publish
  BY <1>0, <1>17, LeaseAssumption DEF Publish, ReplyInPhase
<1>18. CASE Terminate
  BY <1>0, <1>18, LeaseAssumption DEF Terminate, EndWithin
<1>19. CASE Abandon
  BY <1>0, <1>19, LeaseAssumption DEF Abandon, EndWithin
<1>20. CASE ContainerExits
  BY <1>0, <1>20, LeaseAssumption DEF ContainerExits, ReplyInPhase
<1>21. CASE ContainerStopped
  BY <1>0, <1>21, LeaseAssumption, SMT DEF ContainerStopped, ReplyInPhase
<1>22. CASE Tick
  <2>1. /\ phase' = Countdown(phase) /\ window' = Countdown(window) /\ local' = Countdown(local)
        /\ UNCHANGED <<attState, requested, acknowledged, revision, stage, report,
                       strayReports, bounded>>
    BY <1>22 DEF Tick
  <2>2. /\ window <= phase => window' <= phase'
        /\ local <= phase => local' <= phase'
        /\ local' <= local /\ local' \in Nat
    BY <1>0, <2>1, SMT DEF Countdown
  <2>3. ReplyInPhase => ReplyInPhase'
    <3>1. reply.phase \in Nat /\ InitialLease \in Nat
      BY LeaseAssumption DEF Inside, TypeOK, TimesOK, Grants
    <3>2. call' = call /\ reply' = reply /\ age' = IF call = "none" THEN 0 ELSE Lesser(age + 1, InitialLease)
      BY <1>22 DEF Tick
    <3> QED BY <1>0, <2>1, <3>1, <3>2, SMT DEF ReplyInPhase, Countdown, Lesser
  <2> QED BY <1>0, <2>1, <2>2, <2>3, LeaseAssumption, SMT
<1>23. CASE UNCHANGED vars
  BY <1>23, SMT DEF vars, ReplyInPhase
<1> QED BY <1>1, <1>2, <1>3, <1>4, <1>5, <1>6, <1>7, <1>8, <1>9, <1>10, <1>11,
         <1>12, <1>13, <1>14, <1>15, <1>16, <1>17, <1>18, <1>19, <1>20,
         <1>21, <1>22, <1>23 DEF Next, ServerStep, WorkerStep

(* While the worker runs the container or publishes, the deadline of the    *)
(* phase has not passed on the server, whatever was lost or late            *)
(* (PhaseDeadline, report, refresh).                                        *)
THEOREM PhaseRespected == Spec => []ActsWithinPhase
<1>1. Spec => []Within
  BY InsideHolds, WithinInit, WithinStep, PTL DEF Spec
<1>2. ASSUME Inside, Within PROVE ActsWithinPhase
  <2>1. phase \in Nat /\ window \in Nat /\ local \in Nat
    BY <1>2 DEF Inside, TypeOK, TimesOK
  <2>2. container = "running" =>
          stage \in {"launched", "toRunning", "refreshRunning", "running"}
    BY <1>2 DEF Inside, ContainerInsideLease
  <2> QED BY <1>2, <2>1, <2>2, SMT DEF Within, ActsWithinPhase, Allowed, Live, NotYetRunning,
               BeforeRunning, GrantsInPhase, ReportingRunning, RefreshingRunning, NowRunning,
               NowFinalizing
<1> QED BY <1>1, <1>2, InsideHolds, PTL
=============================================================================
