------------------------------ MODULE Platform ------------------------------
(***************************************************************************)
(* The smaller services of the platform side by side.  They share no        *)
(* process, memory or table, so a step of one changes nothing of another,   *)
(* and the properties of each speak of its own state alone: it is enough to *)
(* look at the behaviours in which one of them, active, takes all steps.    *)
(***************************************************************************)
EXTENDS SilverPool, PipelineMonitor, RemoteCalls, Outreach, AbTest, Interview, CandidateStore,
        Ownership, Workforce, Outcomes, Bench, Advisory, Capture, Migrations

Services == {"pool", "stages", "monitor", "calls", "outreach", "ab", "interview", "candidates",
             "ownership", "workforce", "outcomes", "bench", "advisory", "capture", "migrations"}

VARIABLE active     \* the service that takes the steps

platformVars == <<active, poolVars, stageVars, monitorVars, callVars, outreachVars, arms, interviewVars,
    candidateVars, ownershipVars, workforceVars, outcomeVars, benchVars, advisoryVars, captureVars,
    migrationVars>>

\* The sequence of the candidate is chosen for the active service only.
PlatformInit ==
    /\ active \in Services
    /\ PoolInit /\ StagesInit /\ MonitorInit /\ CallsInit /\ OutreachInit /\ AbInit /\ InterviewInit
    /\ CandidatesInit /\ OwnershipInit /\ WorkforceInit /\ OutcomesInit /\ BenchInit /\ AdvisoryInit
    /\ CaptureInit /\ MigrationsInit
    /\ active # "outreach" => plan = "close_protection"

PlatformNext ==
    \/ /\ active = "pool" /\ PoolNext /\ UNCHANGED active
       /\ UNCHANGED <<stageVars, monitorVars, callVars, outreachVars, arms, interviewVars,
                            candidateVars, ownershipVars, workforceVars, outcomeVars, benchVars,
                            advisoryVars, captureVars, migrationVars>>
    \/ /\ active = "stages" /\ StagesNext /\ UNCHANGED active
       /\ UNCHANGED <<poolVars, monitorVars, callVars, outreachVars, arms, interviewVars,
                            candidateVars, ownershipVars, workforceVars, outcomeVars, benchVars,
                            advisoryVars, captureVars, migrationVars>>
    \/ /\ active = "monitor" /\ MonitorNext /\ UNCHANGED active
       /\ UNCHANGED <<poolVars, stageVars, callVars, outreachVars, arms, interviewVars,
                            candidateVars, ownershipVars, workforceVars, outcomeVars, benchVars,
                            advisoryVars, captureVars, migrationVars>>
    \/ /\ active = "calls" /\ CallsNext /\ UNCHANGED active
       /\ UNCHANGED <<poolVars, stageVars, monitorVars, outreachVars, arms, interviewVars,
                            candidateVars, ownershipVars, workforceVars, outcomeVars, benchVars,
                            advisoryVars, captureVars, migrationVars>>
    \/ /\ active = "outreach" /\ OutreachNext /\ UNCHANGED active
       /\ UNCHANGED <<poolVars, stageVars, monitorVars, callVars, arms, interviewVars,
                            candidateVars, ownershipVars, workforceVars, outcomeVars, benchVars,
                            advisoryVars, captureVars, migrationVars>>
    \/ /\ active = "ab" /\ AbNext /\ UNCHANGED active
       /\ UNCHANGED <<poolVars, stageVars, monitorVars, callVars, outreachVars, interviewVars,
                            candidateVars, ownershipVars, workforceVars, outcomeVars, benchVars,
                            advisoryVars, captureVars, migrationVars>>
    \/ /\ active = "interview" /\ InterviewNext /\ UNCHANGED active
       /\ UNCHANGED <<poolVars, stageVars, monitorVars, callVars, outreachVars, arms,
                            candidateVars, ownershipVars, workforceVars, outcomeVars, benchVars,
                            advisoryVars, captureVars, migrationVars>>
    \/ /\ active = "candidates" /\ CandidatesNext /\ UNCHANGED active
       /\ UNCHANGED <<poolVars, stageVars, monitorVars, callVars, outreachVars, arms,
                            interviewVars, ownershipVars, workforceVars, outcomeVars, benchVars,
                            advisoryVars, captureVars, migrationVars>>
    \/ /\ active = "ownership" /\ OwnershipNext /\ UNCHANGED active
       /\ UNCHANGED <<poolVars, stageVars, monitorVars, callVars, outreachVars, arms,
                            interviewVars, candidateVars, workforceVars, outcomeVars, benchVars,
                            advisoryVars, captureVars, migrationVars>>
    \/ /\ active = "workforce" /\ WorkforceNext /\ UNCHANGED active
       /\ UNCHANGED <<poolVars, stageVars, monitorVars, callVars, outreachVars, arms,
                            interviewVars, candidateVars, ownershipVars, outcomeVars, benchVars,
                            advisoryVars, captureVars, migrationVars>>
    \/ /\ active = "outcomes" /\ OutcomesNext /\ UNCHANGED active
       /\ UNCHANGED <<poolVars, stageVars, monitorVars, callVars, outreachVars, arms,
                            interviewVars, candidateVars, ownershipVars, workforceVars, benchVars,
                            advisoryVars, captureVars, migrationVars>>
    \/ /\ active = "bench" /\ BenchNext /\ UNCHANGED active
       /\ UNCHANGED <<poolVars, stageVars, monitorVars, callVars, outreachVars, arms,
                            interviewVars, candidateVars, ownershipVars, workforceVars, outcomeVars,
                            advisoryVars, captureVars, migrationVars>>
    \/ /\ active = "advisory" /\ AdvisoryNext /\ UNCHANGED active
       /\ UNCHANGED <<poolVars, stageVars, monitorVars, callVars, outreachVars, arms,
                            interviewVars, candidateVars, ownershipVars, workforceVars, outcomeVars,
                            benchVars, captureVars, migrationVars>>
    \/ /\ active = "capture" /\ CaptureNext /\ UNCHANGED active
       /\ UNCHANGED <<poolVars, stageVars, monitorVars, callVars, outreachVars, arms,
                            interviewVars, candidateVars, ownershipVars, workforceVars, outcomeVars,
                            benchVars, advisoryVars, migrationVars>>
    \/ /\ active = "migrations" /\ MigrationsNext /\ UNCHANGED active
       /\ UNCHANGED <<poolVars, stageVars, monitorVars, callVars, outreachVars, arms,
                            interviewVars, candidateVars, ownershipVars, workforceVars, outcomeVars,
                            benchVars, advisoryVars, captureVars>>

PlatformSpec == PlatformInit /\ [][PlatformNext]_platformVars

PlatformTypeOK ==
    /\ PoolTypeOK /\ StagesTypeOK /\ MonitorTypeOK /\ CallsTypeOK /\ OutreachTypeOK /\ AbTypeOK
    /\ InterviewTypeOK /\ CandidatesTypeOK /\ OwnershipTypeOK /\ WorkforceTypeOK /\ OutcomesTypeOK
    /\ BenchTypeOK /\ AdvisoryTypeOK /\ CaptureTypeOK /\ MigrationsTypeOK

-----------------------------------------------------------------------------
(* What the services promise about one kind of hazard, each for its own part.  *)

\* Requests that are repeated and answers that are lost: who is told of a success
\* got it, and without a fault none of it happens twice for a client who asks once.
EffectsExplained == SuccessIsReal /\ EffectsNeedFaults /\ DuplicatesNeedLoss

\* Processes that stop anywhere: whenever the model service is up it serves what
\* was retrained, PostgreSQL has whole migration files, and a package misses only
\* letters that a restart lost.
RestartsRecover == RetrainedIsServed /\ FilesWhole /\ Repeatable /\ PackageMissesOnlyLost

\* Time passes and nobody acts: alerts and exposure do not ease off, the breach of
\* a stage of four days or more is announced, and a score that grew old is too
\* good, never too bad.
TimeNeverEases == AlertsEscalate /\ WarnedBeforeBreach /\ ExposureOnlyGrows /\ ScoreOnlyOverstates

\* Ties, empty inputs and limits: a winner, a route, a blamed stage, alerts, counts
\* and averages are those a plain definition over all inputs gives, and search
\* hits meet their query.
ChoicesAreBest ==
    /\ WinnerIsBetter /\ RoutedToTheBest /\ BlamesTheWorst /\ HitsMeetTheQuery /\ UrgentFirst
    /\ MapCountsAll /\ AverageBetweenScores

\* What is judged from answers that came at different moments, or in two ways:
\* ownership by its bundle and its checks, a requisition by its two rules, an
\* opportunity by the people counted for it.
VerdictsAgree == BundleAgrees /\ ReportAgreesWithRules /\ InfeasibleIsShort

=============================================================================
