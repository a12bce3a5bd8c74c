------------------------------ MODULE Outcomes ------------------------------
(***************************************************************************)
(* The outcomes service: two models, kept in memory and in one file each,   *)
(* retrained on request and loaded when the service starts; the retention   *)
(* surveys of a placement and their score.                                 *)
(*                                                                         *)
(* Operators marked [fault] are wrong versions of the one that follows     *)
(* them, used to check the properties.                                     *)
(***************************************************************************)
EXTENDS Integers, Sequences, FiniteSets, SequencesExt, FiniteSetsExt

CONSTANTS
    Scores,         \* values of "score" in a response
    MaxTrainings, MaxStops      \* bounds: models trained; stops of the service

ASSUME OutcomesAssumption == Scores \cup {MaxStops} \subseteq Nat /\ MaxTrainings \in Nat \ {0}

FeatureSets == {"placement_success", "offer_acceptance"}

Missing   == 0      \* retrained models are numbered from 2
Synthetic == 1      \* what a start trains: always the same rows
Torn      == -1     \* a file that was cut off while it was written

VARIABLES
    loaded,     \* _state: feature set -> version, or Missing
    file,       \* feature set -> version, Missing or Torn
    serving,    \* "starting", "up", "down", or "broken": it cannot start
    training,   \* the model being stored: <<feature set, version, where>>
    trained,    \* the number of the last model
    retrained,  \* feature set -> the last version a client was told of
    survey, stops

outcomeVars == <<loaded, file, serving, training, trained, retrained, survey, stops>>

OutcomesInit ==
    /\ loaded = [f \in FeatureSets |-> Missing] /\ file = loaded /\ retrained = loaded
    /\ serving = "down" /\ training = <<>> /\ trained = Synthetic /\ survey = <<>> /\ stops = 0

-----------------------------------------------------------------------------
(* The models.                                                             *)

Launch ==
    /\ serving = "down"
    /\ serving' = "starting"
    /\ UNCHANGED <<loaded, file, training, trained, retrained, survey, stops>>

\* [fault] any error makes the service train again.
NothingToLoad(f) == file[f] \in {Missing, Torn}

\* except FileNotFoundError
MustTrain(f) == file[f] = Missing

\* A new model goes to its file, which is opened, and so emptied, and written.
train(f, v) == training' = <<f, v, "open">>

\* For one name after the other: load, or train on synthetic rows and save.  Any
\* other error while loading ends the start.
lifespan(f) ==
    /\ serving = "starting" /\ training = <<>> /\ loaded[f] = Missing
    /\ f = "offer_acceptance" => loaded["placement_success"] # Missing
    /\ IF MustTrain(f) THEN train(f, Synthetic) /\ UNCHANGED <<loaded, serving>>
       ELSE /\ IF file[f] = Torn
               THEN serving' = "broken" /\ UNCHANGED loaded
               ELSE /\ loaded' = [loaded EXCEPT ![f] = file[f]]
                    /\ serving' = IF f = "offer_acceptance" THEN "up" ELSE "starting"
            /\ UNCHANGED training
    /\ UNCHANGED <<file, trained, retrained, survey, stops>>

\* Nothing is awaited from here to the answer: no other request comes between.
retrain(f) ==
    /\ serving = "up" /\ training = <<>> /\ trained < MaxTrainings
    /\ trained' = trained + 1 /\ train(f, trained')
    /\ UNCHANGED <<loaded, file, serving, retrained, survey, stops>>

save ==
    /\ training # <<>>
    /\ LET f == training[1]
           v == training[2]
       IN \/ /\ training[3] = "open"
             /\ file' = [file EXCEPT ![f] = Torn] /\ training' = <<f, v, "write">>
          \/ /\ training[3] = "write"
             /\ file' = [file EXCEPT ![f] = v] /\ training' = <<f, v, "swap">>
    /\ UNCHANGED <<loaded, serving, trained, retrained, survey, stops>>

\* _state[feature_set] = predictor, and the answer; a start goes on.
Swap ==
    /\ training # <<>> /\ training[3] = "swap"
    /\ LET f == training[1]
       IN  /\ loaded' = [loaded EXCEPT ![f] = training[2]]
           /\ retrained' = IF serving = "up" THEN [retrained EXCEPT ![f] = training[2]] ELSE retrained
           /\ serving' = IF f = "offer_acceptance" THEN "up" ELSE serving
    /\ training' = <<>>
    /\ UNCHANGED <<file, trained, survey, stops>>

\* The service is stopped or killed at any moment; its files stay.
Stop ==
    /\ serving \in {"starting", "up"} /\ stops < MaxStops
    /\ stops' = stops + 1 /\ serving' = "down" /\ training' = <<>>
    /\ loaded' = [f \in FeatureSets |-> Missing]
    /\ UNCHANGED <<file, trained, retrained, survey>>

-----------------------------------------------------------------------------
(* Retention.                                                              *)

NoScore == -1

\* A response without a score, or with one that is no number, is no score;
\* zero is one.
_score(response) == IF response \in Scores THEN response ELSE NoScore

\* [fault] zero counts as no score.
Truthy(scores) == {i \in DOMAIN scores : scores[i] > 0}

Given(scores) == {i \in DOMAIN scores : scores[i] # NoScore}

\* The average as sum and number of scores; nothing is the average of none.
score_satisfaction(candidate, manager) ==
    LET scores == <<_score(candidate), _score(manager)>>
    IN  [total |-> SumFunctionOnSet(scores, Given(scores)), count |-> Cardinality(Given(scores))]

retention_score ==
    /\ serving = "up" /\ training = <<>> /\ survey = <<>>
    /\ \E candidate, manager \in Scores \cup {NoScore} :
            survey' = <<[candidate |-> candidate, manager |-> manager,
                         average |-> score_satisfaction(candidate, manager)]>>
    /\ UNCHANGED <<loaded, file, serving, training, trained, retrained, stops>>

OutcomesNext ==
    \/ Launch \/ save \/ Swap \/ Stop \/ retention_score
    \/ \E f \in FeatureSets : lifespan(f) \/ retrain(f)

-----------------------------------------------------------------------------
(* Properties.                                                             *)

OutcomesTypeOK ==
    /\ loaded \in [FeatureSets -> 0..MaxTrainings] /\ file \in [FeatureSets -> -1..MaxTrainings]
    /\ retrained \in [FeatureSets -> 0..MaxTrainings] /\ trained \in 0..MaxTrainings
    /\ serving \in {"starting", "up", "down", "broken"}
    /\ training # <<>> => training[1] \in FeatureSets /\ training[2] \in 1..trained
    /\ serving = "up" => \A f \in FeatureSets : loaded[f] # Missing

\* A client that was told of a retrained model is served by it, or by a newer
\* one, whenever the service is up, over any number of crashes; a crash while a
\* file is written costs the service, never the model in silence.
RetrainedIsServed ==
    serving = "up" => \A f \in FeatureSets : loaded[f] >= retrained[f]

\* The average of a survey lies between the scores that were given; who did not
\* answer neither lowers nor raises it.
AverageBetweenScores ==
    \A s \in ToSet(survey) :
        LET given == {s.candidate, s.manager} \cap Scores
        IN  IF given = {} THEN s.average.count = 0
            ELSE /\ s.average.count > 0
                 /\ Min(given) * s.average.count <= s.average.total
                 /\ s.average.total <= Max(given) * s.average.count
                 /\ Cardinality(given) = 2 =>
                        /\ Min(given) * s.average.count < s.average.total
                        /\ s.average.total < Max(given) * s.average.count

=============================================================================
