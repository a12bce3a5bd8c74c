------------------------------ MODULE Outreach ------------------------------
(***************************************************************************)
(* The outreach service and one candidate under one of its sequences:      *)
(* materialise, next_step, the channels, and the close-protection agent    *)
(* from one await of handle_response to the next.  "The HTTP boundary is   *)
(* stateless; clients persist their own state" (main.py): the client, which *)
(* is external, keeps the step instances (book), asks for the next due step, *)
(* sends it and marks it, posts its copy with every reply, gives up on an  *)
(* answer that is late and stores the one that comes.  It never sends while *)
(* it waits for an answer.                                                 *)
(*                                                                         *)
(* Operators marked [fault] are wrong versions of the one that follows     *)
(* them, used to check the properties.                                     *)
(***************************************************************************)
EXTENDS Providers, FiniteSets, SequencesExt, FiniteSetsExt

CONSTANTS
    Plans,          \* keys of SEQUENCES that are started
    Texts,          \* replies, each the set of the keyword lists it matches
    LlmLabels,      \* labels the light model may answer; unknown if no JSON
    MaxReplies,     \* bound: requests to /v1/close/response
    MaxOutages      \* bound: failed calls and restarts

Keywords == {"ooo", "counter", "no", "reroute", "timing", "yes"}
Labels   == {"interested", "timing_not_right", "not_interested", "wrong_fit_route",
             "counteroffer_signal", "ooo", "unknown"}

Step(channel, hours) == [channel |-> channel, hours |-> hours]
SEQUENCES == [
    precision_outreach |-> <<Step("email", 0), Step("linkedin", 24), Step("email", 72),
                             Step("email", 168), Step("email", 336)>>,
    velocity_outreach  |-> <<Step("sms", 0), Step("phone", 4), Step("email", 24)>>,
    close_protection   |-> <<Step("email", 24), Step("email", 72), Step("sms", 168),
                             Step("email", 240), Step("email", 336), Step("email", 504),
                             Step("sms", 672)>>]

ASSUME OutreachAssumption ==
    /\ Plans \subseteq DOMAIN SEQUENCES /\ Texts \subseteq SUBSET Keywords
    /\ {MaxReplies, MaxOutages} \subseteq Nat

VARIABLES
    plan,       \* the sequence's key
    now,        \* hours since it was started
    book,       \* the client's instances, in the order of the steps
    touches,    \* steps the client marked as sent, in order
    replies,    \* requests to /v1/close/response, in order
    awaiting,   \* the request the client waits for, or 0
    ended,      \* -1, or the number of touches when a falloff was stored
    outages

outreachVars == <<plan, now, book, touches, replies, awaiting, ended, outages>>

Instance == [status : {"pending", "sent", "skipped"}, response : LlmLabels \cup Labels \cup {"none"}]
Await    == {"classify", "replied", "falloff", "audit"}
Stores   == Await \ {"classify"}
Reply    == [text : Texts, copy : Seq(Instance), pc : Await \cup {"done", "error"},
             label : LlmLabels \cup Labels, did : SUBSET Stores]

materialise(p) == [i \in DOMAIN SEQUENCES[p] |-> [status |-> "pending", response |-> "none"]]

OutreachInit ==
    /\ plan \in Plans /\ now = 0 /\ book = materialise(plan) /\ touches = <<>>
    /\ replies = <<>> /\ awaiting = 0 /\ ended = -1 /\ outages = 0

Outage == outages < MaxOutages /\ outages' = outages + 1

-----------------------------------------------------------------------------
(* Sequences and channels.                                                 *)

Due(instances) ==
    {i \in DOMAIN instances :
        instances[i].status = "pending" /\ SEQUENCES[plan][i].hours <= now}

\* [fault] the latest due step.
LatestOf(due) == CHOOSE i \in due : \A j \in due : SEQUENCES[plan][j].hours <= SEQUENCES[plan][i].hours

\* candidates.sort(key=fire_at): the first of those that are due the longest.
next_step(due) ==
    CHOOSE i \in due : \A j \in due :
        \/ SEQUENCES[plan][i].hours < SEQUENCES[plan][j].hours
        \/ SEQUENCES[plan][i].hours = SEQUENCES[plan][j].hours /\ i <= j

\* The client sends the next due step.  Providers report failure for whatever
\* goes wrong, and the step stays pending.
SendDue ==
    /\ awaiting = 0 /\ Due(book) # {}
    /\ LET i == next_step(Due(book))
       IN \/ /\ book' = [book EXCEPT ![i].status = "sent"]
             /\ touches' = Append(touches, i)
             /\ UNCHANGED outages
          \/ /\ select_channel(SEQUENCES[plan][i].channel) \in {"sendgrid", "smtp", "twilio"}
             /\ Outage /\ UNCHANGED <<book, touches>>
    /\ UNCHANGED <<plan, now, replies, awaiting, ended>>

\* Time passes; the client may have slept over steps.
Tick ==
    /\ \E i \in DOMAIN SEQUENCES[plan] :
        SEQUENCES[plan][i].hours > now /\ now' = SEQUENCES[plan][i].hours
    /\ UNCHANGED <<plan, book, touches, replies, awaiting, ended, outages>>

-----------------------------------------------------------------------------
(* Classification and close protection.                                    *)

classify_heuristic(text) ==
    IF "ooo" \in text THEN "ooo"
    ELSE IF "counter" \in text THEN "counteroffer_signal"
    ELSE IF "no" \in text THEN "not_interested"
    ELSE IF "reroute" \in text /\ "yes" \notin text THEN "wrong_fit_route"
    ELSE IF "timing" \in text THEN "timing_not_right"
    ELSE IF "yes" \in text THEN "interested"
    ELSE "unknown"

Falloff(label) == label \in {"counteroffer_signal", "not_interested"}

\* [fault] the sequence is stopped with the label of the reply.
OwnLabel(label) == label

\* Close protection stops its sequence with a class of its own choice.
StopClass(label) == "not_interested"

stop_on_response(instances, response) ==
    IF response \notin {"interested", "not_interested", "wrong_fit"} THEN instances
    ELSE [i \in DOMAIN instances |->
            IF instances[i].status = "pending" THEN [instances[i] EXCEPT !.status = "skipped"]
            ELSE instances[i]]

\* The response goes to the last step that was sent, if there is one.
Recorded(instances, label) ==
    [i \in DOMAIN instances |->
        IF /\ instances[i].status = "sent"
           /\ \A j \in DOMAIN instances : instances[j].status = "sent" => j <= i
        THEN [instances[i] EXCEPT !.response = label] ELSE instances[i]]

\* _instances_from_state(_instance_to_dict(...)): status and response survive.
Rebuilt(rows) == [i \in DOMAIN rows |-> [status |-> rows[i].status, response |-> rows[i].response]]

Arrive(text) ==
    /\ Len(replies) < MaxReplies
    /\ replies' = Append(replies, [text |-> text, copy |-> Rebuilt(book), pc |-> "classify",
                                   label |-> "unknown", did |-> {}])
    /\ awaiting' = Len(replies) + 1
    /\ UNCHANGED <<plan, now, book, touches, ended>>

\* The client posts a reply of the candidate with its copy of the instances.
PostReply(text) ==
    /\ plan = "close_protection" /\ awaiting = 0
    /\ Arrive(text) /\ UNCHANGED outages

\* The client waits no longer and posts the reply again; the first request goes
\* on in the service.
Repeat == awaiting # 0 /\ Outage /\ Arrive(replies[awaiting].text)

Fail(rs) ==
    /\ replies' = [r \in DOMAIN replies |-> IF r \in rs THEN [replies[r] EXCEPT !.pc = "error"] ELSE replies[r]]
    /\ awaiting' = IF awaiting \in rs THEN 0 ELSE awaiting
    /\ UNCHANGED <<plan, now, book, touches, ended>>

\* The keywords decide; what they leave unknown goes to the model, whose label
\* is taken as it is and whose errors end the request.
Classify(r) ==
    /\ replies[r].pc = "classify"
    /\ LET known == classify_heuristic(replies[r].text)
       IN \/ /\ \E label \in IF known # "unknown" THEN {known} ELSE LlmLabels :
                 replies' = [replies EXCEPT ![r].pc = "replied", ![r].label = label]
             /\ UNCHANGED <<plan, now, book, touches, awaiting, ended, outages>>
          \/ known = "unknown" /\ Outage /\ Fail({r})

\* [fault] the falloff event is the last record.
EventOnly(pc, label) == IF pc = "replied" /\ Falloff(label) THEN "falloff" ELSE "done"

\* The records handle_response makes, one await after the other.
After(pc, label) ==
    CASE pc = "replied" /\ Falloff(label)  -> "falloff"
      [] pc = "replied" /\ ~Falloff(label) -> "done"
      [] pc = "falloff" -> "audit"
      [] pc = "audit"   -> "done"

\* Behind the last await: steps skipped, response recorded, answer sent.  The
\* client stores the answer if it still waits for it.
Answer(r, did) ==
    LET label == replies[r].label
        final == Recorded(IF Falloff(label) THEN stop_on_response(replies[r].copy, StopClass(label))
                          ELSE replies[r].copy, label)
    IN  /\ replies' = [replies EXCEPT ![r].pc = "done", ![r].did = did, ![r].copy = final]
        /\ IF awaiting = r
           THEN /\ book' = final /\ awaiting' = 0
                /\ ended' = IF Falloff(label) /\ ended = -1 THEN Len(touches) ELSE ended
           ELSE UNCHANGED <<book, awaiting, ended>>

\* An event or the audit entry is stored, or its loss is only logged.
Store(r) ==
    /\ replies[r].pc \in Stores
    /\ \E lost \in BOOLEAN :
        LET pc   == replies[r].pc
            did  == IF lost THEN replies[r].did ELSE replies[r].did \cup {pc}
            goto == After(pc, replies[r].label)
        IN  /\ IF lost THEN Outage ELSE UNCHANGED outages
            /\ IF goto = "done" THEN Answer(r, did)
               ELSE /\ replies' = [replies EXCEPT ![r].pc = goto, ![r].did = did]
                    /\ UNCHANGED <<book, awaiting, ended>>
    /\ UNCHANGED <<plan, now, touches>>

\* The service restarts; it keeps nothing but the requests it is at.
OutreachRestart ==
    LET open == {r \in DOMAIN replies : replies[r].pc \in Await}
    IN  open # {} /\ Outage /\ Fail(open)

OutreachNext ==
    \/ Tick \/ SendDue \/ Repeat \/ OutreachRestart
    \/ \E text \in Texts : PostReply(text)
    \/ \E r \in DOMAIN replies : Classify(r) \/ Store(r)

-----------------------------------------------------------------------------
(* Properties.                                                             *)

OutreachTypeOK ==
    /\ plan \in Plans /\ now \in Nat /\ book \in Seq(Instance) /\ replies \in Seq(Reply)
    /\ touches \in Seq(DOMAIN book) /\ Len(book) = Len(SEQUENCES[plan])
    /\ awaiting \in 0..Len(replies) /\ ended \in -1..Len(touches) /\ outages \in 0..MaxOutages

\* The candidate gets the steps in the order of the sequence and none twice,
\* although the client sleeps over steps, sends fail, and the instances travel
\* to the service and back with every reply, some of them in vain.
TouchesInOrder == \A i, j \in DOMAIN touches : i < j => touches[i] < touches[j]

\* Once the client has stored a falloff, nothing is sent any more, and whoever
\* mentions a counteroffer or says no (and is not out of the office) has
\* fallen off when the request is answered.
NoTouchAfterFalloff ==
    /\ ended # -1 => Len(touches) = ended
    /\ \A r \in DOMAIN replies :
        /\ replies[r].pc = "done" /\ "ooo" \notin replies[r].text
        /\ replies[r].text \cap {"counter", "no"} # {}
        => \A i \in DOMAIN book : replies[r].copy[i].status # "pending"

\* A falloff that the client hears of is in the event log (reply and falloff)
\* and in the audit log, but for records lost in an outage.
FalloffRecorded ==
    \A r \in DOMAIN replies :
        replies[r].pc = "done" /\ replies[r].label \in {"counteroffer_signal", "not_interested"}
            => Cardinality(Stores \ replies[r].did) <= outages

\* What a candidate says stops what the client sends, in order and on record.
SequenceHonoured == TouchesInOrder /\ NoTouchAfterFalloff /\ FalloffRecorded

=============================================================================
