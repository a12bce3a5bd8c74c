---------------------------- MODULE RemoteCalls ----------------------------
(***************************************************************************)
(* Requests whose effect is outside: a submission to the ATS, a calendar    *)
(* event, a voice call, a message, a background check.  No request carries  *)
(* an idempotency key.  The caller asks again for an item while it has not  *)
(* been told of a success; the provider may act after the service has given *)
(* up on its answer.  Mocks keep what they are asked for in memory.         *)
(*                                                                         *)
(* Operators marked [fault] are wrong versions of the one that follows     *)
(* them, used to check the properties.                                     *)
(***************************************************************************)
EXTENDS Providers, FiniteSets, SequencesExt

CONSTANTS
    Items,          \* what a caller wants done once: a candidate, a slot, ...
    NotNumbers,     \* the items whose ATS job id is not a number
    MaxCalls,       \* bound: requests
    MaxFaults       \* bound: lost or garbled answers and restarts

ASSUME CallsAssumption == NotNumbers \subseteq Items /\ {MaxCalls, MaxFaults} \subseteq Nat

VARIABLES
    calls,      \* the requests, in order
    remote,     \* the calls the provider acted on, in order
    memory,     \* items the mock has captured since the service started
    run,        \* number of starts of the service
    faults

callVars == <<calls, remote, memory, run, faults>>

Operations == {"ats", "calendar", "voice", "email", "sms", "linkedin", "background"}
Told       == {"success", "failure", "raised"}

\* sent: the service awaits the answer; open: the provider may still act.
Call == [op : Operations, item : Items, via : Configured \cup {"smtp", "mock"},
         pc : {"sent"} \cup Told, open : BOOLEAN, id : Nat, run : Nat]

CallsInit == calls = <<>> /\ remote = <<>> /\ memory = <<>> /\ run = 1 /\ faults = 0

Fault == faults < MaxFaults /\ faults' = faults + 1

\* The caller has one request of an item under way, and none after a success.
Wanted(item) ==
    /\ Len(calls) < MaxCalls
    /\ \A n \in DOMAIN calls : calls[n].item = item => calls[n].pc \in {"failure", "raised"}

Record(op, item, via, pc, id) ==
    calls' = Append(calls, [op |-> op, item |-> item, via |-> via, pc |-> pc,
                            open |-> pc = "sent", id |-> id, run |-> run])

\* case_id, event_id, call_id, external_id of a mock: counted from 1.
MockId(captured) == Len(captured) + 1

\* The mock of the background checks finds a case by its id alone.
fetch_status(id) == IF id \in DOMAIN memory THEN memory[id] ELSE "not_found"

\* A mock takes everything and answers at once.
MockCapture(op, item) ==
    /\ memory' = Append(memory, item)
    /\ Record(op, item, "mock", "success", MockId(memory))
    /\ UNCHANGED <<remote, run, faults>>

Post(op, item, via) ==
    /\ Wanted(item)
    /\ IF via = "mock" THEN MockCapture(op, item)
       ELSE Record(op, item, via, "sent", 0) /\ UNCHANGED <<remote, memory, run, faults>>

\* The job id is made an integer before anything is sent.
ats_submit(item) ==
    IF select_adapter = "greenhouse" /\ item \in NotNumbers
    THEN /\ Wanted(item) /\ Record("ats", item, "greenhouse", "raised", 0)
         /\ UNCHANGED <<remote, memory, run, faults>>
    ELSE Post("ats", item, select_adapter)

calendar_book(item) == Post("calendar", item, select_calendar)
voice_start(item)   == Post("voice", item, select_voice)

\* A channel is made for every message, its mock as well, which is then dropped
\* with what it captured.
send(channel, item) ==
    IF select_channel(channel) # "mock" THEN Post(channel, item, select_channel(channel))
    ELSE /\ Wanted(item) /\ Record(channel, item, "mock", "success", MockId(<<>>))
         /\ UNCHANGED <<remote, memory, run, faults>>

compliance_background_initiate(item) == Post("background", item, select_background)

\* A request uses one operation for all of its items here: operations share
\* nothing but the shape of their handlers.
Started == IF calls = <<>> THEN Operations ELSE {calls[1].op}

Request(item) ==
    \/ "ats" \in Started        /\ ats_submit(item)
    \/ "calendar" \in Started   /\ calendar_book(item)
    \/ "voice" \in Started      /\ voice_start(item)
    \/ "background" \in Started /\ compliance_background_initiate(item)
    \/ \E channel \in Started \cap {"email", "sms", "linkedin"} : send(channel, item)

\* The provider acts, once per request, perhaps after the service gave up.
Act(n) ==
    /\ calls[n].open
    /\ remote' = Append(remote, n)
    /\ calls' = [calls EXCEPT ![n].open = FALSE, ![n].id = Len(remote) + 1]
    /\ UNCHANGED <<memory, run, faults>>

\* What the providers answer when they acted.
Accepted == [greenhouse |-> 201, google |-> 200, vapi |-> 201, sendgrid |-> 202,
             twilio |-> 201, smtp |-> 250]

Answered(n, r) ==
    calls' = [calls EXCEPT ![n].pc = Translated(calls[n].via, r),
                           ![n].open = @ /\ r.status = 0]

Response(n) ==
    /\ calls[n].pc = "sent"
    /\ \/ \* it acted and says so
          /\ n \in ToSet(remote)
          /\ Answered(n, [status |-> Accepted[calls[n].via], json |-> TRUE])
          /\ UNCHANGED faults
       \/ \* it refuses, and does nothing
          /\ calls[n].open /\ UNCHANGED faults
          /\ Answered(n, [status |-> 400, json |-> TRUE])
       \/ \* the answer is late or lost, or is no JSON, or an error of a gateway
          /\ Fault
          /\ \E r \in {[status |-> 0, json |-> FALSE], [status |-> 502, json |-> FALSE],
                       [status |-> Accepted[calls[n].via], json |-> FALSE]} :
                /\ r.status # 0 => n \in ToSet(remote)
                /\ Answered(n, r)
    /\ UNCHANGED <<remote, memory, run>>

\* The service restarts: the mock forgets, the callers' connections break.
CallsRestart ==
    /\ Fault /\ run' = run + 1 /\ memory' = <<>>
    /\ calls' = [n \in DOMAIN calls |->
                    IF calls[n].pc = "sent" THEN [calls[n] EXCEPT !.pc = "failure"] ELSE calls[n]]
    /\ UNCHANGED remote

CallsNext ==
    \/ \E item \in Items : Request(item)
    \/ \E n \in DOMAIN calls : Act(n) \/ Response(n)
    \/ CallsRestart

-----------------------------------------------------------------------------
(* Properties.                                                             *)

CallsTypeOK ==
    /\ calls \in Seq(Call) /\ remote \in Seq(DOMAIN calls) /\ memory \in Seq(Items)
    /\ run \in 1..MaxFaults + 1 /\ faults \in 0..MaxFaults

\* Whoever is told of a success got it: the provider acted on this very request,
\* or the mock finds the candidate under the case id it gave out (until it
\* restarts: then the id may be another candidate's).
SuccessIsReal ==
    \A n \in DOMAIN calls : calls[n].pc = "success" =>
        IF calls[n].via # "mock" THEN n \in ToSet(remote)
        ELSE calls[n].op = "background" /\ calls[n].run = run
                => fetch_status(calls[n].id) = calls[n].item

\* Without idempotency keys a repeated request is a second effect; that takes a
\* fault each time: an item is done at most once more than there were faults,
\* and every effect the caller has not been told of is a fault's.
Effects(item) == {n \in ToSet(remote) : calls[n].item = item}
EffectsNeedFaults ==
    /\ \A item \in Items : Cardinality(Effects(item)) <= 1 + faults
    /\ run = 1 => Cardinality({n \in ToSet(remote) : calls[n].pc \in Told \ {"success"}}) <= faults

=============================================================================
