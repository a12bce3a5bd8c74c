----------------------------- MODULE Providers -----------------------------
(***************************************************************************)
(* The adapters of the services for providers outside: which of them the   *)
(* environment selects, and what each makes of the provider's response.  A  *)
(* response is a status (0: httpx raised HTTPError) and a body that parses  *)
(* as JSON or does not.                                                     *)
(*                                                                         *)
(* Operators marked [fault] are wrong versions of the one that follows     *)
(* them, used to check the properties.                                     *)
(***************************************************************************)
EXTENDS Integers, Sequences

CONSTANT Configured     \* the providers with credentials in the environment

ASSUME ProvidersAssumption ==
    Configured \subseteq {"greenhouse", "google", "vapi", "sendgrid", "twilio", "sterling"}

Chosen(provider, mock) == IF provider \in Configured THEN provider ELSE mock

select_adapter  == Chosen("greenhouse", "mock")
select_calendar == Chosen("google", "mock")
select_voice    == Chosen("vapi", "mock")

\* Both branches return the mock: the real adapter is not written.
select_background == "mock"

\* There is no adapter for the phone (ValueError): the call is a person's.
select_channel(channel) ==
    CASE channel = "email"    -> Chosen("sendgrid", "smtp")
      [] channel = "sms"      -> Chosen("twilio", "mock")
      [] channel = "linkedin" -> "mock"
      [] OTHER                -> "person"

\* What the caller is told: success, failure, or an unhandled exception (500).
\* response.json() is not inside the try.
Parsed(r) == IF r.json THEN "success" ELSE "raised"

GreenhouseSubmit(r) == IF r.status \in {200, 201} THEN Parsed(r) ELSE "failure"
GoogleCreateEvent(r) == IF r.status \in {200, 201} THEN Parsed(r) ELSE "failure"
TwilioSend(r) == IF r.status \in {200, 201} THEN Parsed(r) ELSE "failure"

\* [fault] whatever is answered counts.
AnyAnswer(r) == IF r.status # 0 THEN Parsed(r) ELSE "failure"

VapiStartCall(r) == IF r.status \in {200, 201} THEN Parsed(r) ELSE "failure"

\* [fault] accepted (202) is not taken for a success.
Only200(r) == IF r.status = 200 THEN "success" ELSE "failure"

\* SendGrid accepts with 202, and its message id is in a header.
SendGridSend(r) == IF r.status \in {202, 200} THEN "success" ELSE "failure"

\* Every exception of the SMTP dialogue is caught.
SmtpSend(r) == IF r.status = 250 THEN "success" ELSE "failure"

Translated(provider, r) ==
    CASE provider = "greenhouse" -> GreenhouseSubmit(r)
      [] provider = "google"     -> GoogleCreateEvent(r)
      [] provider = "vapi"       -> VapiStartCall(r)
      [] provider = "sendgrid"   -> SendGridSend(r)
      [] provider = "twilio"     -> TwilioSend(r)
      [] provider = "smtp"       -> SmtpSend(r)

=============================================================================
