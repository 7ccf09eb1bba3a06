------------------------------- MODULE Forms --------------------------------
(***************************************************************************)
(* The forms that store a record in PocketBase: a strategy with its        *)
(* username check (SubmitStrategyForm), a place on the waitlist            *)
(* (InvestorForm in JoinWaitlist) and a message (ContactPage).  The store  *)
(* answers late, with an error, or the answer is lost.                     *)
(***************************************************************************)
EXTENDS Integers, Sequences, FiniteSetsExt

CONSTANTS
    None,
    Names,      \* usernames typed
    Short,      \* those the pattern of usernames refuses
    MaxSent     \* submissions and checks, a bound

VARIABLES
    form,       \* "strategy", "waitlist" or "contact"
    answered,   \* fields that hold what the button or the next field asks for
    name, status, timer,    \* the username, its check, the check not started yet
    checks,     \* names whose check is on its way
    submitting, failed, submitted,
    entered,    \* history: something was submitted without a button
    sent,       \* submissions without an answer yet
    stored,     \* records in the store
    count       \* submissions and checks so far

vars == <<form, answered, name, status, timer, checks, submitting, failed, submitted,
          entered, sent, stored, count>>
check == <<name, status, timer, checks>>

-----------------------------------------------------------------------------
(* The fields. Those of a strategy appear one after the other, the first   *)
(* of them the name; clearing one hides what follows, and keeps it. Chips  *)
(* for experience and what is traded ("setup") cannot be cleared.          *)

Chips == {"experience", "setup"}

UsernameValid == name # None /\ name \notin Short /\ status # "taken"

Revealed(field) ==
    CASE field = "name" -> TRUE
      [] field = "email" -> "name" \in answered /\ UsernameValid
      [] field \in {"contact", "experience"} ->
            {"name", "email"} \subseteq answered /\ UsernameValid
      [] field = "setup" -> "experience" \in answered
      [] field = "rules" -> "setup" \in answered

Turn(field) ==
    /\ ~submitted
    /\ answered' = IF field \in Chips THEN answered \cup {field} ELSE SymDiff(answered, {field})
    /\ UNCHANGED <<form, check, submitting, failed, submitted, entered, sent, stored, count>>

TypeStrategy(field) == form = "strategy" /\ Revealed(field) /\ Turn(field)
TypeWaitlist(field) == form = "waitlist" /\ field = "email" /\ Turn(field)
TypeContact(field) == form = "contact" /\ field \in {"name", "email", "rules"} /\ Turn(field)

\* The check of the name typed waits for 500 ms without another key.
HandleUsernameChange(n) ==
    /\ form = "strategy" /\ ~submitted /\ "name" \in answered
    /\ name' = n
    /\ IF n \in Short
       THEN status' = "idle" /\ timer' = None
       ELSE status' = "checking" /\ timer' = n
    /\ UNCHANGED <<form, answered, checks, submitting, failed, submitted, entered, sent,
                   stored, count>>

StartCheck ==
    /\ timer # None /\ count < MaxSent
    /\ checks' = Append(checks, timer)
    /\ timer' = None
    /\ count' = count + 1
    /\ UNCHANGED <<form, answered, name, status, submitting, failed, submitted, entered,
                   sent, stored>>

\* Answers come in any order, and are shown whatever the name is by now.  A
\* failed check leaves the status.
Checked(i) ==
    /\ status' \in {"taken", "available", status}
    /\ checks' = [j \in 1 .. Len(checks) - 1 |-> IF j < i THEN checks[j] ELSE checks[j + 1]]
    /\ UNCHANGED <<form, answered, name, timer, submitting, failed, submitted, entered,
                   sent, stored, count>>

\* The button of each form.  That of a strategy asks for no username.
Button ==
    CASE form = "strategy" -> {"email", "contact", "rules"} \subseteq answered
      [] form = "waitlist" -> "email" \in answered
      [] form = "contact"  -> {"name", "email", "rules"} \subseteq answered

\* A form without a button takes Enter if it has one text field: the name, while
\* it is cleared and the trader's coins are not asked for.
LoneField == form = "strategy" /\ ~Button /\ answered \cap {"name", "setup"} = {}

\* The button waits for its submission; the handler itself looks at the email
\* alone.
HandleSubmit ==
    /\ ~submitted /\ "email" \in answered
    /\ (Button /\ ~submitting) \/ LoneField
    /\ count < MaxSent
    /\ submitting' = TRUE /\ failed' = FALSE
    /\ entered' = (entered \/ ~Button)
    /\ sent' = sent + 1 /\ count' = count + 1
    /\ UNCHANGED <<form, answered, check, submitted, stored>>

\* The store has the record, and says so.
Created ==
    /\ sent > 0
    /\ sent' = sent - 1 /\ stored' = stored + 1
    /\ submitting' = FALSE /\ submitted' = TRUE
    /\ UNCHANGED <<form, answered, check, failed, entered, count>>

\* After an error: of each form, the handler returns or skips what follows.
AfterErrorGoOn == submitting' = FALSE /\ failed' = TRUE /\ submitted' = TRUE
AfterError == submitting' = FALSE /\ failed' = TRUE /\ submitted' = submitted

\* The store refuses, or has the record and its answer is lost.
NotCreated ==
    /\ sent > 0
    /\ sent' = sent - 1
    /\ stored' \in {stored, stored + 1}
    /\ AfterError
    /\ UNCHANGED <<form, answered, check, entered, count>>

-----------------------------------------------------------------------------
Init ==
    /\ form \in {"strategy", "waitlist", "contact"}
    /\ answered = {}
    /\ name = None /\ status = "idle" /\ timer = None /\ checks = <<>>
    /\ submitting = FALSE /\ failed = FALSE /\ submitted = FALSE /\ entered = FALSE
    /\ sent = 0 /\ stored = 0 /\ count = 0

Next ==
    \/ \E field \in {"name", "email", "contact", "rules"} \cup Chips :
          TypeStrategy(field) \/ TypeWaitlist(field) \/ TypeContact(field)
    \/ \E n \in Names : HandleUsernameChange(n)
    \/ StartCheck
    \/ \E i \in DOMAIN checks : Checked(i)
    \/ HandleSubmit \/ Created \/ NotCreated

Spec == Init /\ [][Next]_vars

-----------------------------------------------------------------------------
\* The form thanks for what was stored, and waits only for an answer. Unless a
\* strategy was sent without its button, which may be sent again meanwhile, it
\* waits for each of its submissions and thanks with none on its way and no error
\* (handleSubmit of SubmitStrategyForm, InvestorForm and ContactPage).
ThanksMeansStored ==
    /\ submitted => stored > 0
    /\ submitting => sent > 0
    /\ ~entered => sent = (IF submitting THEN 1 ELSE 0) /\ (submitted => sent = 0 /\ ~failed)
=============================================================================
