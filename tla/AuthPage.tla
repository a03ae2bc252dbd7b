------------------------------ MODULE AuthPage ------------------------------
(***************************************************************************)
(* Signing in (AuthPage, useCaptcha, CaptchaWidget) and the server's       *)
(* captcha and throttle.                                                   *)
(*                                                                         *)
(* The server keeps questions and failures per address in memory, and      *)
(* others come from the same address.  The page fetches a question when    *)
(* it is mounted, when its countdown or its cooldown ends, when the user   *)
(* asks for one, and after every refusal; nothing keeps two fetches apart. *)
(***************************************************************************)
EXTENDS Integers, FiniteSets

CONSTANTS
    Question,    \* captchas; one not in use stands for a new one
    None,        \* none
    MaxStrikes,  \* failures from which on an address is locked: 3
    MaxFetches   \* bound on the fetches under way

VARIABLES
    server,  \* the questions that still hold, of those that somebody can answer; the failures of the address
    form     \* the state of the page

vars == <<server, form>>

NoSub == [st |-> "none", id |-> None, solved |-> None, right |-> FALSE, mixed |-> FALSE]

\* solved: the question whose answer was typed; right: the answer is right.
\* mixed is not in the code: fetches have overlapped since the last that started alone.
Sub == {NoSub} \cup
    [st : {"sent", "in", "unauthorized", "refused"}, id : Question, solved : Question,
     right : BOOLEAN, mixed : BOOLEAN]
Form == [on : BOOLEAN, captcha : Question \cup {None}, solved : Question \cup {None}, right : BOOLEAN,
         loading : BOOLEAN, timer : BOOLEAN, cooling : BOOLEAN, fetches : 0..MaxFetches,
         mixed : BOOLEAN, sub : Sub]

TypeOK ==
    /\ server \in [fresh : SUBSET Question, strikes : 0..MaxStrikes, locked : BOOLEAN]
    /\ form \in Form

\* The page as it is when it is mounted, with the first fetch under way.
Mounted ==
    [on |-> TRUE, captcha |-> None, solved |-> None, right |-> FALSE, loading |-> TRUE, timer |-> FALSE,
     cooling |-> FALSE, fetches |-> 1, mixed |-> FALSE, sub |-> NoSub]

Empty == [fresh |-> {}, strikes |-> 0, locked |-> FALSE]

Init == server = Empty /\ form = Mounted

-----------------------------------------------------------------------------
\* The server.  A failure counts, and from the third on locks.
Record(s) ==
    LET n == s.strikes + 1
    IN  [s EXCEPT !.strikes = IF n > MaxStrikes THEN MaxStrikes ELSE n, !.locked = n >= MaxStrikes]
Clear(s) == [s EXCEPT !.strikes = 0, !.locked = FALSE]

\* validate_captcha and the answer of login and register.  A question is gone once
\* it was looked up, and one that is gone or too old counts as a failure, too; a right
\* answer clears the failures before the password is read.
Checked ==
    /\ form.sub.st = "sent"
    /\ LET id == form.sub.id
           used == [server EXCEPT !.fresh = @ \ {id}]
           passes == id \in server.fresh /\ form.sub.right /\ form.sub.solved = id
       IN  \/ /\ server.locked \/ ~passes
              /\ server' = IF server.locked THEN server ELSE Record(used)
              /\ form' = [form EXCEPT !.sub.st = "refused"]
           \/ /\ ~server.locked /\ passes /\ server' = Clear(used)
              /\ \E st \in {"in", "unauthorized", "refused"} : form' = [form EXCEPT !.sub.st = st]

\* The countdowns of the server, cleanup_expired, and its restart, which forgets all.
Expire(q) == q \in server.fresh /\ server' = [server EXCEPT !.fresh = @ \ {q}]
LockEnds == server.locked /\ server' = [server EXCEPT !.locked = FALSE]
Forget == server.strikes > 0 /\ ~server.locked /\ server' = Clear(server)
Restart == server # Empty /\ server' = Empty

\* Others at the same address fail or pass.
OthersFail == ~server.locked /\ server' = Record(server)
OthersPass == ~server.locked /\ server.strikes > 0 /\ server' = Clear(server)

-----------------------------------------------------------------------------
\* Mutant: the answer typed for the last question is left in the field.
FetchCaptchaKeeping(f) ==
    [f EXCEPT !.loading = TRUE, !.fetches = @ + 1, !.mixed = f.fetches > 0]

\* fetchCaptcha up to its request.
FetchCaptcha(f) ==
    [f EXCEPT !.loading = TRUE, !.solved = None, !.fetches = @ + 1, !.mixed = f.fetches > 0]
MayFetch == form.fetches < MaxFetches

\* Which of the questions not in use stands for the new one does not matter.
New == CHOOSE q \in Question : q \notin {form.captcha, form.solved, form.sub.id}
Given(q) == [server EXCEPT !.fresh = (@ \cap {form.sub.id}) \cup {q}]

\* Mutant: a new question does not start the countdown.
NewQuestionUnarmed(f) == [f EXCEPT !.captcha = New, !.cooling = FALSE]

NewQuestion(f) == [f EXCEPT !.captcha = New, !.timer = TRUE, !.cooling = FALSE]

\* A new question starts the countdown.  A refusal says how long to wait, in whole
\* seconds that may be 0; the countdown of the question before goes on.
Fetched ==
    /\ form.fetches > 0
    /\ LET done == [form EXCEPT !.loading = FALSE, !.fetches = @ - 1]
       IN  \/ ~server.locked /\ server' = Given(New) /\ form' = NewQuestion(done)
           \/ /\ server.locked /\ UNCHANGED server
              /\ \E wait \in BOOLEAN : form' = [done EXCEPT !.captcha = None, !.cooling = wait]
           \/ UNCHANGED server /\ form' = [done EXCEPT !.captcha = None]

TimerEnds ==
    form.timer /\ MayFetch /\ form' = [FetchCaptcha(form) EXCEPT !.timer = FALSE] /\ UNCHANGED server
CooldownEnds ==
    form.cooling /\ MayFetch /\ form' = [FetchCaptcha(form) EXCEPT !.cooling = FALSE] /\ UNCHANGED server

-----------------------------------------------------------------------------
\* The field and the round arrow, or Retry, are drawn unless the page loads or cools down.
Drawn == form.on /\ ~form.cooling /\ ~form.loading

Answer ==
    /\ Drawn /\ form.captcha # None
    /\ \E right \in BOOLEAN : form' = [form EXCEPT !.solved = form.captcha, !.right = right]
    /\ UNCHANGED server

Refresh == Drawn /\ MayFetch /\ form' = FetchCaptcha(form) /\ UNCHANGED server

\* handleLogin and handleRegister.
Submit ==
    /\ form.on /\ form.sub = NoSub /\ form.captcha # None /\ ~form.cooling /\ form.solved # None
    /\ form' = [form EXCEPT !.sub = [st |-> "sent", id |-> form.captcha, solved |-> form.solved,
                                     right |-> form.right, mixed |-> form.mixed]]
    /\ UNCHANGED server

\* The answer, or its loss.  For wrong credentials the page is loaded anew.
Submitted ==
    /\ form.sub # NoSub /\ UNCHANGED server
    /\ \/ form.sub.st = "in" /\ form' = [Mounted EXCEPT !.on = FALSE, !.loading = FALSE, !.fetches = 0]
       \/ form.sub.st = "unauthorized" /\ form' = Mounted
       \/ MayFetch /\ form' = [FetchCaptcha(form) EXCEPT !.sub = NoSub]

Elsewhere ==
    /\ \/ \E q \in Question : Expire(q)
       \/ LockEnds \/ Forget \/ Restart \/ OthersFail \/ OthersPass
    /\ UNCHANGED form

Next ==
    \/ Checked \/ Fetched \/ TimerEnds \/ CooldownEnds
    \/ Answer \/ Refresh \/ Submit \/ Submitted \/ Elsewhere

\* Requests end, and so do countdowns.
Spec == Init /\ [][Next]_vars /\ WF_vars(Fetched) /\ WF_vars(TimerEnds) /\ WF_vars(Submitted)

-----------------------------------------------------------------------------
\* Who answers right is not held to have failed, unless the question had expired or
\* was lost, or two fetches had overlapped and exchanged the question under the answer.
RightAnswerCounts ==
    [][form.sub.st = "sent" /\ form'.sub.st # "sent" /\ server'.strikes > server.strikes =>
          \/ ~form.sub.right \/ form.sub.mixed \/ form.sub.id \notin server.fresh]_vars

\* The page does not stay for good with a question that the server no longer accepts.
QuestionsRefreshed == []<>(form.captcha \in server.fresh \cup {None})
=============================================================================
