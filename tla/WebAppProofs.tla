---------------------------- MODULE WebAppProofs ----------------------------
(***************************************************************************)
(* What the parts of the page promise, proved of the run that has them     *)
(* side by side.  A step of MCWebApp is a step of the one part that was    *)
(* chosen and leaves the others alone, so each part has an inductive       *)
(* invariant of its own, XInv, with three lemmas: XInit, it holds at the   *)
(* start; XStep, the steps of the part keep it; and what it implies.  The  *)
(* theorems lift these to Spec.                                            *)
(***************************************************************************)
EXTENDS MCWebApp, FiniteSetTheorems, TLAPS

-----------------------------------------------------------------------------
\* AuthPage.

\* While no fetches overlap there is at most one, the answer typed before is cleared
\* when it starts, and so an answer is one to the question that is on the page.
AuthInv ==
    /\ Auth!TypeOK
    /\ ~form.mixed /\ form.fetches > 0 => form.fetches = 1 /\ form.loading /\ form.solved = None
    /\ ~form.mixed /\ form.captcha # None /\ form.solved # None => form.solved = form.captcha
    /\ form.sub.st = "sent" /\ ~form.sub.mixed => form.sub.solved = form.sub.id

LEMMA AuthBounds == MaxStrikes \in Nat /\ MaxFetches \in Nat \ {0}
BY BoundsAssumption

\* The states of the page, field by field.
LEMMA AuthSub ==
  /\ Auth!NoSub \in Auth!Sub /\ Auth!NoSub.st = "none"
  /\ \A s \in Auth!Sub : s.id \in Question \cup {None}
<1> DEFINE Sts == {"sent", "in", "unauthorized", "refused"}
           S == [st : Sts, id : Question, solved : Question, right : BOOLEAN, mixed : BOOLEAN]
<1>1. Auth!Sub = {Auth!NoSub} \cup S
  BY DEF Auth!Sub
<1>2. Auth!NoSub.id = None /\ Auth!NoSub.st = "none"
  BY DEF Auth!NoSub
<1>3. \A s \in S : s.id \in Question
  OBVIOUS
<1> HIDE DEF S
<1> QED
  BY <1>1, <1>2, <1>3

LEMMA AuthFields ==
  ASSUME NEW f \in Auth!Form
  PROVE  /\ f.captcha \in Question \cup {None} /\ f.solved \in Question \cup {None}
         /\ f.fetches \in 0..MaxFetches /\ f.sub \in Auth!Sub
         /\ f.right \in BOOLEAN /\ f.mixed \in BOOLEAN
BY DEF Auth!Form

LEMMA AuthMounted ==
  /\ Auth!Mounted \in Auth!Form
  /\ Auth!Mounted.captcha = None /\ Auth!Mounted.solved = None /\ Auth!Mounted.fetches = 1
  /\ Auth!Mounted.loading = TRUE /\ Auth!Mounted.mixed = FALSE /\ Auth!Mounted.sub = Auth!NoSub
<1> USE AuthBounds
<1>1. Auth!NoSub \in Auth!Sub
  BY AuthSub
<1>2. 1 \in 0..MaxFetches
  OBVIOUS
<1> QED
  BY <1>1, <1>2 DEF Auth!Mounted, Auth!Form

\* fetchCaptcha up to its request.
LEMMA AuthFetch ==
  ASSUME NEW f \in Auth!Form, f.fetches < MaxFetches
  PROVE  LET g == Auth!FetchCaptcha(f)
         IN  /\ g \in Auth!Form
             /\ g.captcha = f.captcha /\ g.solved = None /\ g.fetches = f.fetches + 1
             /\ g.loading = TRUE /\ g.mixed = (f.fetches > 0) /\ g.sub = f.sub
<1> USE AuthBounds
<1> DEFINE n == f.fetches + 1
           m == f.fetches > 0
           a == [f EXCEPT !.loading = TRUE]
           b == [a EXCEPT !.solved = None]
           c == [b EXCEPT !.fetches = n]
           d == [c EXCEPT !.mixed = m]
<1>1. n \in 0..MaxFetches /\ m \in BOOLEAN
  BY AuthFields
<1>2. Auth!FetchCaptcha(f) = d
  <2>1. Auth!FetchCaptcha(f) = [f EXCEPT !.loading = TRUE, !.solved = None, !.fetches = @ + 1, !.mixed = m]
    BY DEF Auth!FetchCaptcha
  <2> HIDE DEF m
  <2>2. f.fetches = b.fetches
    BY DEF Auth!Form
  <2> QED
    BY <2>1, <2>2
<1> HIDE DEF n, m
<1>3. a \in Auth!Form /\ a.captcha = f.captcha /\ a.sub = f.sub /\ a.loading = TRUE
  BY DEF Auth!Form
<1> HIDE DEF a
<1>4. b \in Auth!Form /\ b.captcha = f.captcha /\ b.sub = f.sub /\ b.loading = TRUE /\ b.solved = None
  BY <1>3 DEF Auth!Form
<1> HIDE DEF b
<1>5. c \in Auth!Form /\ c.captcha = f.captcha /\ c.sub = f.sub /\ c.loading = TRUE /\ c.solved = None /\ c.fetches = n
  BY <1>1, <1>4 DEF Auth!Form
<1> HIDE DEF c
<1>6. d \in Auth!Form /\ d.captcha = f.captcha /\ d.sub = f.sub /\ d.loading = TRUE /\ d.solved = None /\ d.fetches = n /\ d.mixed = m
  BY <1>1, <1>5 DEF Auth!Form
<1> HIDE DEF d
<1> QED
  BY <1>2, <1>6 DEF n, m

\* What the server keeps stays of its kind.
LEMMA AuthServer ==
  ASSUME NEW s \in [fresh : SUBSET Question, strikes : 0..MaxStrikes, locked : BOOLEAN]
  PROVE  LET Server == [fresh : SUBSET Question, strikes : 0..MaxStrikes, locked : BOOLEAN]
         IN  /\ Auth!Record(s) \in Server /\ Auth!Clear(s) \in Server
             /\ \A S \in SUBSET Question : [s EXCEPT !.fresh = S] \in Server
             /\ [s EXCEPT !.locked = FALSE] \in Server
             /\ Auth!Empty \in Server
             /\ Auth!Clear(s).strikes = 0
             /\ \A S : [s EXCEPT !.fresh = S].strikes = s.strikes
             /\ [s EXCEPT !.locked = FALSE].strikes = s.strikes
             /\ Auth!Empty.strikes = 0
<1> USE AuthBounds
<1> DEFINE Server == [fresh : SUBSET Question, strikes : 0..MaxStrikes, locked : BOOLEAN]
           n == s.strikes + 1
           m == IF n > MaxStrikes THEN MaxStrikes ELSE n
           l == n >= MaxStrikes
           a == [s EXCEPT !.strikes = m]
           b == [s EXCEPT !.strikes = 0]
<1>1. m \in 0..MaxStrikes /\ l \in BOOLEAN
  OBVIOUS
<1>2. Auth!Record(s) = [a EXCEPT !.locked = l]
  BY DEF Auth!Record
<1>3. Auth!Clear(s) = [b EXCEPT !.locked = FALSE]
  BY DEF Auth!Clear
<1> HIDE DEF m, l
<1>4. a \in Server /\ b \in Server /\ b.strikes = 0
  BY <1>1
<1> HIDE DEF a, b
<1>5. [a EXCEPT !.locked = l] \in Server
  BY <1>1, <1>4
<1>6. [b EXCEPT !.locked = FALSE] \in Server /\ [b EXCEPT !.locked = FALSE].strikes = 0
  BY <1>4
<1>7. [s EXCEPT !.locked = FALSE] \in Server /\ [s EXCEPT !.locked = FALSE].strikes = s.strikes
  OBVIOUS
<1>8. \A S \in SUBSET Question : [s EXCEPT !.fresh = S] \in Server
  OBVIOUS
<1>9. \A S : [s EXCEPT !.fresh = S].strikes = s.strikes
  OBVIOUS
<1>10. Auth!Empty \in Server /\ Auth!Empty.strikes = 0
  BY DEF Auth!Empty
<1> QED
  BY <1>2, <1>3, <1>5, <1>6, <1>7, <1>8, <1>9, <1>10

LEMMA AuthInit == Auth!Init => AuthInv
<1> SUFFICES ASSUME Auth!Init PROVE AuthInv
  OBVIOUS
<1>1. captchas = Auth!Empty /\ form = Auth!Mounted
  BY DEF Auth!Init
<1>2. captchas \in [fresh : SUBSET Question, strikes : 0..MaxStrikes, locked : BOOLEAN]
  BY <1>1, AuthBounds DEF Auth!Empty
<1>3. form.sub.st # "sent"
  BY <1>1, AuthMounted, AuthSub
<1> QED
  BY <1>1, <1>2, <1>3, AuthMounted DEF AuthInv, Auth!TypeOK

LEMMA AuthStep == AuthInv /\ [Auth!Next]_(Auth!vars) => AuthInv'
<1> SUFFICES ASSUME AuthInv, [Auth!Next]_(Auth!vars) PROVE AuthInv'
  OBVIOUS
<1> USE AuthBounds
<1> DEFINE Server == [fresh : SUBSET Question, strikes : 0..MaxStrikes, locked : BOOLEAN]
<1>a. captchas \in Server /\ form \in Auth!Form
  BY DEF AuthInv, Auth!TypeOK
<1>b. /\ ~form.mixed /\ form.fetches > 0 => form.fetches = 1 /\ form.loading /\ form.solved = None
      /\ ~form.mixed /\ form.captcha # None /\ form.solved # None => form.solved = form.captcha
      /\ form.sub.st = "sent" /\ ~form.sub.mixed => form.sub.solved = form.sub.id
  BY DEF AuthInv
<1>c. /\ form.captcha \in Question \cup {None} /\ form.solved \in Question \cup {None}
      /\ form.fetches \in 0..MaxFetches /\ form.sub \in Auth!Sub
      /\ form.right \in BOOLEAN /\ form.mixed \in BOOLEAN
  BY <1>a, AuthFields
<1>g. ASSUME captchas' \in Server, form' \in Auth!Form,
             ~form'.mixed /\ form'.fetches > 0 => form'.fetches = 1 /\ form'.loading /\ form'.solved = None,
             ~form'.mixed /\ form'.captcha # None /\ form'.solved # None => form'.solved = form'.captcha,
             form'.sub.st = "sent" /\ ~form'.sub.mixed => form'.sub.solved = form'.sub.id
      PROVE  AuthInv'
  BY <1>g DEF AuthInv, Auth!TypeOK
<1> HIDE DEF Server
<1>h. Auth!NoSub \in Auth!Sub /\ Auth!NoSub.st # "sent"
  BY AuthSub
\* A fetch that starts.
<1>i. ASSUME NEW g \in Auth!Form, form.fetches < MaxFetches, captchas' = captchas, form' = g,
             g.captcha = form.captcha, g.solved = None, g.fetches = form.fetches + 1,
             g.loading = TRUE, g.mixed = (form.fetches > 0), g.sub = form.sub \/ g.sub = Auth!NoSub
      PROVE  AuthInv'
  <2>1. ~g.mixed => g.fetches = 1
    <3>1. form.fetches \in 0..MaxFetches
      BY <1>c
    <3>2. ~g.mixed => ~(form.fetches > 0)
      BY <1>i
    <3>3. g.fetches = form.fetches + 1
      BY <1>i
    <3> QED
      BY <3>1, <3>2, <3>3
  <2>2. g.sub.st = "sent" /\ ~g.sub.mixed => g.sub.solved = g.sub.id
    BY <1>b, <1>h, <1>i
  <2> QED
    BY <1>a, <1>g, <1>i, <2>1, <2>2
<1>1. ASSUME Auth!Checked
      PROVE  AuthInv'
  <2>1. captchas' \in Server
    <3> DEFINE used == [captchas EXCEPT !.fresh = @ \ {form.sub.id}]
    <3>1. captchas' \in {captchas, Auth!Record(used), Auth!Clear(used)}
      BY <1>1 DEF Auth!Checked
    <3>2. captchas.fresh \ {form.sub.id} \in SUBSET Question
      BY <1>a DEF Server
    <3>3. used \in Server
      BY <1>a, <3>2, AuthServer DEF Server
    <3> HIDE DEF used
    <3>4. Auth!Record(used) \in Server /\ Auth!Clear(used) \in Server
      BY <3>3, AuthServer DEF Server
    <3> QED
      BY <1>a, <3>1, <3>4
  <2>2. PICK st \in {"in", "unauthorized", "refused"} : form' = [form EXCEPT !.sub.st = st]
    BY <1>1 DEF Auth!Checked
  <2>3. form.sub.st = "sent" /\ st # "sent"
    BY <1>1 DEF Auth!Checked
  <2> DEFINE Sts == {"sent", "in", "unauthorized", "refused"}
             S == [st : Sts, id : Question, solved : Question, right : BOOLEAN, mixed : BOOLEAN]
             s == [form.sub EXCEPT !.st = st]
  <2>4. Auth!Sub = {Auth!NoSub} \cup S
    BY DEF Auth!Sub
  <2>5. form.sub \in S
    BY <1>c, <1>h, <2>3, <2>4
  <2>6. st \in Sts
    OBVIOUS
  <2> HIDE DEF Sts
  <2>7. s \in S /\ s.st = st
    BY <2>5, <2>6
  <2>8. form' = [form EXCEPT !.sub = s]
    BY <2>2
  <2>9. s \in Auth!Sub
    BY <2>4, <2>7
  <2> HIDE DEF s, S
  <2>10. /\ form' \in Auth!Form /\ form'.sub = s /\ form'.captcha = form.captcha /\ form'.solved = form.solved
         /\ form'.mixed = form.mixed /\ form'.fetches = form.fetches /\ form'.loading = form.loading
    BY <1>a, <2>8, <2>9 DEF Auth!Form
  <2> QED
    BY <1>b, <1>g, <2>1, <2>3, <2>7, <2>10
<1>2. ASSUME Auth!Fetched
      PROVE  AuthInv'
  <2> DEFINE d0 == [form EXCEPT !.loading = FALSE]
             n == form.fetches - 1
             d == [d0 EXCEPT !.fetches = n]
  <2>1. form.fetches > 0 /\ n \in 0..MaxFetches
    <3>1. form.fetches \in 0..MaxFetches
      BY <1>c
    <3>2. form.fetches > 0
      BY <1>2 DEF Auth!Fetched
    <3> QED
      BY <3>1, <3>2
  <2>2. /\ d0 \in Auth!Form /\ d0.solved = form.solved /\ d0.mixed = form.mixed /\ d0.sub = form.sub
        /\ d0.fetches = form.fetches
    BY <1>a DEF Auth!Form
  <2>3. [form EXCEPT !.loading = FALSE, !.fetches = @ - 1] = d
    BY <2>2
  <2>4. \/ captchas' = Auth!Given(Auth!New) /\ form' = Auth!NewQuestion(d)
        \/ captchas' = captchas /\ \E wait \in BOOLEAN : form' = [d EXCEPT !.captcha = None, !.cooling = wait]
        \/ captchas' = captchas /\ form' = [d EXCEPT !.captcha = None]
    BY <1>2, <2>3 DEF Auth!Fetched
  <2> HIDE DEF n, d0
  <2>5. d \in Auth!Form /\ d.solved = form.solved /\ d.mixed = form.mixed /\ d.sub = form.sub /\ d.fetches = n
    BY <2>1, <2>2 DEF Auth!Form
  <2>6. ~form.mixed => n = 0 /\ form.solved = None
    BY <1>b, <1>c, <2>1 DEF n
  <2> HIDE DEF d
  \* Whatever else changes, no overlap means that nothing is typed.
  <2>7. ASSUME captchas' \in Server, form' \in Auth!Form, form'.solved = form.solved, form'.mixed = form.mixed,
               form'.sub = form.sub, form'.fetches = n
        PROVE  AuthInv'
    BY <1>b, <1>g, <2>6, <2>7
  <2>8. CASE captchas' = Auth!Given(Auth!New) /\ form' = Auth!NewQuestion(d)
    <3>1. Auth!New \in Question
      <4>1. form.sub.id \in Question \cup {None}
        BY <1>c, AuthSub
      <4>2. \E q \in Question : q \notin {form.captcha, form.solved, form.sub.id}
        BY <1>c, <4>1, QuestionsAssumption
      <4> QED
        BY <4>2 DEF Auth!New
    <3> DEFINE new == Auth!New
               F == (captchas.fresh \cap {form.sub.id}) \cup {new}
               e0 == [d EXCEPT !.captcha = new]
               e1 == [e0 EXCEPT !.timer = TRUE]
               e2 == [e1 EXCEPT !.cooling = FALSE]
    <3>2. captchas' = [captchas EXCEPT !.fresh = F]
      BY <2>8 DEF Auth!Given
    <3>3. form' = e2
      BY <2>8 DEF Auth!NewQuestion
    <3> HIDE DEF new
    <3>4. new \in Question
      BY <3>1 DEF new
    <3>5. F \in SUBSET Question
      BY <1>a, <3>4 DEF Server
    <3> HIDE DEF F
    <3>6. captchas' \in Server
      BY <1>a, <3>2, <3>5, AuthServer DEF Server
    <3>7. e0 \in Auth!Form /\ e0.solved = d.solved /\ e0.mixed = d.mixed /\ e0.sub = d.sub /\ e0.fetches = n
      BY <2>5, <3>4 DEF Auth!Form
    <3> HIDE DEF e0
    <3>8. e1 \in Auth!Form /\ e1.solved = d.solved /\ e1.mixed = d.mixed /\ e1.sub = d.sub /\ e1.fetches = n
      BY <3>7 DEF Auth!Form
    <3> HIDE DEF e1
    <3>9. e2 \in Auth!Form /\ e2.solved = d.solved /\ e2.mixed = d.mixed /\ e2.sub = d.sub /\ e2.fetches = n
      BY <3>8 DEF Auth!Form
    <3> HIDE DEF e2
    <3> QED
      BY <2>5, <2>7, <3>3, <3>6, <3>9
  <2> DEFINE e == [d EXCEPT !.captcha = None]
  <2>9. e \in Auth!Form /\ e.solved = d.solved /\ e.mixed = d.mixed /\ e.sub = d.sub /\ e.fetches = n
    BY <2>5 DEF Auth!Form
  <2>10. CASE captchas' = captchas /\ form' = e
    BY <1>a, <2>5, <2>7, <2>9, <2>10
  <2>11. CASE captchas' = captchas /\ \E wait \in BOOLEAN : form' = [d EXCEPT !.captcha = None, !.cooling = wait]
    <3>1. PICK wait \in BOOLEAN : form' = [e EXCEPT !.cooling = wait]
      BY <2>11
    <3> HIDE DEF e
    <3>2. form' \in Auth!Form /\ form'.solved = d.solved /\ form'.mixed = d.mixed /\ form'.sub = d.sub /\ form'.fetches = n
      BY <2>9, <3>1 DEF Auth!Form
    <3> QED
      BY <1>a, <2>5, <2>7, <2>11, <3>2
  <2> QED
    BY <2>4, <2>8, <2>10, <2>11
<1> DEFINE g == Auth!FetchCaptcha(form)
<1>j. ASSUME form.fetches < MaxFetches
      PROVE  /\ g \in Auth!Form
             /\ g.captcha = form.captcha /\ g.solved = None /\ g.fetches = form.fetches + 1
             /\ g.loading = TRUE /\ g.mixed = (form.fetches > 0) /\ g.sub = form.sub
  BY <1>a, <1>j, AuthFetch
<1> HIDE DEF g
<1>3. ASSUME Auth!TimerEnds
      PROVE  AuthInv'
  <2> DEFINE h == [g EXCEPT !.timer = FALSE]
  <2>1. form' = h /\ captchas' = captchas /\ form.fetches < MaxFetches
    BY <1>3 DEF Auth!TimerEnds, Auth!MayFetch, g
  <2>2. /\ h \in Auth!Form /\ h.captcha = g.captcha /\ h.solved = g.solved /\ h.fetches = g.fetches
        /\ h.loading = g.loading /\ h.mixed = g.mixed /\ h.sub = g.sub
    BY <1>j, <2>1 DEF Auth!Form
  <2> HIDE DEF h
  <2> QED
    BY <1>i, <1>j, <2>1, <2>2
<1>4. ASSUME Auth!CooldownEnds
      PROVE  AuthInv'
  <2> DEFINE h == [g EXCEPT !.cooling = FALSE]
  <2>1. form' = h /\ captchas' = captchas /\ form.fetches < MaxFetches
    BY <1>4 DEF Auth!CooldownEnds, Auth!MayFetch, g
  <2>2. /\ h \in Auth!Form /\ h.captcha = g.captcha /\ h.solved = g.solved /\ h.fetches = g.fetches
        /\ h.loading = g.loading /\ h.mixed = g.mixed /\ h.sub = g.sub
    BY <1>j, <2>1 DEF Auth!Form
  <2> HIDE DEF h
  <2> QED
    BY <1>i, <1>j, <2>1, <2>2
<1>5. ASSUME Auth!Answer
      PROVE  AuthInv'
  <2>1. PICK right \in BOOLEAN : form' = [form EXCEPT !.solved = form.captcha, !.right = right]
    BY <1>5 DEF Auth!Answer
  <2> DEFINE h == [form EXCEPT !.solved = form.captcha]
  <2>2. /\ h \in Auth!Form /\ h.captcha = form.captcha /\ h.solved = form.captcha /\ h.fetches = form.fetches
        /\ h.mixed = form.mixed /\ h.sub = form.sub
    BY <1>a, <1>c DEF Auth!Form
  <2>3. form' = [h EXCEPT !.right = right]
    BY <2>1
  <2> HIDE DEF h
  <2>4. /\ form' \in Auth!Form /\ form'.captcha = form.captcha /\ form'.solved = form.captcha
        /\ form'.fetches = form.fetches /\ form'.mixed = form.mixed /\ form'.sub = form.sub
    BY <2>2, <2>3 DEF Auth!Form
  <2>5. ~form.loading /\ captchas' = captchas
    BY <1>5 DEF Auth!Answer, Auth!Drawn
  <2> QED
    BY <1>a, <1>b, <1>g, <2>4, <2>5
<1>6. ASSUME Auth!Refresh
      PROVE  AuthInv'
  <2>1. form' = g /\ captchas' = captchas /\ form.fetches < MaxFetches
    BY <1>6 DEF Auth!Refresh, Auth!MayFetch, g
  <2> QED
    BY <1>i, <1>j, <2>1
<1>7. ASSUME Auth!Submit
      PROVE  AuthInv'
  <2> DEFINE s == [st |-> "sent", id |-> form.captcha, solved |-> form.solved,
                   right |-> form.right, mixed |-> form.mixed]
             Sts == {"sent", "in", "unauthorized", "refused"}
  <2>1. form.captcha # None /\ form.solved # None /\ captchas' = captchas /\ form' = [form EXCEPT !.sub = s]
    BY <1>7 DEF Auth!Submit
  <2>2. form.captcha \in Question /\ form.solved \in Question
    BY <1>c, <2>1
  <2>3. "sent" \in Sts
    OBVIOUS
  <2>4. Auth!Sub = {Auth!NoSub} \cup [st : Sts, id : Question, solved : Question, right : BOOLEAN, mixed : BOOLEAN]
    BY DEF Auth!Sub
  <2> HIDE DEF Sts
  <2>5. s \in Auth!Sub
    BY <1>c, <2>2, <2>3, <2>4
  <2>6. s.solved = form.solved /\ s.id = form.captcha /\ s.mixed = form.mixed
    OBVIOUS
  <2> HIDE DEF s
  <2>7. /\ form' \in Auth!Form /\ form'.captcha = form.captcha /\ form'.solved = form.solved
        /\ form'.fetches = form.fetches /\ form'.mixed = form.mixed /\ form'.sub = s /\ form'.loading = form.loading
    BY <1>a, <2>1, <2>5 DEF Auth!Form
  <2>8. ~s.mixed => s.solved = s.id
    BY <1>b, <2>1, <2>6
  <2> QED
    BY <1>a, <1>b, <1>g, <2>1, <2>7, <2>8
<1>8. ASSUME Auth!Submitted
      PROVE  AuthInv'
  <2>0. captchas' = captchas
    BY <1>8 DEF Auth!Submitted
  <2>1. CASE form' = [Auth!Mounted EXCEPT !.on = FALSE, !.loading = FALSE, !.fetches = 0]
    <3> DEFINE m == Auth!Mounted
               m1 == [m EXCEPT !.on = FALSE]
               m2 == [m1 EXCEPT !.loading = FALSE]
    <3>1. m \in Auth!Form /\ m.captcha = None /\ m.sub = Auth!NoSub
      BY AuthMounted
    <3>2. form' = [m2 EXCEPT !.fetches = 0]
      BY <2>1
    <3> HIDE DEF m
    <3>3. m1 \in Auth!Form /\ m1.captcha = None /\ m1.sub = Auth!NoSub
      BY <3>1 DEF Auth!Form
    <3> HIDE DEF m1
    <3>4. m2 \in Auth!Form /\ m2.captcha = None /\ m2.sub = Auth!NoSub
      BY <3>3 DEF Auth!Form
    <3> HIDE DEF m2
    <3>5. form' \in Auth!Form /\ form'.captcha = None /\ form'.sub = Auth!NoSub /\ form'.fetches = 0
      BY <3>2, <3>4 DEF Auth!Form
    <3> QED
      BY <1>a, <1>g, <1>h, <2>0, <3>5
  <2>2. CASE form' = Auth!Mounted
    BY <1>a, <1>g, <1>h, <2>0, <2>2, AuthMounted
  <2>3. CASE form.fetches < MaxFetches /\ form' = [g EXCEPT !.sub = Auth!NoSub]
    <3> DEFINE h == [g EXCEPT !.sub = Auth!NoSub]
    <3>2. /\ h \in Auth!Form /\ h.captcha = g.captcha /\ h.solved = g.solved /\ h.fetches = g.fetches
          /\ h.loading = g.loading /\ h.mixed = g.mixed /\ h.sub = Auth!NoSub
      BY <1>h, <1>j, <2>3 DEF Auth!Form
    <3>3. form' = h
      BY <2>3
    <3> HIDE DEF h
    <3> QED
      BY <1>i, <1>j, <2>0, <2>3, <3>2, <3>3
  <2> QED
    BY <1>8, <2>1, <2>2, <2>3 DEF Auth!Submitted, Auth!MayFetch, g
<1>9. ASSUME Auth!Elsewhere
      PROVE  AuthInv'
  <2>1. form' = form
    BY <1>9 DEF Auth!Elsewhere
  <2>2. captchas' \in Server
    <3>1. ASSUME NEW q \in Question, Auth!Expire(q)
          PROVE  captchas' \in Server
      <4>1. captchas.fresh \ {q} \in SUBSET Question
        BY <1>a DEF Server
      <4>2. captchas' = [captchas EXCEPT !.fresh = captchas.fresh \ {q}]
        BY <3>1 DEF Auth!Expire
      <4> QED
        BY <1>a, <4>1, <4>2, AuthServer DEF Server
    <3>2. Auth!Record(captchas) \in Server /\ Auth!Clear(captchas) \in Server /\ Auth!Empty \in Server
          /\ [captchas EXCEPT !.locked = FALSE] \in Server
      BY <1>a, AuthServer DEF Server
    <3> QED
      BY <1>9, <3>1, <3>2 DEF Auth!Elsewhere, Auth!LockEnds, Auth!Forget, Auth!Restart, Auth!OthersFail, Auth!OthersPass
  <2> QED
    BY <1>b, <1>a, <1>g, <2>1, <2>2
<1>10. CASE UNCHANGED Auth!vars
  <2>1. captchas' = captchas /\ form' = form
    BY <1>10 DEF Auth!vars
  <2> QED
    BY <1>b, <1>a, <1>g, <2>1
<1> QED
  BY <1>1, <1>2, <1>3, <1>4, <1>5, <1>6, <1>7, <1>8, <1>9, <1>10 DEF Auth!Next

\* Which answers count as failures.
LEMMA AuthRight ==
  ASSUME AuthInv, [Auth!Next]_(Auth!vars),
         form.sub.st = "sent", form'.sub.st # "sent", captchas'.strikes > captchas.strikes
  PROVE  ~form.sub.right \/ form.sub.mixed \/ form.sub.id \notin captchas.fresh
<1> SUFFICES ASSUME form.sub.right, ~form.sub.mixed, form.sub.id \in captchas.fresh PROVE FALSE
  OBVIOUS
<1> USE AuthBounds
<1> DEFINE Server == [fresh : SUBSET Question, strikes : 0..MaxStrikes, locked : BOOLEAN]
           used == [captchas EXCEPT !.fresh = @ \ {form.sub.id}]
<1>a. captchas \in Server /\ form.sub.solved = form.sub.id /\ form \in Auth!Form
  BY DEF AuthInv, Auth!TypeOK
<1>b. captchas.strikes \in 0..MaxStrikes
  BY <1>a
<1>c. captchas' # captchas
  <2>1. ~(captchas.strikes > captchas.strikes)
    BY <1>b
  <2> QED
    BY <2>1
<1>d. form' # form
  OBVIOUS
<1>1. ~Auth!Checked
  <2> SUFFICES ASSUME Auth!Checked PROVE FALSE
    OBVIOUS
  <2>1. captchas' = captchas \/ captchas' = Auth!Clear(used)
    BY <1>a DEF Auth!Checked
  <2>2. captchas.fresh \ {form.sub.id} \in SUBSET Question
    BY <1>a
  <2>3. used \in Server
    BY <1>a, <2>2, AuthServer
  <2> HIDE DEF used
  <2>4. Auth!Clear(used).strikes = 0
    BY <2>3, AuthServer
  <2> QED
    BY <1>b, <1>c, <2>1, <2>4
<1>2. ~Auth!TimerEnds /\ ~Auth!CooldownEnds /\ ~Auth!Answer /\ ~Auth!Refresh /\ ~Auth!Submit /\ ~Auth!Submitted
  BY <1>c DEF Auth!TimerEnds, Auth!CooldownEnds, Auth!Answer, Auth!Refresh, Auth!Submit, Auth!Submitted
<1>3. ~Auth!Elsewhere /\ ~UNCHANGED Auth!vars
  BY <1>d DEF Auth!Elsewhere, Auth!vars
<1>4. ~Auth!Fetched
  <2> SUFFICES ASSUME Auth!Fetched PROVE FALSE
    OBVIOUS
  <2> DEFINE F == (captchas.fresh \cap {form.sub.id}) \cup {Auth!New}
  <2>1. captchas' = [captchas EXCEPT !.fresh = F]
    BY <1>c DEF Auth!Fetched, Auth!Given
  <2> HIDE DEF F
  <2>2. captchas'.strikes = captchas.strikes
    BY <1>a, <2>1, AuthServer
  <2> QED
    BY <1>b, <2>2
<1> QED
  BY <1>1, <1>2, <1>3, <1>4 DEF Auth!Next

\* A right answer to a captcha is not counted as a failure (validate_captcha, useCaptcha).
THEOREM WebRightAnswerCounts == Spec => RightAnswerCounts
<1> DEFINE A == form.sub.st = "sent" /\ form'.sub.st # "sent" /\ captchas'.strikes > captchas.strikes =>
                    \/ ~form.sub.right \/ form.sub.mixed \/ form.sub.id \notin captchas.fresh
           I == part = "auth" => Auth!TypeOK
<1>1. Init => AuthInv
  BY AuthInit DEF Init
<1>2. [Next]_vars => [Auth!Next]_(Auth!vars)
  <2> SUFFICES ASSUME [Next]_vars PROVE [Auth!Next]_(Auth!vars)
    OBVIOUS
  <2>1. CASE UNCHANGED vars
    BY <2>1 DEF vars, authVars, Auth!vars
  <2>2. CASE Next
    BY <2>2 DEF Next, authVars, Auth!vars
  <2> QED
    BY <2>1, <2>2
<1>3. AuthInv /\ [Next]_vars => AuthInv'
  BY <1>2, AuthStep
<1>4. AuthInv /\ [Next]_vars => [A]_(Auth!vars)
  BY <1>2, AuthRight
<1>5. AuthInv => I
  BY DEF AuthInv
<1>6. Spec => []I /\ [][A]_(Auth!vars)
  BY <1>1, <1>3, <1>4, <1>5, PTL DEF Spec
<1> QED
  BY <1>6 DEF RightAnswerCounts, Auth!RightAnswerCounts

-----------------------------------------------------------------------------
\* AppSession.

\* Tokens that are accepted or stored were given to somebody; a sign-in under way is the
\* only one of its tab, which draws the form; a request of the dashboard a tab shows now
\* was sent by that dashboard, and with the token there is still.
FormsWait ==
    \A c \in sent : c.user # None =>
        tabs[c.tab].page = "auth" /\ \A d \in sent : d.user # None /\ d.tab = c.tab => d = c

AppInv ==
    /\ App!TypeOK
    /\ \A k \in valid : owner[k] \in User
    /\ store # None => owner[store] \in User
    /\ \A c \in sent : c.mount <= tabs[c.tab].mount /\ (c.as # None => owner[c.as] \in User)
    /\ FormsWait
    /\ \A t \in Tab : tabs[t].page = "dashboard" /\ ~tabs[t].crossed =>
        /\ store # None /\ tabs[t].user = owner[store] /\ tabs[t].data \subseteq {tabs[t].user}
        /\ \A c \in sent : c.tab = t /\ c.mount = tabs[t].mount => c.as = store

LEMMA SeenBound == MaxSeen \in Nat
BY BoundsAssumption

LEMMA NoneIsNobody == None \notin User /\ None \notin App!Token
BY NullAssumption DEF App!Token

LEMMA AppInit == App!Init => AppInv
<1> SUFFICES ASSUME App!Init PROVE AppInv
  OBVIOUS
<1> USE SeenBound
<1> DEFINE Pages == {"auth", "dashboard", "loading"}
           new == App!Auth(0)
<1>1. "auth" \in Pages /\ "auth" # "dashboard"
  OBVIOUS
<1>2. App!TabState = [page : Pages, mount : 0..MaxSeen, data : SUBSET User,
                      down : BOOLEAN, user : User \cup {None}, crossed : BOOLEAN]
  BY DEF App!TabState
<1>3. new = [page |-> "auth", mount |-> 0, data |-> {}, down |-> FALSE, user |-> None, crossed |-> FALSE]
  BY DEF App!Auth
<1> HIDE DEF Pages, new
<1>4. new \in App!TabState /\ new.page # "dashboard"
  BY <1>1, <1>2, <1>3
<1>5. tabs = [t \in Tab |-> new] /\ owner = [k \in App!Token |-> None] /\ valid = {} /\ store = None /\ sent = {}
  BY DEF App!Init, new
<1> QED
  BY <1>4, <1>5 DEF AppInv, FormsWait, App!TypeOK

\* A dashboard that a tab mounts anew, and a tab without one.
LEMMA AppAuth ==
  ASSUME NEW n \in 0..MaxSeen
  PROVE  /\ App!Auth(n) \in App!TabState /\ App!Auth(n).page = "auth" /\ App!Auth(n).mount = n
         /\ [App!Auth(n) EXCEPT !.page = "loading"] \in App!TabState
         /\ [App!Auth(n) EXCEPT !.page = "loading"].page = "loading"
         /\ [App!Auth(n) EXCEPT !.page = "loading"].mount = n
<1> USE SeenBound
<1> DEFINE Pages == {"auth", "dashboard", "loading"}
           a == App!Auth(n)
<1>1. "auth" \in Pages /\ "loading" \in Pages
  OBVIOUS
<1>2. App!TabState = [page : Pages, mount : 0..MaxSeen, data : SUBSET User,
                      down : BOOLEAN, user : User \cup {None}, crossed : BOOLEAN]
  BY DEF App!TabState
<1>3. a = [page |-> "auth", mount |-> n, data |-> {}, down |-> FALSE, user |-> None, crossed |-> FALSE]
  BY DEF App!Auth
<1> HIDE DEF Pages, a
<1>4. a \in App!TabState /\ a.page = "auth" /\ a.mount = n
  BY <1>1, <1>2, <1>3
<1>5. [a EXCEPT !.page = "loading"] \in App!TabState
  BY <1>1, <1>2, <1>4
<1>6. [a EXCEPT !.page = "loading"].page = "loading" /\ [a EXCEPT !.page = "loading"].mount = n
  BY <1>2, <1>4
<1> QED
  BY <1>4, <1>5, <1>6 DEF a

LEMMA AppDashboard ==
  ASSUME NEW t \in Tab, AppInv, tabs[t].mount < MaxSeen, owner'[store'] \in User
  PROVE  LET d == App!Dashboard(t)
         IN  /\ d \in App!TabState /\ d.page = "dashboard" /\ d.mount = tabs[t].mount + 1
             /\ d.user = owner'[store'] /\ d.data = {}
<1> USE SeenBound
<1> DEFINE Pages == {"auth", "dashboard", "loading"}
           n == tabs[t].mount + 1
           a == [page |-> "auth", mount |-> n, data |-> {}, down |-> FALSE, user |-> None, crossed |-> FALSE]
           b == [a EXCEPT !.page = "dashboard"]
           u == owner'[store']
<1>1. "auth" \in Pages /\ "dashboard" \in Pages
  OBVIOUS
<1>2. App!TabState = [page : Pages, mount : 0..MaxSeen, data : SUBSET User,
                      down : BOOLEAN, user : User \cup {None}, crossed : BOOLEAN]
  BY DEF App!TabState
<1> HIDE DEF Pages
<1>3. tabs[t].mount \in 0..MaxSeen
  BY <1>2 DEF AppInv, App!TypeOK
<1>4. n \in 0..MaxSeen
  BY <1>3
<1>5. App!Dashboard(t) = [b EXCEPT !.user = u]
  BY DEF App!Dashboard, App!Auth
<1>6. u \in User
  OBVIOUS
<1> HIDE DEF n, u
<1>7. a \in App!TabState /\ a.mount = n /\ a.data = {}
  BY <1>1, <1>2, <1>4
<1> HIDE DEF a
<1>8. b \in App!TabState /\ b.mount = n /\ b.data = {} /\ b.page = "dashboard"
  BY <1>1, <1>2, <1>7
<1> HIDE DEF b
<1> DEFINE d == [b EXCEPT !.user = u]
<1>9. d \in App!TabState /\ d.mount = n /\ d.data = {} /\ d.page = "dashboard" /\ d.user = u
  BY <1>2, <1>6, <1>8
<1> QED
  BY <1>5, <1>9 DEF n, u

\* The other tabs when one becomes new.
LEMMA AppBecomes ==
  ASSUME NEW t \in Tab, NEW new \in App!TabState, App!TypeOK, App!Becomes(t, new)
  PROVE  /\ tabs' \in [Tab -> App!TabState]
         /\ tabs'[t] = new
         /\ \A o \in Tab \ {t} :
                /\ tabs'[o].page = tabs[o].page /\ tabs'[o].mount = tabs[o].mount
                /\ tabs'[o].user = tabs[o].user /\ tabs'[o].data = tabs[o].data
                /\ ~tabs'[o].crossed /\ tabs[o].page = "dashboard" => ~tabs[o].crossed /\ store' = store
<1> DEFINE x(o) == tabs[o].crossed \/ (store' # store /\ tabs[o].page = "dashboard")
           f(o) == [tabs[o] EXCEPT !.crossed = x(o)]
           Pages == {"auth", "dashboard", "loading"}
<1>1. tabs' = [o \in Tab |-> IF o = t THEN new ELSE f(o)]
  BY DEF App!Becomes
<1>2. tabs \in [Tab -> App!TabState]
  BY DEF App!TypeOK
<1>3. \A o \in Tab : x(o) \in BOOLEAN
  OBVIOUS
<1>4. App!TabState = [page : Pages, mount : 0..MaxSeen, data : SUBSET User,
                      down : BOOLEAN, user : User \cup {None}, crossed : BOOLEAN]
  BY DEF App!TabState
<1> HIDE DEF Pages
<1>5. ASSUME NEW o \in Tab
      PROVE  /\ f(o) \in App!TabState
             /\ f(o).page = tabs[o].page /\ f(o).mount = tabs[o].mount
             /\ f(o).user = tabs[o].user /\ f(o).data = tabs[o].data
             /\ f(o).crossed = x(o)
  <2> DEFINE y == x(o)
  <2>1. y \in BOOLEAN
    BY <1>3
  <2> HIDE DEF y
  <2>2. tabs[o] \in App!TabState
    BY <1>2
  <2> DEFINE g == [tabs[o] EXCEPT !.crossed = y]
  <2>3. g \in App!TabState /\ g.page = tabs[o].page /\ g.mount = tabs[o].mount
        /\ g.user = tabs[o].user /\ g.data = tabs[o].data /\ g.crossed = y
    BY <1>4, <2>1, <2>2
  <2> QED
    BY <2>3 DEF y
<1> HIDE DEF f
<1>6. tabs' \in [Tab -> App!TabState] /\ tabs'[t] = new
  BY <1>1, <1>5
<1>7. ASSUME NEW o \in Tab \ {t}
      PROVE  /\ tabs'[o].page = tabs[o].page /\ tabs'[o].mount = tabs[o].mount
             /\ tabs'[o].user = tabs[o].user /\ tabs'[o].data = tabs[o].data
             /\ tabs'[o].crossed = x(o)
  <2>1. tabs'[o] = f(o)
    BY <1>1
  <2> QED
    BY <1>5, <2>1
<1> QED
  BY <1>6, <1>7

LEMMA AppStep == AppInv /\ [App!Next]_(App!vars) => AppInv'
<1> SUFFICES ASSUME AppInv, [App!Next]_(App!vars) PROVE AppInv'
  OBVIOUS
<1> USE SeenBound
<1> DEFINE Dash(t) == tabs[t].page = "dashboard" /\ ~tabs[t].crossed
           Token == App!Token
<1>a. /\ App!TypeOK
      /\ owner \in [Token -> User \cup {None}] /\ valid \subseteq Token /\ store \in Token \cup {None}
      /\ tabs \in [Tab -> App!TabState] /\ sent \subseteq App!Calls
  BY DEF AppInv, App!TypeOK
<1>b. /\ \A k \in valid : owner[k] \in User
      /\ store # None => owner[store] \in User
      /\ \A c \in sent : c.mount <= tabs[c.tab].mount /\ (c.as # None => owner[c.as] \in User)
  BY DEF AppInv
<1>c. \A t \in Tab : Dash(t) =>
        /\ store # None /\ tabs[t].user = owner[store] /\ tabs[t].data \subseteq {tabs[t].user}
        /\ \A c \in sent : c.tab = t /\ c.mount = tabs[t].mount => c.as = store
  BY DEF AppInv
<1>d. \A c \in sent : c.tab \in Tab /\ c.mount \in 0..MaxSeen /\ c.as \in Token \cup {None}
                      /\ c.user \in User \cup {None}
  BY <1>a DEF App!Calls
<1>g. FormsWait
  BY DEF AppInv
<1>e. \A t \in Tab : tabs[t].mount \in 0..MaxSeen
  <2>1. \A t \in Tab : tabs[t] \in App!TabState
    BY <1>a
  <2> QED
    BY <2>1 DEF App!TabState
<1>f. None \notin User /\ None \notin Token
  BY NoneIsNobody
<1> HIDE DEF Token
\* The answer that lets somebody in.
<1>1. ASSUME NEW f \in sent, App!LoggedIn(f)
      PROVE  AppInv'
  <2> DEFINE t == f.tab
             u == f.user
  <2>0. t \in Tab /\ u \in User
    BY <1>1, <1>d DEF App!LoggedIn
  <2>1. PICK k \in Token :
          /\ owner[k] = None
          /\ owner' = [owner EXCEPT ![k] = u] /\ valid' = valid \cup {k} /\ store' = k
    BY <1>1 DEF App!LoggedIn, Token
  <2>2. owner' \in [Token -> User \cup {None}] /\ owner'[k] = u /\ \A j \in Token \ {k} : owner'[j] = owner[j]
    BY <1>a, <2>0, <2>1
  <2>3. store # k /\ store' # None
    BY <1>b, <1>f, <2>1
  <2> DEFINE d == App!Dashboard(t)
  <2>5. App!Becomes(t, d) /\ sent' = sent \ {f} /\ tabs[t].mount < MaxSeen /\ f.user # None
    BY <1>1 DEF App!LoggedIn
  <2> HIDE DEF t, u
  <2>4. /\ d \in App!TabState /\ d.page = "dashboard" /\ d.mount = tabs[t].mount + 1
        /\ d.user = u /\ d.data = {}
    BY <2>0, <2>1, <2>2, <2>5, AppDashboard
  <2> HIDE DEF d
  <2>6. /\ tabs' \in [Tab -> App!TabState] /\ tabs'[t] = d
        /\ \A o \in Tab \ {t} :
                /\ tabs'[o].page = tabs[o].page /\ tabs'[o].mount = tabs[o].mount
                /\ ~tabs'[o].crossed /\ tabs[o].page = "dashboard" => ~tabs[o].crossed /\ store' = store
    BY <1>a, <2>0, <2>4, <2>5, AppBecomes
  <2>7. App!TypeOK'
    BY <1>a, <2>1, <2>2, <2>5, <2>6 DEF App!TypeOK, Token
  <2>8. \A j \in valid' : owner'[j] \in User
    BY <1>a, <1>b, <2>0, <2>1, <2>2
  <2>9. \A c \in sent' : c.mount <= tabs'[c.tab].mount /\ (c.as # None => owner'[c.as] \in User)
    <3> SUFFICES ASSUME NEW c \in sent
                 PROVE  c.mount <= tabs'[c.tab].mount /\ (c.as # None => owner'[c.as] \in User)
      BY <2>5
    <3>1. c.tab \in Tab /\ c.mount \in 0..MaxSeen /\ tabs[c.tab].mount \in 0..MaxSeen /\ c.mount <= tabs[c.tab].mount
      BY <1>b, <1>d, <1>e
    <3>2. tabs'[c.tab].mount = tabs[c.tab].mount \/ tabs'[c.tab].mount = tabs[c.tab].mount + 1
      BY <2>4, <2>6, <3>1
    <3>3. c.as # None => owner'[c.as] \in User
      BY <1>b, <1>d, <2>0, <2>2
    <3> QED
      BY <3>1, <3>2, <3>3
  <2>10. FormsWait'
    <3>1. \A c \in sent' : c.user # None => c.tab \in Tab \ {t}
      BY <1>d, <1>g, <2>5 DEF FormsWait, t
    <3> QED
      BY <1>g, <2>5, <2>6, <3>1 DEF FormsWait
  <2>11. ASSUME NEW o \in Tab, tabs'[o].page = "dashboard", ~tabs'[o].crossed
         PROVE  /\ store' # None /\ tabs'[o].user = owner'[store'] /\ tabs'[o].data \subseteq {tabs'[o].user}
                /\ \A c \in sent' : c.tab = o /\ c.mount = tabs'[o].mount => c.as = store'
    <3>1. o = t
      BY <2>1, <2>3, <2>6, <2>11
    <3>2. \A c \in sent : c.tab = t => c.mount # d.mount
      BY <1>b, <1>d, <1>e, <2>4
    <3> QED
      BY <2>1, <2>2, <2>3, <2>4, <2>5, <2>6, <3>1, <3>2
  <2> QED
    BY <2>0, <2>1, <2>2, <2>7, <2>8, <2>9, <2>10, <2>11 DEF AppInv
\* A step that leaves tokens alone and makes one tab anew without a dashboard.
<1>20. ASSUME NEW t \in Tab, NEW new \in App!TabState, App!Becomes(t, new), new.page # "dashboard",
              new.mount = tabs[t].mount, owner' = owner, valid' \subseteq valid, store' \in {store, None},
              sent' \subseteq sent, tabs[t].page = "auth" => \A c \in sent' : c.tab # t
       PROVE  AppInv'
  <2>6. /\ tabs' \in [Tab -> App!TabState] /\ tabs'[t] = new
        /\ \A o \in Tab \ {t} :
                /\ tabs'[o].page = tabs[o].page /\ tabs'[o].mount = tabs[o].mount
                /\ tabs'[o].user = tabs[o].user /\ tabs'[o].data = tabs[o].data
                /\ ~tabs'[o].crossed /\ tabs[o].page = "dashboard" => ~tabs[o].crossed /\ store' = store
    BY <1>20, <1>a, AppBecomes
  <2>7. App!TypeOK'
    BY <1>20, <1>a, <2>6 DEF App!TypeOK, Token
  <2>8. (\A j \in valid' : owner'[j] \in User) /\ (store' # None => owner'[store'] \in User)
    BY <1>20, <1>b
  <2>9. \A c \in sent' : c.mount <= tabs'[c.tab].mount /\ (c.as # None => owner'[c.as] \in User)
    BY <1>20, <1>b, <1>d, <2>6
  <2>10. ASSUME NEW o \in Tab, tabs'[o].page = "dashboard", ~tabs'[o].crossed
         PROVE  /\ store' # None /\ tabs'[o].user = owner'[store'] /\ tabs'[o].data \subseteq {tabs'[o].user}
                /\ \A c \in sent' : c.tab = o /\ c.mount = tabs'[o].mount => c.as = store'
    <3>1. o \in Tab \ {t}
      BY <1>20, <2>6, <2>10
    <3>2. Dash(o) /\ store' = store
      BY <2>6, <2>10, <3>1
    <3> QED
      BY <1>20, <1>c, <2>6, <3>1, <3>2
  <2>11. FormsWait'
    <3> SUFFICES ASSUME NEW c \in sent', c.user # None
                 PROVE  tabs'[c.tab].page = "auth" /\ \A b \in sent' : b.user # None /\ b.tab = c.tab => b = c
      BY DEF FormsWait
    <3>1. c \in sent /\ c.tab \in Tab /\ tabs[c.tab].page = "auth" /\ c.tab # t
      BY <1>20, <1>d, <1>g DEF FormsWait
    <3> QED
      BY <1>20, <1>g, <2>6, <3>1 DEF FormsWait
  <2> QED
    BY <2>7, <2>8, <2>9, <2>10, <2>11 DEF AppInv
<1>2. ASSUME NEW t \in Tab, App!HandleLogout(t)
      PROVE  AppInv'
  <2>1. App!Becomes(t, App!Auth(tabs[t].mount)) /\ owner' = owner /\ valid' = valid /\ store' = None /\ sent' = sent
        /\ tabs[t].page = "dashboard"
    BY <1>2 DEF App!HandleLogout
  <2>2. App!Auth(tabs[t].mount) \in App!TabState /\ App!Auth(tabs[t].mount).page # "dashboard"
        /\ App!Auth(tabs[t].mount).mount = tabs[t].mount
    BY <1>e, AppAuth
  <2> QED
    BY <1>20, <2>1, <2>2
<1>3. ASSUME NEW t \in Tab, App!Load(t)
      PROVE  AppInv'
  <2>1. owner' = owner /\ valid' = valid /\ store' = store /\ sent' = sent /\ tabs[t].page = "loading"
    BY <1>3 DEF App!Load
  <2>2. CASE store = None
    <3>1. App!Becomes(t, App!Auth(tabs[t].mount))
      BY <1>3, <2>2 DEF App!Load
    <3>2. App!Auth(tabs[t].mount) \in App!TabState /\ App!Auth(tabs[t].mount).page # "dashboard"
        /\ App!Auth(tabs[t].mount).mount = tabs[t].mount
      BY <1>e, AppAuth
    <3> QED
      BY <1>20, <2>1, <3>1, <3>2
  <2>3. CASE store # None
    <3> DEFINE d == App!Dashboard(t)
    <3>1. tabs[t].mount < MaxSeen /\ App!Becomes(t, d) /\ owner'[store'] \in User
      BY <1>3, <1>b, <2>1, <2>3 DEF App!Load
    <3>2. /\ d \in App!TabState /\ d.page = "dashboard" /\ d.mount = tabs[t].mount + 1
          /\ d.user = owner'[store'] /\ d.data = {}
      BY <3>1, AppDashboard
    <3> HIDE DEF d
    <3>3. /\ tabs' \in [Tab -> App!TabState] /\ tabs'[t] = d
          /\ \A o \in Tab \ {t} :
                  /\ tabs'[o].page = tabs[o].page /\ tabs'[o].mount = tabs[o].mount
                  /\ tabs'[o].user = tabs[o].user /\ tabs'[o].data = tabs[o].data
                  /\ ~tabs'[o].crossed /\ tabs[o].page = "dashboard" => ~tabs[o].crossed /\ store' = store
      BY <1>a, <3>1, <3>2, AppBecomes
    <3>4. App!TypeOK'
      BY <1>a, <2>1, <3>3 DEF App!TypeOK, Token
    <3>5. \A c \in sent' : c.mount <= tabs'[c.tab].mount
      <4> SUFFICES ASSUME NEW c \in sent PROVE c.mount <= tabs'[c.tab].mount
        BY <2>1
      <4>1. c.tab \in Tab /\ c.mount \in 0..MaxSeen /\ tabs[c.tab].mount \in 0..MaxSeen /\ c.mount <= tabs[c.tab].mount
        BY <1>b, <1>d, <1>e
      <4>2. tabs'[c.tab].mount = tabs[c.tab].mount \/ tabs'[c.tab].mount = tabs[c.tab].mount + 1
        BY <3>2, <3>3, <4>1
      <4> QED
        BY <4>1, <4>2
    <3>6. ASSUME NEW o \in Tab, tabs'[o].page = "dashboard", ~tabs'[o].crossed
          PROVE  /\ store' # None /\ tabs'[o].user = owner'[store'] /\ tabs'[o].data \subseteq {tabs'[o].user}
                 /\ \A c \in sent' : c.tab = o /\ c.mount = tabs'[o].mount => c.as = store'
      <4>1. CASE o = t
        <5>1. \A c \in sent : c.tab = t => c.mount # d.mount
          BY <1>b, <1>d, <1>e, <3>2
        <5> QED
          BY <2>1, <2>3, <3>2, <3>3, <4>1, <5>1
      <4>2. CASE o # t
        BY <1>c, <2>1, <3>3, <3>6, <4>2
      <4> QED
        BY <4>1, <4>2
    <3>7. FormsWait'
      BY <1>d, <1>g, <2>1, <3>3 DEF FormsWait
    <3> QED
      BY <1>b, <2>1, <3>4, <3>5, <3>6, <3>7 DEF AppInv
  <2> QED
    BY <2>2, <2>3
<1>30. ASSUME NEW t \in Tab, App!Unloads(t), owner' = owner, valid' = valid, store' \in {store, None}
       PROVE  AppInv'
  <2> DEFINE a == [App!Auth(tabs[t].mount) EXCEPT !.page = "loading"]
  <2>1. App!Becomes(t, a) /\ sent' \subseteq sent /\ \A c \in sent' : c.tab # t
    BY <1>30 DEF App!Unloads
  <2>2. a \in App!TabState /\ a.page # "dashboard" /\ a.mount = tabs[t].mount
    BY <1>e, AppAuth
  <2> HIDE DEF a
  <2> QED
    BY <1>20, <1>30, <2>1, <2>2
<1>4. ASSUME NEW t \in Tab, App!Reload(t)
      PROVE  AppInv'
  BY <1>4, <1>30 DEF App!Reload
<1>50. ASSUME NEW t \in Tab, NEW u \in User \cup {None}, App!Send(t, u),
              u # None => tabs[t].page = "auth" /\ \A d \in sent : d.tab = t => d.user = None
       PROVE  AppInv'
  <2> DEFINE c == [tab |-> t, mount |-> tabs[t].mount, as |-> store, user |-> u]
  <2>1. c \in App!Calls /\ c.tab = t /\ c.mount = tabs[t].mount /\ c.as = store /\ c.user = u
    BY <1>a, <1>e DEF App!Calls, Token
  <2>2. sent' = sent \cup {c} /\ UNCHANGED <<owner, valid, store, tabs>>
    BY <1>50 DEF App!Send
  <2> HIDE DEF c
  <2>3. App!TypeOK'
    BY <1>a, <2>1, <2>2 DEF App!TypeOK
  <2>4. \A b \in sent' : b.mount <= tabs'[b.tab].mount /\ (b.as # None => owner'[b.as] \in User)
    BY <1>b, <1>e, <2>1, <2>2
  <2>5. \A o \in Tab : tabs'[o].page = "dashboard" /\ ~tabs'[o].crossed =>
          /\ store' # None /\ tabs'[o].user = owner'[store'] /\ tabs'[o].data \subseteq {tabs'[o].user}
          /\ \A b \in sent' : b.tab = o /\ b.mount = tabs'[o].mount => b.as = store'
    BY <1>c, <2>1, <2>2
  <2>6. FormsWait'
    <3> SUFFICES ASSUME NEW b \in sent', b.user # None
                 PROVE  tabs'[b.tab].page = "auth" /\ \A d \in sent' : d.user # None /\ d.tab = b.tab => d = b
      BY DEF FormsWait
    <3>1. CASE b = c
      BY <1>50, <2>1, <2>2, <3>1
    <3>2. CASE b \in sent
      BY <1>50, <1>g, <2>1, <2>2, <3>2 DEF FormsWait
    <3> QED
      BY <2>2, <3>1, <3>2
  <2> QED
    BY <1>b, <2>2, <2>3, <2>4, <2>5, <2>6 DEF AppInv
<1>5. ASSUME NEW t \in Tab, App!Request(t)
      PROVE  AppInv'
  BY <1>5, <1>50 DEF App!Request
<1>51. ASSUME NEW t \in Tab, NEW u \in User, App!HandleLogin(t, u)
       PROVE  AppInv'
  BY <1>51, <1>50 DEF App!HandleLogin
<1>6. ASSUME NEW t \in Tab, NEW ok \in BOOLEAN, App!CheckBackendHealth(t, ok)
      PROVE  AppInv'
  <2>1. tabs' = [tabs EXCEPT ![t].down = (~ok)] /\ UNCHANGED <<owner, valid, store, sent>>
    BY <1>6 DEF App!CheckBackendHealth
  <2> DEFINE g == [tabs[t] EXCEPT !.down = (~ok)]
             Pages == {"auth", "dashboard", "loading"}
  <2>2. App!TabState = [page : Pages, mount : 0..MaxSeen, data : SUBSET User,
                        down : BOOLEAN, user : User \cup {None}, crossed : BOOLEAN]
    BY DEF App!TabState
  <2> HIDE DEF Pages
  <2>3. tabs[t] \in App!TabState
    BY <1>a
  <2>4. g \in App!TabState /\ g.page = tabs[t].page /\ g.mount = tabs[t].mount
        /\ g.user = tabs[t].user /\ g.data = tabs[t].data /\ g.crossed = tabs[t].crossed
    BY <2>2, <2>3
  <2>5. tabs' = [tabs EXCEPT ![t] = g]
    BY <2>1
  <2> HIDE DEF g
  <2>6. tabs' \in [Tab -> App!TabState]
    BY <1>a, <2>4, <2>5
  <2>7. \A o \in Tab : tabs'[o].page = tabs[o].page /\ tabs'[o].mount = tabs[o].mount
        /\ tabs'[o].user = tabs[o].user /\ tabs'[o].data = tabs[o].data /\ tabs'[o].crossed = tabs[o].crossed
    BY <1>a, <2>4, <2>5
  <2>8. App!TypeOK'
    BY <1>a, <2>1, <2>6 DEF App!TypeOK
  <2>9. \A o \in Tab : tabs'[o].page = "dashboard" /\ ~tabs'[o].crossed =>
          /\ store' # None /\ tabs'[o].user = owner'[store'] /\ tabs'[o].data \subseteq {tabs'[o].user}
          /\ \A b \in sent' : b.tab = o /\ b.mount = tabs'[o].mount => b.as = store'
    BY <1>c, <2>1, <2>7
  <2>10. FormsWait'
    BY <1>d, <1>g, <2>1, <2>7 DEF FormsWait
  <2> QED
    BY <1>b, <1>d, <2>1, <2>7, <2>8, <2>9, <2>10 DEF AppInv
<1>7. ASSUME NEW c \in sent, App!Answered(c)
      PROVE  AppInv'
  <2>1. c.as \in valid /\ sent' = sent \ {c} /\ UNCHANGED <<owner, valid, store>>
    BY <1>7 DEF App!Answered, App!Accepted
  <2>2. CASE tabs[c.tab].page = "dashboard" /\ tabs[c.tab].mount = c.mount
    <3> DEFINE t == c.tab
               g == [tabs[t] EXCEPT !.data = tabs[t].data \cup {owner[c.as]}]
               Pages == {"auth", "dashboard", "loading"}
    <3>1. tabs' = [tabs EXCEPT ![t].data = @ \cup {owner[c.as]}] /\ t \in Tab
      BY <1>7, <1>d, <2>2 DEF App!Answered
    <3>2. App!TabState = [page : Pages, mount : 0..MaxSeen, data : SUBSET User,
                          down : BOOLEAN, user : User \cup {None}, crossed : BOOLEAN]
      BY DEF App!TabState
    <3>3. owner[c.as] \in User
      BY <1>b, <2>1
    <3> HIDE DEF Pages
    <3>4. tabs[t] \in App!TabState
      BY <1>a, <3>1
    <3>5. g \in App!TabState /\ g.page = tabs[t].page /\ g.mount = tabs[t].mount
          /\ g.user = tabs[t].user /\ g.data = tabs[t].data \cup {owner[c.as]} /\ g.crossed = tabs[t].crossed
      BY <3>2, <3>3, <3>4
    <3>6. tabs' = [tabs EXCEPT ![t] = g]
      BY <3>1
    <3> HIDE DEF g
    <3>7. tabs' \in [Tab -> App!TabState]
      BY <1>a, <3>5, <3>6
    <3>8. \A o \in Tab : tabs'[o].page = tabs[o].page /\ tabs'[o].mount = tabs[o].mount
            /\ tabs'[o].user = tabs[o].user /\ tabs'[o].crossed = tabs[o].crossed
            /\ tabs'[o].data = IF o = t THEN tabs[o].data \cup {owner[c.as]} ELSE tabs[o].data
      BY <1>a, <3>1, <3>5, <3>6
    <3>9. App!TypeOK'
      BY <1>a, <2>1, <3>7 DEF App!TypeOK
    <3>10. ASSUME NEW o \in Tab, tabs'[o].page = "dashboard", ~tabs'[o].crossed
           PROVE  /\ store' # None /\ tabs'[o].user = owner'[store'] /\ tabs'[o].data \subseteq {tabs'[o].user}
                  /\ \A b \in sent' : b.tab = o /\ b.mount = tabs'[o].mount => b.as = store'
      <4>1. Dash(o)
        BY <3>8, <3>10
      <4>2. /\ store # None /\ tabs[o].user = owner[store] /\ tabs[o].data \subseteq {tabs[o].user}
            /\ \A b \in sent : b.tab = o /\ b.mount = tabs[o].mount => b.as = store
        BY <1>c, <4>1
      <4>3. o = t => c.as = store
        BY <2>2, <4>2
      <4>4. tabs'[o].data \subseteq {tabs[o].user}
        <5>1. CASE o = t
          <6>1. tabs'[o].data = tabs[o].data \cup {owner[c.as]}
            BY <3>8, <5>1
          <6>2. owner[c.as] = tabs[o].user
            BY <4>2, <4>3, <5>1
          <6> QED
            BY <4>2, <6>1, <6>2
        <5>2. CASE o # t
          BY <3>8, <4>2, <5>2
        <5> QED
          BY <5>1, <5>2
      <4>5. tabs'[o].user = tabs[o].user /\ tabs'[o].mount = tabs[o].mount
        BY <3>8
      <4> QED
        BY <2>1, <4>2, <4>4, <4>5
    <3>11. FormsWait'
      BY <1>d, <1>g, <2>1, <3>8 DEF FormsWait
    <3> QED
      BY <1>b, <1>d, <2>1, <3>8, <3>9, <3>10, <3>11 DEF AppInv
  <2>3. CASE ~(tabs[c.tab].page = "dashboard" /\ tabs[c.tab].mount = c.mount)
    <3>1. tabs' = tabs
      BY <1>7, <2>3 DEF App!Answered
    <3>2. App!TypeOK'
      BY <1>a, <2>1, <3>1 DEF App!TypeOK
    <3>3. \A o \in Tab : tabs'[o].page = "dashboard" /\ ~tabs'[o].crossed =>
            /\ store' # None /\ tabs'[o].user = owner'[store'] /\ tabs'[o].data \subseteq {tabs'[o].user}
            /\ \A b \in sent' : b.tab = o /\ b.mount = tabs'[o].mount => b.as = store'
      BY <1>c, <2>1, <3>1
    <3>4. FormsWait'
      BY <1>g, <2>1, <3>1 DEF FormsWait
    <3> QED
      BY <1>b, <2>1, <3>1, <3>2, <3>3, <3>4 DEF AppInv
  <2> QED
    BY <2>2, <2>3
<1>40. ASSUME UNCHANGED <<owner, store, tabs>>, valid' \subseteq valid, sent' \subseteq sent
       PROVE  AppInv'
  <2>1. App!TypeOK'
    BY <1>40, <1>a DEF App!TypeOK, Token
  <2>2. \A o \in Tab : tabs'[o].page = "dashboard" /\ ~tabs'[o].crossed =>
          /\ store' # None /\ tabs'[o].user = owner'[store'] /\ tabs'[o].data \subseteq {tabs'[o].user}
          /\ \A b \in sent' : b.tab = o /\ b.mount = tabs'[o].mount => b.as = store'
    BY <1>c, <1>40
  <2>3. FormsWait'
    BY <1>g, <1>40 DEF FormsWait
  <2> QED
    BY <1>40, <1>b, <2>1, <2>2, <2>3 DEF AppInv
<1>8. ASSUME NEW c \in sent, App!Failed(c)
      PROVE  AppInv'
  BY <1>8, <1>40 DEF App!Failed
<1>9. ASSUME NEW c \in sent, App!Refused(c)
      PROVE  AppInv'
  BY <1>9, <1>30, <1>d DEF App!Refused
<1>10. ASSUME NEW k \in App!Token, App!Expire(k)
       PROVE  AppInv'
  BY <1>10, <1>40 DEF App!Expire
<1>11. CASE UNCHANGED App!vars
  BY <1>11, <1>40 DEF App!vars
<1> QED
  BY <1>1, <1>2, <1>3, <1>4, <1>5, <1>51, <1>6, <1>7, <1>8, <1>9, <1>10, <1>11 DEF App!Next

\* Which steps take a good token out of the browser.
LEMMA AppKept ==
  ASSUME AppInv, App!Next
  PROVE  App!KeptWhileValid
<1> SUFFICES ASSUME store \in valid, store' = None
             PROVE  \/ \E t \in Tab : tabs[t].page = "dashboard" /\ tabs'[t].page = "auth"
                    \/ \E c \in sent \ sent' :
                        IF c.user = None THEN c.as # store /\ c.as \notin valid ELSE tabs[c.tab].page = "auth"
  BY DEF App!KeptWhileValid
<1>a. store # None /\ store' # store
  BY NoneIsNobody DEF AppInv, App!TypeOK
<1>b. App!TypeOK /\ \A c \in sent : c.tab \in Tab
  BY DEF AppInv, App!TypeOK, App!Calls
<1>1. ~\E c \in sent : App!LoggedIn(c)
  BY NoneIsNobody DEF App!LoggedIn
<1>2. ASSUME NEW t \in Tab, App!HandleLogout(t)
      PROVE  tabs[t].page = "dashboard" /\ tabs'[t].page = "auth"
  <2>1. tabs[t].mount \in 0..MaxSeen
    <3>1. tabs[t] \in App!TabState
      BY <1>b DEF App!TypeOK
    <3> QED
      BY <3>1 DEF App!TabState
  <2> DEFINE a == App!Auth(tabs[t].mount)
  <2>2. a \in App!TabState /\ a.page = "auth"
    BY <2>1, AppAuth
  <2>3. App!Becomes(t, a) /\ tabs[t].page = "dashboard"
    BY <1>2 DEF App!HandleLogout
  <2> HIDE DEF a
  <2>4. tabs'[t] = a
    BY <1>b, <2>2, <2>3, AppBecomes
  <2> QED
    BY <2>2, <2>3, <2>4
<1>3. ~\E t \in Tab :
        \/ App!Load(t) \/ App!Reload(t) \/ App!Request(t)
        \/ \E u \in User : App!HandleLogin(t, u)
        \/ \E ok \in BOOLEAN : App!CheckBackendHealth(t, ok)
  BY <1>a DEF App!Load, App!Reload, App!Request, App!HandleLogin, App!Send, App!CheckBackendHealth
<1>4. ~\E c \in sent : App!Answered(c) \/ App!Failed(c)
  BY <1>a DEF App!Answered, App!Failed
<1>5. ~\E k \in App!Token : App!Expire(k)
  BY <1>a DEF App!Expire
<1>6. ASSUME NEW c \in sent, App!Refused(c)
      PROVE  /\ c \in sent \ sent'
             /\ IF c.user = None THEN c.as # store /\ c.as \notin valid ELSE tabs[c.tab].page = "auth"
  BY <1>6 DEF App!Refused, App!Accepted, App!Unloads, AppInv, FormsWait
<1> QED
  BY <1>1, <1>2, <1>3, <1>4, <1>5, <1>6 DEF App!Next

\* A tab shows the data of the one user it was mounted for, and a good token leaves the
\* browser by a logout, the refusal of a request sent with another token, or a sign-in
\* that fails in another tab (App, httpClient).
THEOREM WebSessionsApart == Spec => SessionsApart
<1> DEFINE A == App!OneUsersData' /\ App!KeptWhileValid
           I == part = "app" => App!TypeOK
<1>1. Init => AppInv
  BY AppInit DEF Init
<1>2. [Next]_vars => [App!Next]_(App!vars)
  <2> SUFFICES ASSUME [Next]_vars PROVE [App!Next]_(App!vars)
    OBVIOUS
  <2>1. CASE UNCHANGED vars
    BY <2>1 DEF vars, appVars, App!vars
  <2>2. CASE Next
    BY <2>2 DEF Next, appVars, App!vars
  <2> QED
    BY <2>1, <2>2
<1>3. AppInv /\ [Next]_vars => AppInv'
  BY <1>2, AppStep
<1>4. AppInv => App!OneUsersData
  BY DEF AppInv, App!OneUsersData
<1>5. AppInv /\ AppInv' /\ [Next]_vars => [A]_(App!vars)
  <2> SUFFICES ASSUME AppInv, AppInv', [App!Next]_(App!vars) PROVE [A]_(App!vars)
    BY <1>2
  <2>1. App!OneUsersData'
    BY DEF AppInv, App!OneUsersData
  <2> QED
    BY <2>1, AppKept
<1>6. AppInv => I
  BY DEF AppInv
<1>7. Spec => []I /\ [][A]_(App!vars)
  BY <1>1, <1>3, <1>5, <1>6, PTL DEF Spec
<1> QED
  BY <1>7 DEF SessionsApart, App!SessionsApart

-----------------------------------------------------------------------------
\* SharePage.

Info == [to |-> "info"]
List == [to |-> "list"]
TextAsked == [to : {"text"}, item : Shared]

\* Of an item whose text is fetched or drawn: it is the one that is shown.
Viewed == IF link.item = None THEN visit.viewing ELSE link.item

\* Before the page has the data of the link it knows nothing and asks for nothing
\* else; then it asks for the content and shows it once the visitor is let in.
PublicInv ==
    /\ Public!TypeOK
    /\ ~visit.info => /\ visit.loading \/ visit.error
                      /\ asked \subseteq {Info}
                      /\ ~visit.authorized /\ visit.text = None
    /\ Info \in asked => ~visit.info
    /\ visit.info /\ ~link.locked => visit.authorized
    /\ Public!UnlockedFirst
    /\ link.item # None => visit.viewing = None
    /\ \A q \in asked : q.to = "text" => q.item = Viewed
    /\ visit.text # None => visit.text.item = Viewed
    /\ visit.info /\ link.item = None /\ visit.authorized =>
          List \in asked \/ visit.failed \/ visit.contents # {} \/ link.there # Shared

LEMMA VisitsBound == MaxVisits \in Nat
BY BoundsAssumption

LEMMA PublicInit == Public!Init => PublicInv
<1> SUFFICES ASSUME Public!Init PROVE PublicInv
  OBVIOUS
<1> USE VisitsBound
<1>1. link \in Public!Server /\ link.there = Shared /\ link.logged = {}
  BY DEF Public!Init, Public!Server
<1>2. PICK token \in BOOLEAN :
        /\ visit = [info |-> FALSE, loading |-> token, verifying |-> FALSE, error |-> ~token, authorized |-> FALSE,
                   contents |-> {}, viewing |-> None, text |-> None, fetching |-> FALSE,
                   left |-> FALSE, failed |-> FALSE]
        /\ asked = IF token THEN {Info} ELSE {}
  BY DEF Public!Init, Info
<1>3. visit \in Public!Page
  BY <1>2 DEF Public!Page
<1>4. /\ visit.info = FALSE /\ visit.loading = token /\ visit.error = (~token) /\ visit.authorized = FALSE
      /\ visit.viewing = None /\ visit.text = None
  BY <1>2
<1>5. Info.to = "info" /\ Info \in Public!Asked
  BY DEF Info, Public!Asked
<1>6. asked \subseteq {Info}
  BY <1>2
<1>7. visits = 0
  BY DEF Public!Init
<1>8. Public!TypeOK
  BY <1>1, <1>3, <1>5, <1>6, <1>7 DEF Public!TypeOK
<1>9. Public!UnlockedFirst
  <2>1. \A q \in [to : {"list"}] \cup [to : {"text"}, item : Shared] : q.to # "info"
    OBVIOUS
  <2> QED
    BY <1>4, <1>5, <1>6, <2>1 DEF Public!UnlockedFirst
<1>10. \A q \in asked : q.to # "text"
  BY <1>5, <1>6
<1> QED
  BY <1>4, <1>6, <1>8, <1>9, <1>10 DEF PublicInv

LEMMA PublicStep == PublicInv /\ [Public!Next]_(Public!vars) => PublicInv'
<1> SUFFICES ASSUME PublicInv, [Public!Next]_(Public!vars) PROVE PublicInv'
  OBVIOUS
<1> USE VisitsBound
<1> DEFINE Fetch == [to : {"list"}] \cup TextAsked
           Unlocked(s) == ~s.locked \/ "password_verified" \in s.logged
<1>a. link \in Public!Server /\ visit \in Public!Page /\ asked \subseteq Public!Asked /\ visits \in 0..MaxVisits
  BY DEF PublicInv, Public!TypeOK
<1>b. /\ ~visit.info => /\ visit.loading \/ visit.error
                        /\ asked \subseteq {Info}
                        /\ ~visit.authorized /\ visit.text = None
      /\ Info \in asked => ~visit.info
      /\ visit.info /\ ~link.locked => visit.authorized
      /\ link.item # None => visit.viewing = None
      /\ \A q \in asked : q.to = "text" => q.item = Viewed
      /\ visit.text # None => visit.text.item = Viewed
  BY DEF PublicInv
<1>c. visit.authorized \/ asked \cap Fetch # {} => Unlocked(link)
  BY DEF PublicInv, Public!UnlockedFirst, TextAsked
<1>d. visit.info /\ link.item = None /\ visit.authorized =>
          List \in asked \/ visit.failed \/ visit.contents # {} \/ link.there # Shared
  BY DEF PublicInv
<1>e. /\ link.item \in Shared \cup {None} /\ link.there \subseteq Shared
      /\ visit.viewing \in Shared \cup {None} /\ visit.contents \subseteq Shared
  BY <1>a DEF Public!Server, Public!Page
<1>f. None \notin Shared /\ Shared # {}
  BY SharedAssumption
<1>g. /\ Info.to = "info" /\ List.to = "list" /\ Info # List
      /\ Info \in Public!Asked /\ List \in Public!Asked /\ List \in Fetch /\ Info \notin Fetch
  <2>1. Info.to = "info" /\ List.to = "list" /\ Info \in [to : {"info", "list"}] /\ List \in [to : {"info", "list"}]
    BY DEF Info, List
  <2>2. List \in [to : {"list"}]
    BY DEF List
  <2>3. \A q \in [to : {"list"}] \cup TextAsked : q.to # "info"
    BY DEF TextAsked
  <2> QED
    BY <2>1, <2>2, <2>3 DEF Public!Asked
<1>h. \A i \in Shared : /\ [to |-> "text", item |-> i] \in Public!Asked
                        /\ [to |-> "text", item |-> i] \in TextAsked
                        /\ [to |-> "text", item |-> i].to = "text"
                        /\ [to |-> "text", item |-> i].item = i
  BY DEF Public!Asked, TextAsked
<1>i. \A q \in Public!Asked : q.to = "text" => q.item \in Shared
  <2>1. Public!Asked = [to : {"info", "list"}] \cup [to : {"verify"}, right : BOOLEAN] \cup TextAsked
    BY DEF Public!Asked, TextAsked
  <2>2. \A q \in [to : {"info", "list"}] \cup [to : {"verify"}, right : BOOLEAN] : q.to # "text"
    OBVIOUS
  <2>3. \A q \in TextAsked : q.item \in Shared
    BY DEF TextAsked
  <2> QED
    BY <2>1, <2>2, <2>3
<1>j. \A q \in TextAsked : q.to = "text"
  BY DEF TextAsked
<1>k. \A q \in Fetch : q.to \in {"list", "text"}
  BY <1>j
<1> HIDE DEF Fetch
<1>t. ASSUME link' \in Public!Server, visit' \in Public!Page, asked' \subseteq Public!Asked, visits' \in 0..MaxVisits
      PROVE  Public!TypeOK'
  BY <1>t DEF Public!TypeOK
<1>u. ASSUME visit'.authorized \/ asked' \cap Fetch # {} => Unlocked(link')
      PROVE  Public!UnlockedFirst'
  BY <1>u DEF Public!UnlockedFirst, Fetch, TextAsked
<1>l. ASSUME NEW x \in {"view", "password_verified", "list"}, link' = [link EXCEPT !.logged = @ \cup {x}]
      PROVE  /\ link' \in Public!Server /\ link'.logged = link.logged \cup {x}
             /\ link'.live = link.live /\ link'.there = link.there /\ link'.item = link.item /\ link'.locked = link.locked
  BY <1>a, <1>l DEF Public!Server
\* Who is let in asks for the content.
<1> DEFINE enter == IF link.item = None THEN {List}
                    ELSE IF link.item \in Text THEN {[to |-> "text", item |-> link.item]} ELSE {}
<1>m. /\ Public!Enter = enter /\ enter \subseteq Public!Asked
      /\ \A q \in enter : q.to # "info" /\ (q.to = "text" => link.item # None /\ q.item = link.item)
  <2>1. Public!Enter = enter
    BY DEF Public!Enter, Public!IsFolder, Public!Mounted, List
  <2>2. CASE link.item = None
    BY <1>g, <2>1, <2>2
  <2>3. CASE link.item # None
    <3>1. link.item \in Shared
      BY <1>e, <2>3
    <3>2. \A q \in enter : q = [to |-> "text", item |-> link.item]
      BY <2>3
    <3> QED
      BY <1>h, <2>1, <2>3, <3>1, <3>2
  <2> QED
    BY <2>2, <2>3
<1> HIDE DEF enter
<1>v. Public!IsFolder <=> link.item = None
  BY DEF Public!IsFolder
<1>1. ASSUME Public!InfoLoaded
      PROVE  PublicInv'
  <2>1. Info \in asked /\ visits' = visits
    BY <1>1 DEF Public!InfoLoaded, Public!Answered, Info
  <2>2. ~visit.info /\ asked = {Info} /\ ~visit.authorized /\ visit.text = None
    BY <1>b, <2>1
  <2>3. CASE /\ visit' = [visit EXCEPT !.info = TRUE, !.loading = FALSE, !.authorized = (~link.locked),
                                        !.fetching = (~link.locked /\ link.item \in Text)]
             /\ link' = [link EXCEPT !.logged = @ \cup {"view"}]
             /\ asked' = (asked \ {Info}) \cup (IF link.locked THEN {} ELSE Public!Enter)
    <3>1. /\ link' \in Public!Server /\ link'.logged = link.logged \cup {"view"}
          /\ link'.live = link.live /\ link'.there = link.there /\ link'.item = link.item /\ link'.locked = link.locked
      BY <1>l, <2>3
    <3>2. /\ visit' \in Public!Page /\ visit'.info = TRUE /\ visit'.authorized = (~link.locked)
          /\ visit'.viewing = visit.viewing /\ visit'.text = visit.text
      BY <1>a, <2>3 DEF Public!Page
    <3>3. asked' = IF link.locked THEN {} ELSE enter
      BY <1>m, <2>2, <2>3
    <3>4. asked' \subseteq Public!Asked /\ Info \notin asked'
      BY <1>g, <1>m, <3>3
    <3>5. Public!TypeOK'
      BY <1>a, <1>t, <2>1, <3>1, <3>2, <3>4
    <3>6. Public!UnlockedFirst'
      BY <1>u, <3>1, <3>2, <3>3
    <3>7. Viewed' = Viewed
      BY <3>1, <3>2 DEF Viewed
    <3>8. \A q \in asked' : q.to = "text" => q.item = Viewed'
      BY <1>m, <3>3, <3>7 DEF Viewed
    <3>9. link.item = None /\ ~link.locked => List \in asked'
      BY <3>3 DEF enter
    <3> QED
      BY <1>b, <2>2, <3>1, <3>2, <3>4, <3>5, <3>6, <3>8, <3>9 DEF PublicInv
  <2>4. CASE /\ visit' = [visit EXCEPT !.loading = FALSE, !.error = TRUE]
             /\ asked' = asked \ {Info} /\ link' = link
    <3>1. /\ visit' \in Public!Page /\ visit'.info = FALSE /\ visit'.authorized = FALSE /\ visit'.error = TRUE
          /\ visit'.viewing = visit.viewing /\ visit'.text = visit.text
      BY <1>a, <2>2, <2>4 DEF Public!Page
    <3>2. asked' = {}
      BY <2>2, <2>4
    <3>3. Public!TypeOK' /\ Public!UnlockedFirst'
      BY <1>a, <1>t, <1>u, <2>1, <2>4, <3>1, <3>2
    <3> QED
      BY <1>b, <2>2, <2>4, <3>1, <3>2, <3>3 DEF PublicInv
  <2> QED
    BY <1>1, <2>3, <2>4 DEF Public!InfoLoaded, Public!Logs, Info
\* Steps after which the page shows and lets in as before, and has asked for no content.
<1>20. ASSUME visit.info, link' = link, visit' \in Public!Page, visit'.info = visit.info, visits' \in 0..MaxVisits,
              visit'.authorized = visit.authorized, visit'.viewing = visit.viewing, visit'.text = visit.text,
              visit'.contents = visit.contents, visit'.failed = visit.failed,
              asked' \subseteq Public!Asked, \A q \in asked' \ asked : q.to = "verify", List \in asked => List \in asked'
       PROVE  PublicInv'
  <2>1. \A q \in asked' : q.to \in {"info", "list", "text"} => q \in asked
    BY <1>20
  <2>2. asked' \cap Fetch # {} => asked \cap Fetch # {}
    BY <1>k, <2>1
  <2>3. Public!TypeOK' /\ Public!UnlockedFirst'
    BY <1>a, <1>c, <1>t, <1>u, <1>20, <2>2
  <2>4. Viewed' = Viewed
    BY <1>20 DEF Viewed
  <2>5. Info \notin asked'
    BY <1>b, <1>g, <1>20, <2>1
  <2>6. \A q \in asked' : q.to = "text" => q.item = Viewed'
    BY <1>b, <2>1, <2>4
  <2>7. visit'.text # None => visit'.text.item = Viewed'
    BY <1>b, <1>20, <2>4
  <2>8. visit'.info /\ link'.item = None /\ visit'.authorized =>
          List \in asked' \/ visit'.failed \/ visit'.contents # {} \/ link'.there # Shared
    BY <1>d, <1>20
  <2> QED
    BY <1>b, <1>20, <2>3, <2>5, <2>6, <2>7, <2>8 DEF PublicInv
<1>2. ASSUME Public!HandleVerifyPassword
      PROVE  PublicInv'
  <2>1. visit.info
    BY <1>2 DEF Public!HandleVerifyPassword, Public!Card
  <2>2. PICK right \in BOOLEAN : asked' = asked \cup {[to |-> "verify", right |-> right]}
    BY <1>2 DEF Public!HandleVerifyPassword
  <2>3. [to |-> "verify", right |-> right] \in Public!Asked /\ [to |-> "verify", right |-> right].to = "verify"
    BY DEF Public!Asked
  <2>4. visit' = [visit EXCEPT !.verifying = TRUE, !.error = FALSE] /\ link' = link /\ visits' \in 0..MaxVisits
    BY <1>2, <1>a DEF Public!HandleVerifyPassword
  <2>5. /\ visit' \in Public!Page /\ visit'.info = visit.info
        /\ visit'.authorized = visit.authorized /\ visit'.viewing = visit.viewing /\ visit'.text = visit.text
        /\ visit'.contents = visit.contents /\ visit'.failed = visit.failed
    BY <1>a, <2>4 DEF Public!Page
  <2> QED
    BY <1>a, <1>20, <2>1, <2>2, <2>3, <2>4, <2>5
<1>3. ASSUME Public!Back
      PROVE  PublicInv'
  <2>1. /\ visit' = [visit EXCEPT !.viewing = None, !.text = None, !.fetching = FALSE]
        /\ asked' = asked \ TextAsked /\ link' = link /\ visits' \in 0..MaxVisits
    BY <1>3, <1>a DEF Public!Back, TextAsked
  <2>2. /\ visit' \in Public!Page /\ visit'.info = visit.info /\ visit'.loading = visit.loading /\ visit'.error = visit.error
        /\ visit'.authorized = visit.authorized /\ visit'.viewing = None /\ visit'.text = None
        /\ visit'.contents = visit.contents /\ visit'.failed = visit.failed
    BY <1>a, <2>1 DEF Public!Page
  <2>3. Public!TypeOK' /\ Public!UnlockedFirst'
    BY <1>a, <1>c, <1>t, <1>u, <2>1, <2>2
  <2>4. \A q \in asked' : q.to # "text"
    <3>1. \A q \in Public!Asked : q.to = "text" => q \in TextAsked
      BY DEF Public!Asked, TextAsked
    <3> QED
      BY <1>a, <2>1, <3>1
  <2>5. List \notin TextAsked
    BY <1>g, <1>j
  <2>6. visit'.info /\ link'.item = None /\ visit'.authorized =>
          List \in asked' \/ visit'.failed \/ visit'.contents # {} \/ link'.there # Shared
    BY <1>d, <2>1, <2>2, <2>5
  <2> QED
    BY <1>b, <2>1, <2>2, <2>3, <2>4, <2>6 DEF PublicInv
<1>4. ASSUME Public!Withdrawn
      PROVE  PublicInv'
  <2>1. visit' = visit /\ asked' = asked /\ visits' = visits
    BY <1>4 DEF Public!Withdrawn
  <2>2. \/ link' = [link EXCEPT !.live = FALSE]
        \/ \E i \in link.there : link' = [link EXCEPT !.there = @ \ {i}]
    BY <1>4 DEF Public!Withdrawn
  <2>3. /\ link' \in Public!Server /\ link'.item = link.item /\ link'.locked = link.locked /\ link'.logged = link.logged
        /\ ~link.live => ~link'.live
        /\ link.there # Shared => link'.there # Shared
    <3>1. CASE link' = [link EXCEPT !.live = FALSE]
      BY <1>a, <3>1 DEF Public!Server
    <3>2. ASSUME NEW i \in link.there, link' = [link EXCEPT !.there = @ \ {i}]
          PROVE  /\ link' \in Public!Server /\ link'.item = link.item /\ link'.locked = link.locked /\ link'.logged = link.logged
                 /\ ~link.live => ~link'.live
                 /\ link.there # Shared => link'.there # Shared
      <4> DEFINE T == link.there \ {i}
      <4>1. T \subseteq Shared /\ T # Shared
        BY <1>e, <3>2
      <4>2. link' = [link EXCEPT !.there = T]
        BY <3>2
      <4> HIDE DEF T
      <4> QED
        BY <1>a, <4>1, <4>2 DEF Public!Server
    <3> QED
      BY <2>2, <3>1, <3>2
  <2>4. Public!TypeOK' /\ Public!UnlockedFirst'
    BY <1>a, <1>c, <1>t, <1>u, <2>1, <2>3
  <2>5. Viewed' = Viewed
    BY <2>1, <2>3 DEF Viewed
  <2> QED
    BY <1>b, <1>d, <2>1, <2>3, <2>4, <2>5 DEF PublicInv
<1>5. ASSUME NEW i \in Shared, Public!OpenItem(i)
      PROVE  PublicInv'
  <2>1. Public!Card = "list" /\ link' = link /\ visits' \in 0..MaxVisits
        /\ visit' = [visit EXCEPT !.viewing = i, !.text = None, !.fetching = i \in Text]
        /\ asked' = asked \cup Public!Mounted(i)
    BY <1>5, <1>a DEF Public!OpenItem
  <2>2. /\ ~visit.loading /\ ~(visit.error /\ ~visit.info) /\ ~(visit.info /\ link.locked /\ ~visit.authorized)
        /\ visit.viewing = None /\ link.item = None
    BY <1>v, <2>1 DEF Public!Card
  <2>3. visit.info /\ visit.authorized
    BY <1>b, <2>2
  <2>4. /\ visit' \in Public!Page /\ visit'.info = visit.info
        /\ visit'.authorized = visit.authorized /\ visit'.viewing = i /\ visit'.text = None
        /\ visit'.contents = visit.contents /\ visit'.failed = visit.failed
    <3> DEFINE fe == i \in Text
    <3>1. fe \in BOOLEAN /\ i \in Shared
      BY <1>5
    <3>2. visit' = [visit EXCEPT !.viewing = i, !.text = None, !.fetching = fe]
      BY <2>1
    <3> HIDE DEF fe
    <3> QED
      BY <1>a, <3>1, <3>2 DEF Public!Page
  <2>5. \A q \in asked : q.to # "text"
    BY <1>a, <1>b, <1>f, <1>i, <2>2 DEF Viewed
  <2>6. \A q \in Public!Mounted(i) : q \in Public!Asked /\ q.to = "text" /\ q.item = i
    BY <1>h DEF Public!Mounted
  <2>7. Public!TypeOK' /\ Public!UnlockedFirst'
    <3>1. asked' \subseteq Public!Asked
      BY <1>a, <2>1, <2>6
    <3> QED
      BY <1>a, <1>c, <1>t, <1>u, <2>1, <2>3, <2>4, <3>1
  <2>8. Viewed' = i
    BY <2>1, <2>2, <2>4 DEF Viewed
  <2>9. Info \notin asked'
    BY <1>b, <1>g, <2>1, <2>3, <2>6
  <2>10. \A q \in asked' : q.to = "text" => q.item = Viewed'
    BY <2>1, <2>5, <2>6, <2>8
  <2>11. visit'.info /\ link'.item = None /\ visit'.authorized =>
          List \in asked' \/ visit'.failed \/ visit'.contents # {} \/ link'.there # Shared
    BY <1>d, <2>1, <2>4
  <2> QED
    BY <1>b, <2>1, <2>2, <2>3, <2>4, <2>7, <2>9, <2>10, <2>11 DEF PublicInv
<1>6. ASSUME NEW i \in Shared, Public!HandleDownload(i)
      PROVE  PublicInv'
  <2>1. PICK comes \in BOOLEAN :
          link' = link /\ asked' = asked /\ visits' \in 0..MaxVisits /\ visit' = [visit EXCEPT !.left = (~comes)]
    BY <1>6, <1>a DEF Public!HandleDownload
  <2>2. (~comes) \in BOOLEAN
    OBVIOUS
  <2>3. /\ visit' \in Public!Page /\ visit'.info = visit.info /\ visit'.loading = visit.loading /\ visit'.error = visit.error
        /\ visit'.authorized = visit.authorized /\ visit'.viewing = visit.viewing /\ visit'.text = visit.text
        /\ visit'.contents = visit.contents /\ visit'.failed = visit.failed
    BY <1>a, <2>1, <2>2 DEF Public!Page
  <2>4. Public!TypeOK' /\ Public!UnlockedFirst'
    BY <1>a, <1>c, <1>t, <1>u, <2>1, <2>3
  <2>5. Viewed' = Viewed
    BY <2>1, <2>3 DEF Viewed
  <2> QED
    BY <1>b, <1>d, <2>1, <2>3, <2>4, <2>5 DEF PublicInv
<1>7. ASSUME NEW ok \in BOOLEAN, Public!FolderListed(ok)
      PROVE  PublicInv'
  <2>1. List \in asked /\ visits' = visits /\ asked' = asked \ {List}
    BY <1>7 DEF Public!FolderListed, Public!Answered, List
  <2>2. visit.info
    BY <1>b, <1>g, <2>1
  <2>3. CASE visit' = [visit EXCEPT !.contents = link.there] /\ link' = [link EXCEPT !.logged = @ \cup {"list"}]
    <3>1. /\ link' \in Public!Server /\ link'.logged = link.logged \cup {"list"}
          /\ link'.live = link.live /\ link'.there = link.there /\ link'.item = link.item /\ link'.locked = link.locked
      BY <1>l, <2>3
    <3>2. /\ visit' \in Public!Page /\ visit'.info = visit.info
          /\ visit'.authorized = visit.authorized /\ visit'.viewing = visit.viewing /\ visit'.text = visit.text
          /\ visit'.contents = link.there
      BY <1>a, <1>e, <2>3 DEF Public!Page
    <3>3. Public!TypeOK' /\ Public!UnlockedFirst'
      BY <1>a, <1>c, <1>t, <1>u, <2>1, <3>1, <3>2
    <3>4. Viewed' = Viewed
      BY <3>1, <3>2 DEF Viewed
    <3>5. visit'.contents # {} \/ link'.there # Shared
      BY <1>f, <3>1, <3>2
    <3> QED
      BY <1>b, <2>1, <2>2, <3>1, <3>2, <3>3, <3>4, <3>5 DEF PublicInv
  <2>4. CASE visit' = [visit EXCEPT !.failed = TRUE] /\ link' = link
    <3>1. /\ visit' \in Public!Page /\ visit'.info = visit.info
          /\ visit'.authorized = visit.authorized /\ visit'.viewing = visit.viewing /\ visit'.text = visit.text
          /\ visit'.failed = TRUE
      BY <1>a, <2>4 DEF Public!Page
    <3>2. Public!TypeOK' /\ Public!UnlockedFirst'
      BY <1>a, <1>c, <1>t, <1>u, <2>1, <2>4, <3>1
    <3>3. Viewed' = Viewed
      BY <2>4, <3>1 DEF Viewed
    <3> QED
      BY <1>b, <2>1, <2>2, <2>4, <3>1, <3>2, <3>3 DEF PublicInv
  <2> QED
    BY <1>7, <2>3, <2>4 DEF Public!FolderListed, Public!Logs
<1>8. ASSUME NEW ok \in BOOLEAN, NEW q \in asked, Public!Verified(q, ok)
      PROVE  PublicInv'
  <2> DEFINE verified == ok /\ q.right /\ link.live
             enters == verified /\ ~visit.authorized
             au == visit.authorized \/ verified
             fe == visit.fetching \/ (enters /\ link.item \in Text)
  <2>1. /\ q.to = "verify" /\ visits' = visits
        /\ visit' = [visit EXCEPT !.authorized = au, !.verifying = FALSE, !.error = (~verified), !.fetching = fe]
        /\ asked' = (asked \ {q}) \cup (IF enters THEN enter ELSE {})
        /\ IF verified THEN link' = [link EXCEPT !.logged = @ \cup {"password_verified"}] ELSE link' = link
    BY <1>8, <1>m DEF Public!Verified, Public!Answered, Public!Logs
  <2>2. visit.info /\ q # List
    BY <1>b, <1>g, <2>1
  <2>3. verified \in BOOLEAN /\ au \in BOOLEAN /\ fe \in BOOLEAN
    BY <1>a DEF Public!Page, Public!Server
  <2>4. /\ link' \in Public!Server /\ (verified => "password_verified" \in link'.logged)
        /\ link.logged \subseteq link'.logged
        /\ link'.live = link.live /\ link'.there = link.there /\ link'.item = link.item /\ link'.locked = link.locked
    <3>1. CASE verified
      BY <1>l, <2>1, <3>1
    <3>2. CASE ~verified
      BY <1>a, <2>1, <3>2
    <3> QED
      BY <3>1, <3>2
  <2> HIDE DEF verified, au, fe
  <2>5. /\ visit' \in Public!Page /\ visit'.info = visit.info
        /\ visit'.authorized = au /\ visit'.viewing = visit.viewing /\ visit'.text = visit.text
        /\ visit'.contents = visit.contents /\ visit'.failed = visit.failed
    <3>1. (~verified) \in BOOLEAN
      OBVIOUS
    <3> QED
      BY <1>a, <2>1, <2>3, <3>1 DEF Public!Page
  <2>6. asked' \subseteq Public!Asked
    BY <1>a, <1>m, <2>1
  <2>7. Public!TypeOK'
    BY <1>a, <1>t, <2>1, <2>4, <2>5, <2>6
  <2>8. Public!UnlockedFirst'
    <3>1. asked' \cap Fetch # {} => asked \cap Fetch # {} \/ verified
      BY <2>1
    <3>2. au => visit.authorized \/ verified
      BY DEF au
    <3> QED
      BY <1>c, <1>u, <2>4, <2>5, <3>1, <3>2
  <2>9. Viewed' = Viewed
    BY <2>4, <2>5 DEF Viewed
  <2>10. \A r \in asked' : r.to = "text" => r.item = Viewed'
    BY <1>b, <1>m, <2>1, <2>9 DEF Viewed
  <2>11. Info \notin asked'
    BY <1>b, <1>g, <1>m, <2>1, <2>2
  <2>12. visit'.info /\ link'.item = None /\ visit'.authorized =>
          List \in asked' \/ visit'.failed \/ visit'.contents # {} \/ link'.there # Shared
    <3>1. CASE visit.authorized
      BY <1>d, <2>1, <2>2, <2>4, <2>5, <3>1
    <3>2. CASE ~visit.authorized
      <4>1. au => enters
        BY <3>2 DEF au
      <4>2. link.item = None => enter = {List}
        BY DEF enter
      <4> QED
        BY <2>1, <2>4, <2>5, <4>1, <4>2
    <3> QED
      BY <3>1, <3>2
  <2>13. visit'.info /\ ~link'.locked => visit'.authorized
    BY <1>b, <2>2, <2>4, <2>5 DEF au
  <2> QED
    BY <1>b, <2>2, <2>4, <2>5, <2>7, <2>8, <2>9, <2>10, <2>11, <2>12, <2>13 DEF PublicInv
<1>9. ASSUME NEW q \in asked, Public!TextLoaded(q)
      PROVE  PublicInv'
  <2>1. /\ q.to = "text" /\ visits' = visits /\ asked' = asked \ {q} /\ link' = link
        /\ \/ visit' = [visit EXCEPT !.fetching = FALSE]
           \/ \E content \in BOOLEAN :
                visit' = [visit EXCEPT !.fetching = FALSE, !.text = [item |-> q.item, content |-> content]]
    BY <1>9 DEF Public!TextLoaded, Public!Answered
  <2>2. visit.info /\ q # List
    BY <1>b, <1>g, <2>1
  <2>3. q.item \in Shared /\ q.item = Viewed
    BY <1>a, <1>b, <1>i, <2>1
  <2>4. /\ visit' \in Public!Page /\ visit'.info = visit.info
        /\ visit'.authorized = visit.authorized /\ visit'.viewing = visit.viewing
        /\ visit'.contents = visit.contents /\ visit'.failed = visit.failed
        /\ visit'.text # None => visit'.text.item = Viewed
    <3>1. CASE visit' = [visit EXCEPT !.fetching = FALSE]
      BY <1>a, <1>b, <3>1 DEF Public!Page
    <3>2. ASSUME NEW content \in BOOLEAN,
                 visit' = [visit EXCEPT !.fetching = FALSE, !.text = [item |-> q.item, content |-> content]]
          PROVE  /\ visit' \in Public!Page /\ visit'.info = visit.info
                 /\ visit'.authorized = visit.authorized /\ visit'.viewing = visit.viewing
                 /\ visit'.contents = visit.contents /\ visit'.failed = visit.failed
                 /\ visit'.text # None => visit'.text.item = Viewed
      <4> DEFINE body == [item |-> q.item, content |-> content]
      <4>1. body \in Public!Body \cup {None} /\ body.item = q.item
        BY <2>3 DEF Public!Body
      <4>2. visit' = [visit EXCEPT !.fetching = FALSE, !.text = body]
        BY <3>2
      <4> HIDE DEF body
      <4> QED
        BY <1>a, <2>3, <4>1, <4>2 DEF Public!Page
    <3> QED
      BY <2>1, <3>1, <3>2
  <2>5. Public!TypeOK' /\ Public!UnlockedFirst'
    BY <1>a, <1>c, <1>t, <1>u, <2>1, <2>4
  <2>6. Viewed' = Viewed
    BY <2>1, <2>4 DEF Viewed
  <2> QED
    BY <1>b, <1>d, <2>1, <2>2, <2>4, <2>5, <2>6 DEF PublicInv
<1>10. CASE UNCHANGED Public!vars
  <2>1. link' = link /\ visit' = visit /\ asked' = asked /\ visits' = visits
    BY <1>10 DEF Public!vars
  <2>2. Public!TypeOK' /\ Public!UnlockedFirst'
    BY <1>a, <1>c, <1>t, <1>u, <2>1
  <2>3. Viewed' = Viewed
    BY <2>1 DEF Viewed
  <2> QED
    BY <1>b, <1>d, <2>1, <2>2, <2>3 DEF PublicInv
<1> QED
  BY <1>1, <1>2, <1>3, <1>4, <1>5, <1>6, <1>7, <1>8, <1>9, <1>10 DEF Public!Next

LEMMA PublicFits == PublicInv => Public!SharedAsShown
<1> SUFFICES ASSUME PublicInv PROVE Public!SharedAsShown
  OBVIOUS
<1>1. Public!UnlockedFirst
  BY DEF PublicInv
<1>2. Public!TextFits
  <2>1. visit.text # None => visit.text.item = Viewed
    BY DEF PublicInv
  <2>2. Viewed \in {visit.viewing, link.item}
    BY DEF Viewed
  <2> QED
    BY <2>1, <2>2 DEF Public!TextFits, Public!TextDrawn
<1>3. Public!EmptyIsEmpty
  <2> SUFFICES ASSUME Public!Card = "list", visit.contents = {}
               PROVE  List \in asked \/ visit.failed \/ link.there # Shared
    BY DEF Public!EmptyIsEmpty, List
  <2>1. /\ ~visit.loading /\ ~(visit.error /\ ~visit.info) /\ ~(visit.info /\ link.locked /\ ~visit.authorized)
        /\ link.item = None
    BY DEF Public!Card, Public!IsFolder
  <2> QED
    BY <2>1 DEF PublicInv
<1> QED
  BY <1>1, <1>2, <1>3 DEF Public!SharedAsShown

\* A visitor of a link sees what is shared, behind the password and under its name (PublicSharePage).
THEOREM WebSharedAsShown == Spec => []SharedAsShown
<1> DEFINE I == part = "public" => PublicInv
<1>1. Init => I
  BY PublicInit DEF Init
<1>2. I /\ [Next]_vars => I'
  <2> SUFFICES ASSUME I, [Next]_vars, part' = "public" PROVE PublicInv'
    OBVIOUS
  <2>1. part' = part
    BY DEF Next, vars
  <2>2. [Public!Next]_(Public!vars)
    <3>1. CASE UNCHANGED vars
      BY <3>1 DEF vars, shareVars, Public!vars
    <3>2. CASE Next
      BY <2>1, <3>2 DEF Next
    <3> QED
      BY <3>1, <3>2
  <2> QED
    BY <2>1, <2>2, PublicStep
<1>3. I => SharedAsShown
  BY PublicFits DEF PublicInv, SharedAsShown
<1> QED
  BY <1>1, <1>2, <1>3, PTL DEF Spec

-----------------------------------------------------------------------------
\* FolderHistory.

\* The mark that the next folder gets no entry is set by a step to an entry of the
\* folder shown, and no folder was opened since.
HistoryInv ==
    /\ History!TypeOK
    /\ History!HistoryFits
    /\ shown.deaf => shown.step = "same"

LEMMA MovesBound == MaxMoves \in Nat
BY BoundsAssumption

LEMMA HistoryInit == History!Init => HistoryInv
<1> SUFFICES ASSUME History!Init PROVE HistoryInv
  OBVIOUS
<1> USE MovesBound
<1>1. PICK f \in Visited, m \in BOOLEAN :
        /\ hist = <<[folder |-> f, bar |-> 0, modal |-> 0]>>
        /\ shown = [cur |-> f, mobile |-> m, bar |-> 0, modal |-> 0,
                   deaf |-> FALSE, leaving |-> FALSE, step |-> "other"]
  BY DEF History!Init
<1>2. "other" \in {"other", "same", "opened"}
  OBVIOUS
<1>3. pos = 1 /\ moves = 0
  BY DEF History!Init
<1>4. [folder |-> f, bar |-> 0, modal |-> 0] \in History!Entry
  BY DEF History!Entry
<1>5. shown \in History!Page
  BY <1>1, <1>2 DEF History!Page
<1>6. hist \in Seq(History!Entry) /\ Len(hist) = 1 /\ hist[1] = [folder |-> f, bar |-> 0, modal |-> 0]
  BY <1>1, <1>4
<1> QED
  BY <1>1, <1>3, <1>5, <1>6 DEF HistoryInv, History!TypeOK, History!HistoryFits, History!State

\* The entries after one was added behind the current one, or was changed.
LEMMA HistoryPushed ==
  ASSUME NEW e \in History!Entry, History!TypeOK, History!Pushed(e)
  PROVE  hist' \in Seq(History!Entry) /\ pos' \in DOMAIN hist' /\ hist'[pos'] = e
<1>1. hist \in Seq(History!Entry) /\ pos \in 1..Len(hist)
  BY DEF History!TypeOK
<1> DEFINE s == SubSeq(hist, 1, pos)
<1>2. s \in Seq(History!Entry) /\ Len(s) = pos
  BY <1>1
<1>3. hist' = Append(s, e) /\ pos' = pos + 1
  BY DEF History!Pushed
<1> HIDE DEF s
<1> QED
  BY <1>1, <1>2, <1>3

LEMMA HistoryReplaced ==
  ASSUME NEW e \in History!Entry, History!TypeOK, History!Replaced(e)
  PROVE  hist' \in Seq(History!Entry) /\ pos' \in DOMAIN hist' /\ hist'[pos'] = e
<1>1. hist \in Seq(History!Entry) /\ pos \in 1..Len(hist)
  BY DEF History!TypeOK
<1> QED
  BY <1>1 DEF History!Replaced

LEMMA HistoryState ==
  ASSUME History!TypeOK
  PROVE  History!State \in History!Entry
BY DEF History!TypeOK, History!State

LEMMA HistoryEntrySet ==
  ASSUME NEW e \in History!Entry, NEW f \in Visited
  PROVE  /\ [e EXCEPT !.folder = f] \in History!Entry
         /\ [e EXCEPT !.folder = f, !.bar = 0] \in History!Entry
         /\ [e EXCEPT !.folder = f].folder = f
         /\ [e EXCEPT !.folder = f, !.bar = 0].folder = f
<1> USE MovesBound
<1> DEFINE d == [e EXCEPT !.folder = f]
<1>1. d \in History!Entry /\ d.folder = f
  BY DEF History!Entry
<1> HIDE DEF d
<1>2. [d EXCEPT !.bar = 0] \in History!Entry /\ [d EXCEPT !.bar = 0].folder = f
  BY <1>1 DEF History!Entry
<1> QED
  BY <1>1, <1>2 DEF d

\* The page with side bar and modal closed is a page.
LEMMA HistoryPageSet ==
  ASSUME NEW p \in History!Page, NEW s \in {"other", "same", "opened"}
  PROVE  LET q == [p EXCEPT !.bar = 0, !.leaving = FALSE]
             r == [p EXCEPT !.bar = 0, !.modal = 0, !.deaf = FALSE, !.leaving = FALSE, !.step = s]
         IN  /\ q \in History!Page /\ q.cur = p.cur /\ q.deaf = p.deaf /\ q.step = p.step
             /\ r \in History!Page /\ r.deaf = FALSE
<1> USE MovesBound
<1> DEFINE a == [p EXCEPT !.bar = 0]
           q == [a EXCEPT !.leaving = FALSE]
           b == [a EXCEPT !.modal = 0]
           c == [b EXCEPT !.deaf = FALSE]
           d == [c EXCEPT !.leaving = FALSE]
           r == [d EXCEPT !.step = s]
<1>1. a \in History!Page /\ a.cur = p.cur /\ a.deaf = p.deaf /\ a.step = p.step
  BY DEF History!Page
<1>2. q \in History!Page /\ q.cur = p.cur /\ q.deaf = p.deaf /\ q.step = p.step
  <2> HIDE DEF a
  <2> QED
    BY <1>1 DEF History!Page
<1>3. b \in History!Page
  <2> HIDE DEF a
  <2> QED
    BY <1>1 DEF History!Page
<1>4. c \in History!Page /\ c.deaf = FALSE
  <2> HIDE DEF b
  <2> QED
    BY <1>3 DEF History!Page
<1>5. d \in History!Page /\ d.deaf = FALSE
  <2> HIDE DEF c
  <2> QED
    BY <1>4 DEF History!Page
<1>6. r \in History!Page /\ r.deaf = FALSE
  <2> HIDE DEF d
  <2> QED
    BY <1>5 DEF History!Page
<1> QED
  BY <1>2, <1>6

\* An entry reached by Back or Forward is one of the folder that is shown then.
LEMMA HistoryPopped ==
  ASSUME NEW n \in DOMAIN hist, NEW p \in History!Page, HistoryInv, moves' \in 0..MaxMoves,
         p.deaf => p.step = "same", History!PoppedTo(n, p)
  PROVE  HistoryInv'
<1> USE MovesBound
<1> DEFINE e == hist[n]
           step == IF e.folder = None THEN p.step ELSE IF e.folder = p.cur THEN "same" ELSE "other"
           deaf == IF e.folder = None THEN p.deaf ELSE e.folder = p.cur
<1>1. hist \in Seq(History!Entry) /\ e \in History!Entry /\ hist' = hist /\ pos' = n
  BY DEF HistoryInv, History!TypeOK, History!PoppedTo
<1>2. shown' = [p EXCEPT !.cur = IF e.folder # None THEN e.folder ELSE @,
                         !.deaf = deaf,
                         !.step = step,
                         !.bar = IF e.bar = @ THEN @ ELSE 0,
                         !.leaving = @ /\ (p.bar = 0 \/ e.bar = p.bar),
                         !.modal = IF e.modal = @ THEN @ ELSE 0]
  BY DEF History!PoppedTo, History!Marked
<1>3. e.folder \in Visited \cup {None}
  BY <1>1 DEF History!Entry
<1>4. step \in {"other", "same", "opened"} /\ deaf \in BOOLEAN
  BY DEF History!Page
<1>5. deaf => step = "same"
  OBVIOUS
<1> HIDE DEF step, deaf, e
<1> DEFINE cur == IF e.folder # None THEN e.folder ELSE p.cur
           bar == IF e.bar = p.bar THEN p.bar ELSE 0
           leaving == p.leaving /\ (p.bar = 0 \/ e.bar = p.bar)
           modal == IF e.modal = p.modal THEN p.modal ELSE 0
<1>9. cur \in Visited /\ bar \in 0..MaxMoves /\ leaving \in BOOLEAN /\ modal \in 0..MaxMoves
  BY <1>3 DEF History!Page
<1>10. shown' = [p EXCEPT !.cur = cur, !.deaf = deaf, !.step = step, !.bar = bar,
                          !.leaving = leaving, !.modal = modal]
  <2>1. e.folder \in {None} \/ e.folder \notin {None}
    OBVIOUS
  <2> QED
    BY <1>2
<1> HIDE DEF cur, bar, leaving, modal
<1>6. shown' \in History!Page /\ shown'.deaf = deaf /\ shown'.step = step /\ shown'.cur = cur
  <2> DEFINE p1 == [p EXCEPT !.cur = cur]
             p2 == [p1 EXCEPT !.deaf = deaf]
             p3 == [p2 EXCEPT !.step = step]
             p4 == [p3 EXCEPT !.bar = bar]
             p5 == [p4 EXCEPT !.leaving = leaving]
             p6 == [p5 EXCEPT !.modal = modal]
  <2>1. p1 \in History!Page /\ p1.cur = cur
    BY <1>9 DEF History!Page
  <2>2. p2 \in History!Page /\ p2.cur = cur /\ p2.deaf = deaf
    <3> HIDE DEF p1
    <3> QED
      BY <2>1, <1>4 DEF History!Page
  <2>3. p3 \in History!Page /\ p3.cur = cur /\ p3.deaf = deaf /\ p3.step = step
    <3> HIDE DEF p2
    <3> QED
      BY <2>2, <1>4 DEF History!Page
  <2>4. p4 \in History!Page /\ p4.cur = cur /\ p4.deaf = deaf /\ p4.step = step
    <3> HIDE DEF p3
    <3> QED
      BY <2>3, <1>9 DEF History!Page
  <2>5. p5 \in History!Page /\ p5.cur = cur /\ p5.deaf = deaf /\ p5.step = step
    <3> HIDE DEF p4
    <3> QED
      BY <2>4, <1>9 DEF History!Page
  <2>6. p6 \in History!Page /\ p6.cur = cur /\ p6.deaf = deaf /\ p6.step = step
    <3> HIDE DEF p5
    <3> QED
      BY <2>5, <1>9 DEF History!Page
  <2>7. shown' = p6
    BY <1>10
  <2> QED
    BY <2>6, <2>7
<1>7. hist'[pos'] = e /\ pos' \in DOMAIN hist' /\ hist' \in Seq(History!Entry)
  BY <1>1 DEF e
<1>8. History!HistoryFits'
  BY <1>6, <1>7 DEF cur, History!HistoryFits, History!State
<1> QED
  BY <1>5, <1>6, <1>7, <1>8 DEF HistoryInv, History!TypeOK

\* The page after the effect of a folder: its entry is the current one, or the mark
\* kept it away.
LEMMA HistoryShown ==
  ASSUME NEW f \in Visited, NEW e \in History!Entry, NEW p \in History!Page,
         History!TypeOK, moves' \in 0..MaxMoves,
         p.deaf /\ e.folder \notin {f, None} => p.step = "opened",
         History!FolderShown(f, e, p)
  PROVE  HistoryInv'
<1> USE MovesBound
<1>1. CASE p.deaf \/ e.folder = f
  <2>1. History!Replaced(e) /\ shown' = [p EXCEPT !.cur = f, !.deaf = FALSE]
    BY <1>1 DEF History!FolderShown
  <2>2. hist' \in Seq(History!Entry) /\ pos' \in DOMAIN hist' /\ hist'[pos'] = e
    BY <2>1, HistoryReplaced
  <2>3. shown' \in History!Page /\ shown'.cur = f /\ shown'.deaf = FALSE /\ shown'.step = p.step
    BY <2>1 DEF History!Page
  <2>4. e.folder \in {f, None} \/ p.step = "opened"
    BY <1>1
  <2> QED
    BY <2>2, <2>3, <2>4 DEF HistoryInv, History!TypeOK, History!HistoryFits, History!State
<1>2. CASE ~(p.deaf \/ e.folder = f)
  <2>1. shown' = [p EXCEPT !.cur = f, !.leaving = @ \/ e.bar # 0]
    BY <1>2 DEF History!FolderShown
  <2>2. shown' \in History!Page /\ shown'.cur = f /\ shown'.deaf = FALSE
    BY <1>2, <2>1 DEF History!Page
  <2>3. /\ hist' \in Seq(History!Entry) /\ pos' \in DOMAIN hist' /\ hist'[pos'].folder = f
    <3>1. CASE e.bar # 0
      <4> DEFINE d == [e EXCEPT !.folder = f, !.bar = 0]
      <4>1. d \in History!Entry /\ d.folder = f
        BY HistoryEntrySet
      <4>2. History!Replaced(d)
        BY <1>2, <3>1 DEF History!FolderShown
      <4> HIDE DEF d
      <4> QED
        BY <4>1, <4>2, HistoryReplaced
    <3>2. CASE e.bar = 0
      <4> DEFINE d == [e EXCEPT !.folder = f]
      <4>1. d \in History!Entry /\ d.folder = f
        BY HistoryEntrySet
      <4>2. History!Pushed(d)
        BY <1>2, <3>2 DEF History!FolderShown
      <4> HIDE DEF d
      <4> QED
        BY <4>1, <4>2, HistoryPushed
    <3> QED
      BY <3>1, <3>2
  <2> QED
    BY <2>2, <2>3 DEF HistoryInv, History!TypeOK, History!HistoryFits, History!State
<1> QED
  BY <1>1, <1>2

LEMMA HistoryStep == HistoryInv /\ [History!Next]_(History!vars) => HistoryInv'
<1> SUFFICES ASSUME HistoryInv, [History!Next]_(History!vars) PROVE HistoryInv'
  OBVIOUS
<1> USE MovesBound
<1> DEFINE e == History!State
<1>a. History!TypeOK /\ hist \in Seq(History!Entry) /\ pos \in 1..Len(hist)
      /\ shown \in History!Page /\ moves \in 0..MaxMoves
  BY DEF HistoryInv, History!TypeOK
<1>b. e \in History!Entry
  BY <1>a, HistoryState
<1>c. History!Move => moves + 1 \in 0..MaxMoves /\ moves' = moves + 1
  BY <1>a DEF History!Move
<1>d. shown.deaf => shown.step = "same"
  BY DEF HistoryInv
<1>e. e.folder \in {shown.cur, None} \/ shown.step = "opened"
  BY DEF HistoryInv, History!HistoryFits
<1>f. e = hist[pos]
  BY DEF History!State
<1> HIDE DEF e
<1>1. ASSUME NEW n \in DOMAIN hist, History!Go(n)
      PROVE  HistoryInv'
  BY <1>1, <1>a, <1>c, <1>d, HistoryPopped DEF History!Go
<1>2. ASSUME NEW f \in Visited, History!NavigateToFolder(f)
      PROVE  HistoryInv'
  <2> DEFINE overBar == shown.bar # 0 /\ e.bar # 0
             d == IF overBar THEN [e EXCEPT !.folder = f, !.bar = 0] ELSE e
             p == [shown EXCEPT !.leaving = @ \/ overBar,
                                !.step = IF @ = "same" THEN "opened" ELSE "other"]
  <2>1. History!FolderShown(f, d, p) /\ moves' \in 0..MaxMoves
    BY <1>2, <1>c DEF History!NavigateToFolder, e
  <2>2. d \in History!Entry
    BY <1>b, HistoryEntrySet
  <2>3. p \in History!Page
    <3>1. shown.step \in {"other", "same", "opened"} /\ shown.leaving \in BOOLEAN
      BY <1>a DEF History!Page
    <3>2. (IF shown.step = "same" THEN "opened" ELSE "other") \in {"other", "same", "opened"}
      OBVIOUS
    <3>3. (shown.leaving \/ overBar) \in BOOLEAN
      OBVIOUS
    <3> QED
      BY <1>a, <3>2, <3>3 DEF History!Page
  <2>4. p.deaf = shown.deaf /\ (shown.step = "same" => p.step = "opened")
    BY <1>a DEF History!Page
  <2> HIDE DEF d, p
  <2> QED
    BY <1>a, <1>d, <2>1, <2>2, <2>3, <2>4, HistoryShown
<1>3. ASSUME History!OpenBar
      PROVE  HistoryInv'
  <2> DEFINE d == [e EXCEPT !.bar = moves + 1]
  <2>1. d \in History!Entry /\ d.folder = e.folder
    BY <1>3, <1>b, <1>c DEF History!Entry, History!OpenBar
  <2>2. History!Pushed(d) /\ moves' \in 0..MaxMoves
    BY <1>3, <1>c DEF History!OpenBar, e
  <2> HIDE DEF d
  <2>3. hist' \in Seq(History!Entry) /\ pos' \in DOMAIN hist' /\ hist'[pos'] = d
    BY <1>a, <2>1, <2>2, HistoryPushed
  <2>4. shown' = [shown EXCEPT !.bar = moves + 1, !.leaving = FALSE]
    BY <1>3 DEF History!OpenBar
  <2>5. shown' \in History!Page /\ shown'.cur = shown.cur /\ shown'.deaf = shown.deaf /\ shown'.step = shown.step
    BY <1>3, <1>a, <1>c, <2>4 DEF History!Page, History!OpenBar
  <2> QED
    BY <1>d, <1>e, <2>1, <2>2, <2>3, <2>5 DEF HistoryInv, History!TypeOK, History!HistoryFits, History!State
<1>4. ASSUME History!CloseBar
      PROVE  HistoryInv'
  <2> DEFINE p == [shown EXCEPT !.bar = 0, !.leaving = FALSE]
  <2>0. FALSE \in BOOLEAN /\ "other" \in {"other", "same", "opened"}
    OBVIOUS
  <2>1. p \in History!Page /\ p.cur = shown.cur /\ p.deaf = shown.deaf /\ p.step = shown.step
    BY <1>a, <2>0, HistoryPageSet
  <2>2. moves' \in 0..MaxMoves
    BY <1>4, <1>c DEF History!CloseBar
  <2>3. \/ pos > 1 /\ History!PoppedTo(pos - 1, p)
        \/ shown' = p /\ hist' = hist /\ pos' = pos
    BY <1>4 DEF History!CloseBar
  <2> HIDE DEF p
  <2>4. CASE pos > 1 /\ History!PoppedTo(pos - 1, p)
    <3>1. pos - 1 \in DOMAIN hist
      BY <1>a, <2>4
    <3> QED
      BY <1>d, <2>1, <2>2, <2>4, <3>1, HistoryPopped
  <2>5. CASE shown' = p /\ hist' = hist /\ pos' = pos
    BY <1>a, <1>d, <1>e, <1>f, <2>1, <2>2, <2>5 DEF HistoryInv, History!TypeOK, History!HistoryFits, History!State
  <2> QED
    BY <2>3, <2>4, <2>5
<1>5. ASSUME History!OpenModal
      PROVE  HistoryInv'
  <2> DEFINE d == [folder |-> None, bar |-> 0, modal |-> moves + 1]
  <2>1. d \in History!Entry /\ d.folder = None
    BY <1>5, <1>c DEF History!Entry, History!OpenModal
  <2>2. History!Pushed(d) /\ moves' \in 0..MaxMoves
    BY <1>5, <1>c DEF History!OpenModal
  <2> HIDE DEF d
  <2>3. hist' \in Seq(History!Entry) /\ pos' \in DOMAIN hist' /\ hist'[pos'] = d
    BY <1>a, <2>1, <2>2, HistoryPushed
  <2>4. shown' = [shown EXCEPT !.modal = moves + 1]
    BY <1>5 DEF History!OpenModal
  <2>5. shown' \in History!Page /\ shown'.cur = shown.cur /\ shown'.deaf = shown.deaf /\ shown'.step = shown.step
    BY <1>5, <1>a, <1>c, <2>4 DEF History!Page, History!OpenModal
  <2> QED
    BY <1>d, <2>1, <2>2, <2>3, <2>5 DEF HistoryInv, History!TypeOK, History!HistoryFits, History!State
<1>6. ASSUME History!CloseModal
      PROVE  HistoryInv'
  <2> DEFINE p == [shown EXCEPT !.modal = 0]
  <2>1. p \in History!Page /\ p.cur = shown.cur /\ p.deaf = shown.deaf /\ p.step = shown.step
    BY <1>a DEF History!Page
  <2>2. moves' \in 0..MaxMoves
    BY <1>6, <1>c DEF History!CloseModal
  <2>3. \/ pos > 1 /\ History!PoppedTo(pos - 1, p)
        \/ shown' = p /\ hist' = hist /\ pos' = pos
    BY <1>6 DEF History!CloseModal
  <2> HIDE DEF p
  <2>4. CASE pos > 1 /\ History!PoppedTo(pos - 1, p)
    <3>1. pos - 1 \in DOMAIN hist
      BY <1>a, <2>4
    <3> QED
      BY <1>d, <2>1, <2>2, <2>4, <3>1, HistoryPopped
  <2>5. CASE shown' = p /\ hist' = hist /\ pos' = pos
    BY <1>a, <1>d, <1>e, <1>f, <2>1, <2>2, <2>5 DEF HistoryInv, History!TypeOK, History!HistoryFits, History!State
  <2> QED
    BY <2>3, <2>4, <2>5
<1>7. ASSUME History!Reload
      PROVE  HistoryInv'
  <2> DEFINE d == IF e.folder = None THEN [e EXCEPT !.folder = shown.cur] ELSE e
             p == [shown EXCEPT !.bar = 0, !.modal = 0, !.deaf = FALSE,
                                !.leaving = FALSE, !.step = "other"]
  <2>1. History!FolderShown(shown.cur, d, p) /\ moves' \in 0..MaxMoves
    BY <1>7, <1>c DEF History!Reload, e
  <2>2. d \in History!Entry /\ shown.cur \in Visited
    BY <1>a, <1>b DEF History!Entry, History!Page
  <2>3. "other" \in {"other", "same", "opened"}
    OBVIOUS
  <2>4. p \in History!Page /\ p.deaf = FALSE
    BY <1>a, <2>3, HistoryPageSet
  <2> HIDE DEF d, p
  <2> QED
    BY <1>a, <2>1, <2>2, <2>4, HistoryShown
<1>8. CASE UNCHANGED History!vars
  BY <1>8 DEF History!vars, HistoryInv, History!TypeOK, History!HistoryFits, History!State
<1> QED
  BY <1>1, <1>2, <1>3, <1>4, <1>5, <1>6, <1>7, <1>8 DEF History!Next

\* Back goes to the folder shown before (useFolderNavigation, CommonModal).
THEOREM WebHistoryFits == Spec => []HistoryFits
<1> DEFINE I == part = "history" => HistoryInv
<1>1. Init => I
  BY HistoryInit DEF Init
<1>2. I /\ [Next]_vars => I'
  <2> SUFFICES ASSUME I, [Next]_vars, part' = "history" PROVE HistoryInv'
    OBVIOUS
  <2>1. part' = part
    BY DEF Next, vars
  <2>2. [History!Next]_(History!vars)
    <3>1. CASE UNCHANGED vars
      BY <3>1 DEF vars, histVars, History!vars
    <3>2. CASE Next
      BY <2>1, <3>2 DEF Next
    <3> QED
      BY <3>1, <3>2
  <2> QED
    BY <2>1, <2>2, HistoryStep
<1>3. I => HistoryFits
  BY DEF HistoryInv, HistoryFits
<1> QED
  BY <1>1, <1>2, <1>3, PTL DEF Spec

-----------------------------------------------------------------------------
\* UploadToast.

\* The timer runs only after the effects have seen that all uploads have ended.
ToastInv ==
    /\ Toast!TypeOK
    /\ toast.timer = "on" => toast.finished

LEMMA PushesBound == MaxPushes \in Nat
BY BoundsAssumption

LEMMA ToastInit == Toast!Init => ToastInv
<1> SUFFICES ASSUME Toast!Init PROVE ToastInv
  OBVIOUS
<1> USE PushesBound
<1>1. boxes \in [Upload -> Toast!Status]
  BY DEF Toast!Init, Toast!Status
<1>2. "none" \in {"none", "off", "on"}
  OBVIOUS
<1>3. toast = [show |-> FALSE, finished |-> FALSE, timer |-> "none"]
  BY DEF Toast!Init
<1>4. toast \in [show : BOOLEAN, finished : BOOLEAN, timer : {"none", "off", "on"}]
  BY <1>2, <1>3
<1> QED
  BY <1>1, <1>3, <1>4 DEF ToastInv, Toast!TypeOK, Toast!Init

LEMMA ToastWithout ==
  ASSUME NEW gone, boxes \in [Upload -> Toast!Status]
  PROVE  Toast!Without(gone) \in [Upload -> Toast!Status]
BY DEF Toast!Without, Toast!Status

LEMMA ToastStep == ToastInv /\ [Toast!Next]_(Toast!vars) => ToastInv'
<1> SUFFICES ASSUME ToastInv, [Toast!Next]_(Toast!vars) PROVE ToastInv'
  OBVIOUS
<1> USE PushesBound
<1> DEFINE Timer == {"none", "off", "on"}
           T == [show : BOOLEAN, finished : BOOLEAN, timer : Timer]
<1>a. /\ boxes \in [Upload -> Toast!Status] /\ toast \in T
      /\ closing \subseteq SUBSET Upload /\ cancels \subseteq Upload /\ pushes \in 0..MaxPushes
      /\ toast.timer = "on" => toast.finished
  BY DEF ToastInv, Toast!TypeOK
<1>b. Toast!Push => pushes' \in 0..MaxPushes
  BY <1>a DEF Toast!Push
<1>c. Toast!Stopped(toast.timer) \in Timer \ {"on"}
  BY DEF Toast!Stopped
<1>d. Toast!IsFinished \in BOOLEAN
  BY DEF Toast!IsFinished
<1>e. "on" \in Timer /\ "off" \in Timer /\ "off" # "on"
  OBVIOUS
<1>g. ASSUME boxes' \in [Upload -> Toast!Status], toast' \in T, toast'.timer = "on" => toast'.finished,
             closing' \subseteq SUBSET Upload, cancels' \subseteq Upload, pushes' \in 0..MaxPushes
      PROVE  ToastInv'
  BY <1>g DEF ToastInv, Toast!TypeOK
<1> HIDE DEF Timer
<1>h. toast.show \in BOOLEAN /\ toast.finished \in BOOLEAN /\ toast.timer \in Timer
  BY <1>a
<1>1. ASSUME NEW new \in SUBSET Upload, Toast!OnUpload(new)
      PROVE  ToastInv'
  <2>1. boxes' \in [Upload -> Toast!Status]
    BY <1>1, <1>a DEF Toast!OnUpload, Toast!Status
  <2> QED
    BY <1>1, <1>a, <1>b, <1>g, <2>1 DEF Toast!OnUpload
<1>2. ASSUME Toast!Sweep
      PROVE  ToastInv'
  BY <1>2, <1>a, <1>g, ToastWithout DEF Toast!Sweep
<1>3. ASSUME Toast!Effects
      PROVE  ToastInv'
  <2>1. CASE Toast!IsFinished
    <3>1. toast' = [show |-> TRUE, finished |-> TRUE, timer |-> "on"]
      BY <1>3, <2>1 DEF Toast!Effects
    <3>2. toast' \in T /\ toast'.finished
      BY <1>e, <3>1
    <3> QED
      BY <1>3, <1>a, <1>g, <3>2 DEF Toast!Effects
  <2>2. CASE ~Toast!IsFinished
    <3>1. toast' = [show |-> FALSE, finished |-> FALSE, timer |-> Toast!Stopped(toast.timer)]
      BY <1>3, <2>2 DEF Toast!Effects
    <3> DEFINE s == Toast!Stopped(toast.timer)
    <3> HIDE DEF s
    <3>2. toast' = [show |-> FALSE, finished |-> FALSE, timer |-> s] /\ s \in Timer /\ s # "on"
      BY <1>c, <3>1 DEF s
    <3>3. toast' \in T /\ toast'.timer # "on"
      BY <3>2
    <3> QED
      BY <1>3, <1>a, <1>g, <3>3 DEF Toast!Effects
  <2> QED
    BY <2>1, <2>2
<1>4. ASSUME Toast!ResetTimer
      PROVE  ToastInv'
  <2>1. toast' = [toast EXCEPT !.timer = "on"] /\ toast.finished
    BY <1>4 DEF Toast!ResetTimer
  <2>2. toast' \in T /\ toast'.finished
    BY <1>a, <1>e, <2>1
  <2> QED
    BY <1>4, <1>a, <1>g, <2>2 DEF Toast!ResetTimer
<1>5. ASSUME Toast!AutoClose
      PROVE  ToastInv'
  <2> DEFINE t == [toast EXCEPT !.show = FALSE]
  <2>1. t \in T
    BY <1>a
  <2>2. toast' = [t EXCEPT !.timer = "off"]
    BY <1>5 DEF Toast!AutoClose
  <2> HIDE DEF t
  <2>3. toast' \in T /\ toast'.timer # "on"
    BY <1>e, <2>1, <2>2
  <2> QED
    BY <1>5, <1>a, <1>g, <2>3, ToastWithout DEF Toast!AutoClose
<1>6. ASSUME Toast!HandleClose
      PROVE  ToastInv'
  <2> DEFINE s == Toast!Stopped(toast.timer)
  <2>1. toast' = [toast EXCEPT !.timer = s]
    BY <1>6 DEF Toast!HandleClose
  <2>2. s \in Timer /\ s # "on"
    BY <1>c
  <2> HIDE DEF s
  <2>3. toast' \in T /\ toast'.timer # "on"
    BY <1>a, <2>1, <2>2
  <2>4. closing' \subseteq SUBSET Upload
    BY <1>6, <1>a DEF Toast!HandleClose, Toast!ActiveUploads
  <2> QED
    BY <1>6, <1>a, <1>b, <1>g, <2>3, <2>4 DEF Toast!HandleClose
<1>7. ASSUME Toast!CloseEnds
      PROVE  ToastInv'
  <2>1. toast' = [toast EXCEPT !.show = FALSE]
    BY <1>7 DEF Toast!CloseEnds
  <2>2. toast' \in T /\ toast'.timer = toast.timer /\ toast'.finished = toast.finished
    BY <1>a, <2>1
  <2> QED
    BY <1>7, <1>a, <1>g, <2>2, ToastWithout DEF Toast!CloseEnds
<1>8. ASSUME NEW u \in Upload, Toast!UpdateStatus(u)
      PROVE  ToastInv'
  <2>1. boxes' \in [Upload -> Toast!Status]
    BY <1>8, <1>a DEF Toast!UpdateStatus, Toast!Status
  <2> QED
    BY <1>8, <1>a, <1>g, <2>1 DEF Toast!UpdateStatus
<1>9. ASSUME NEW u \in Upload, Toast!OnCancelUpload(u)
      PROVE  ToastInv'
  BY <1>9, <1>a, <1>b, <1>g DEF Toast!OnCancelUpload
<1>10. ASSUME NEW u \in Upload, Toast!Cancelled(u)
       PROVE  ToastInv'
  BY <1>10, <1>a, <1>g, ToastWithout DEF Toast!Cancelled
<1>11. ASSUME NEW left \in closing, NEW u \in left, Toast!CloseCancels(left, u)
       PROVE  ToastInv'
  <2>1. closing' \subseteq SUBSET Upload
    BY <1>11, <1>a DEF Toast!CloseCancels
  <2> QED
    BY <1>11, <1>a, <1>g, <2>1, ToastWithout DEF Toast!CloseCancels
<1>12. CASE UNCHANGED Toast!vars
  BY <1>12, <1>a, <1>g DEF Toast!vars
<1> QED
  BY <1>1, <1>2, <1>3, <1>4, <1>5, <1>6, <1>7, <1>8, <1>9, <1>10, <1>11, <1>12 DEF Toast!Next

\* Which steps take the row of an upload away.
LEMMA ToastSeen ==
  ASSUME ToastInv, [Toast!Next]_(Toast!vars),
         NEW u \in Upload, boxes[u] \in Toast!UnderWay, boxes'[u] = "gone", u \notin cancels
  PROVE  Toast!Sweep \/ closing # {} \/ toast.finished # Toast!IsFinished
<1> SUFFICES ASSUME closing = {}, toast.finished = Toast!IsFinished PROVE Toast!Sweep
  OBVIOUS
<1>a. boxes[u] \in {"waiting", "uploading"} /\ boxes[u] # "gone" /\ boxes' # boxes
  BY DEF Toast!UnderWay
<1>b. ~Toast!IsFinished
  BY DEF Toast!IsFinished
<1>c. boxes \in [Upload -> Toast!Status] /\ (toast.timer = "on" => toast.finished)
  BY DEF ToastInv, Toast!TypeOK
<1>1. ~\E new \in SUBSET Upload : Toast!OnUpload(new)
  <2> SUFFICES ASSUME NEW new \in SUBSET Upload, Toast!OnUpload(new) PROVE FALSE
    OBVIOUS
  <2>1. boxes'[u] = (IF u \in new THEN "waiting" ELSE boxes[u])
    BY DEF Toast!OnUpload
  <2> QED
    BY <1>a, <2>1
<1>2. ~Toast!Effects /\ ~Toast!ResetTimer /\ ~Toast!HandleClose
  BY <1>a DEF Toast!Effects, Toast!ResetTimer, Toast!HandleClose
<1>3. ~Toast!AutoClose
  BY <1>b, <1>c DEF Toast!AutoClose
<1>4. ~Toast!CloseEnds
  BY DEF Toast!CloseEnds
<1>5. ~\E v \in Upload : Toast!UpdateStatus(v)
  <2> SUFFICES ASSUME NEW v \in Upload, Toast!UpdateStatus(v) PROVE FALSE
    OBVIOUS
  <2>1. PICK s \in {"waiting", "uploading", "completed", "error"} : boxes' = [boxes EXCEPT ![v] = s]
    BY DEF Toast!UpdateStatus
  <2>2. s # "gone"
    OBVIOUS
  <2>3. boxes'[u] = (IF u = v THEN s ELSE boxes[u])
    BY <1>c, <2>1
  <2> QED
    BY <1>a, <2>2, <2>3
<1>6. ~\E v \in Upload : Toast!OnCancelUpload(v)
  BY <1>a DEF Toast!OnCancelUpload
<1>7. ~\E v \in Upload : Toast!Cancelled(v)
  <2> SUFFICES ASSUME NEW v \in Upload, Toast!Cancelled(v) PROVE FALSE
    OBVIOUS
  <2>1. v \in cancels /\ boxes' = Toast!Without({v} \cap Toast!ActiveUploads)
    BY DEF Toast!Cancelled
  <2>2. boxes'[u] = boxes[u]
    BY <2>1 DEF Toast!Without
  <2> QED
    BY <1>a, <2>2
<1>8. ~UNCHANGED Toast!vars
  BY <1>a DEF Toast!vars
<1> QED
  BY <1>1, <1>2, <1>3, <1>4, <1>5, <1>6, <1>7, <1>8 DEF Toast!Next

\* The row of an upload does not go while the upload is under way (UploadProgressToast).
THEOREM WebUploadsSeen == Spec => UploadsSeen
<1> DEFINE A == (\E u \in Upload : boxes[u] \in Toast!UnderWay /\ boxes'[u] = "gone" /\ u \notin cancels) =>
                    Toast!Sweep \/ closing # {} \/ toast.finished # Toast!IsFinished
           I == part = "toast" => Toast!TypeOK
<1>1. Init => ToastInv
  BY ToastInit DEF Init
<1>2. [Next]_vars => [Toast!Next]_(Toast!vars)
  <2> SUFFICES ASSUME [Next]_vars PROVE [Toast!Next]_(Toast!vars)
    OBVIOUS
  <2>1. CASE UNCHANGED vars
    BY <2>1 DEF vars, smallVars, toastVars, Toast!vars
  <2>2. CASE Next
    BY <2>2 DEF Next, smallVars, toastVars, Toast!vars
  <2> QED
    BY <2>1, <2>2
<1>3. ToastInv /\ [Next]_vars => ToastInv'
  BY <1>2, ToastStep
<1>4. ToastInv /\ [Next]_vars => [A]_(Toast!vars)
  BY <1>2, ToastSeen
<1>5. ToastInv => I
  BY DEF ToastInv
<1>6. Spec => []I /\ [][A]_(Toast!vars)
  BY <1>1, <1>3, <1>4, <1>5, PTL DEF Spec
<1> QED
  BY <1>6 DEF UploadsSeen, Toast!UploadsSeen

-----------------------------------------------------------------------------
\* SearchBox.

\* Unless requests overlapped or failed since the timer ended, the one search under way
\* is for the text of the field, and without one the results are those of the text.
SearchInv ==
    /\ Search!TypeOK
    /\ ~box.timer /\ ~box.mixed =>
        /\ searches \subseteq {box.query}
        /\ searches # {} => box.searching
        /\ ~box.failed /\ searches = {} => box.list = Search!ResultsOf(box.query)

LEMMA TypedBound == MaxTyped \in Nat
BY BoundsAssumption

LEMMA SearchInit == Search!Init => SearchInv
<1> SUFFICES ASSUME Search!Init PROVE SearchInv
  OBVIOUS
<1>1. box = [query |-> None, timer |-> TRUE, searching |-> FALSE, list |-> None, mixed |-> FALSE, failed |-> FALSE]
  BY DEF Search!Init
<1>2. box \in Search!Box
  BY <1>1 DEF Search!Box
<1> QED
  BY <1>1, <1>2, TypedBound DEF SearchInv, Search!TypeOK, Search!Init

LEMMA SearchResults == ASSUME NEW q PROVE Search!ResultsOf(q) \in Found \cup {None}
BY DEF Search!ResultsOf

\* A text that is not searched for has no results.
LEMMA SearchNothing == ASSUME NEW q, q \notin Long PROVE Search!ResultsOf(q) = None
BY FoundAssumption DEF Search!ResultsOf

LEMMA SearchStep == SearchInv /\ [Search!Next]_(Search!vars) => SearchInv'
<1> SUFFICES ASSUME SearchInv, [Search!Next]_(Search!vars) PROVE SearchInv'
  OBVIOUS
<1>a. box \in Search!Box /\ searches \subseteq Long /\ typed \in 0..MaxTyped
  BY DEF SearchInv, Search!TypeOK
<1>b. ~box.timer /\ ~box.mixed =>
        /\ searches \subseteq {box.query}
        /\ searches # {} => box.searching
        /\ ~box.failed /\ searches = {} => box.list = Search!ResultsOf(box.query)
  BY DEF SearchInv
<1>1. ASSUME NEW q \in Long \cup Blank \cup {None}, Search!SetSearchQuery(q)
      PROVE  SearchInv'
  <2>1. box' = [box EXCEPT !.query = q, !.timer = TRUE] /\ searches' = searches /\ typed' \in 0..MaxTyped
    BY <1>1, <1>a, TypedBound DEF Search!SetSearchQuery
  <2>2. q \in Long \cup Blank \cup {None}
    BY <1>1
  <2>3. box' \in Search!Box /\ box'.timer
    BY <1>a, <2>1, <2>2 DEF Search!Box
  <2> QED
    BY <1>a, <2>1, <2>3 DEF SearchInv, Search!TypeOK
<1>2. ASSUME Search!Debounced
      PROVE  SearchInv'
  <2> DEFINE m == searches # {}
  <2>1. typed' = typed /\ m \in BOOLEAN
    BY <1>2 DEF Search!Debounced
  <2>2. CASE box.query \in Long
    <3>1. searches' = searches \cup {box.query}
          /\ box' = [box EXCEPT !.timer = FALSE, !.searching = TRUE, !.mixed = m, !.failed = FALSE]
      BY <1>2, <2>2 DEF Search!Debounced
    <3>2. ~m => searches = {}
      OBVIOUS
    <3> HIDE DEF m
    <3>3. box' \in Search!Box /\ box'.query = box.query /\ box'.searching /\ box'.mixed = m
      BY <1>a, <2>1, <3>1 DEF Search!Box
    <3> QED
      BY <1>a, <2>1, <2>2, <3>1, <3>2, <3>3 DEF SearchInv, Search!TypeOK
  <2>3. CASE box.query \notin Long
    <3>1. searches' = searches
          /\ box' = [box EXCEPT !.timer = FALSE, !.list = None, !.mixed = m, !.failed = FALSE]
      BY <1>2, <2>3 DEF Search!Debounced
    <3>2. ~m => searches = {}
      OBVIOUS
    <3> HIDE DEF m
    <3>3. box' \in Search!Box /\ box'.query = box.query /\ box'.list = None /\ box'.mixed = m
      BY <1>a, <2>1, <3>1 DEF Search!Box
    <3>4. Search!ResultsOf(box'.query) = None
      BY <2>3, <3>3, SearchNothing
    <3>5. Search!ResultsOf(box.query)' = Search!ResultsOf(box'.query)
      BY DEF Search!ResultsOf
    <3> QED
      BY <1>a, <2>1, <3>1, <3>2, <3>3, <3>4, <3>5 DEF SearchInv, Search!TypeOK
  <2> QED
    BY <2>2, <2>3
<1>3. ASSUME NEW q \in searches, NEW ok \in BOOLEAN, Search!Answered(q, ok)
      PROVE  SearchInv'
  <2> DEFINE r == IF ok THEN Search!ResultsOf(q) ELSE box.list
             f == box.failed \/ ~ok
  <2>1. searches' = searches \ {q} /\ typed' = typed
        /\ box' = [box EXCEPT !.list = r, !.searching = FALSE, !.failed = f]
    BY <1>3 DEF Search!Answered
  <2>2. r \in Found \cup {None} /\ f \in BOOLEAN
    BY <1>a, SearchResults DEF Search!Box
  <2>3. ~f => ok /\ r = Search!ResultsOf(q) /\ ~box.failed
    OBVIOUS
  <2> HIDE DEF r, f
  <2>4. box' \in Search!Box /\ box'.query = box.query /\ box'.timer = box.timer /\ box'.mixed = box.mixed
        /\ box'.list = r /\ box'.failed = f
    BY <1>a, <2>1, <2>2 DEF Search!Box
  <2>5. ~box.timer /\ ~box.mixed => q = box.query /\ searches' = {}
    BY <1>3, <1>b, <2>1
  <2>6. Search!ResultsOf(box.query)' = Search!ResultsOf(box.query)
    BY <2>4 DEF Search!ResultsOf
  <2> QED
    BY <1>a, <2>1, <2>3, <2>4, <2>5, <2>6 DEF SearchInv, Search!TypeOK
<1>4. CASE UNCHANGED Search!vars
  <2>1. box' = box /\ searches' = searches /\ typed' = typed
    BY <1>4 DEF Search!vars
  <2>2. Search!ResultsOf(box.query)' = Search!ResultsOf(box.query)
    BY <2>1 DEF Search!ResultsOf
  <2> QED
    BY <2>1, <2>2 DEF SearchInv, Search!TypeOK
<1> QED
  BY <1>1, <1>2, <1>3, <1>4 DEF Search!Next, Search!Type, Search!ClickOutside, Search!SearchResultClick

LEMMA SearchShown == SearchInv => Search!SearchFits
<1> SUFFICES ASSUME SearchInv, box.query # None, ~box.timer, ~box.searching, ~box.mixed, ~box.failed
             PROVE  Search!Suggestions = Search!ResultsOf(box.query)
  BY DEF Search!SearchFits
<1>1. searches = {} /\ box.list = Search!ResultsOf(box.query)
  BY DEF SearchInv
<1> QED
  BY <1>1 DEF Search!Suggestions

LEMMA SearchHolds == Spec => [](Search!TypeOK /\ Search!SearchFits)
<1>1. Init => SearchInv
  BY SearchInit DEF Init
<1>2. ASSUME [Next]_vars PROVE [Search!Next]_(Search!vars)
  <2>1. CASE UNCHANGED vars
    BY <2>1 DEF vars, smallVars, boxVars, Search!vars
  <2>2. CASE Next
    BY <2>2 DEF Next, smallVars, boxVars, Search!vars
  <2> QED
    BY <1>2, <2>1, <2>2
<1>3. SearchInv => Search!TypeOK /\ Search!SearchFits
  BY SearchShown DEF SearchInv
<1> QED
  BY <1>1, <1>2, <1>3, SearchStep, PTL DEF Spec

-----------------------------------------------------------------------------
\* SharesList.

Loads == {c \in requests : c.to = "all"}

\* The server has done an operation on the link, and the answer is on its way.
Answering(l) == \E c \in requests : c.to # "all" /\ c.done /\ c.link = l

\* The links of a list are the ones that work, up to those whose answer will have the
\* list loaded anew.
Current(ls) == \A l \in Link :
    /\ state[l] = "live" => l \in ls \/ Answering(l)
    /\ l \in ls /\ state[l] = "gone" => Answering(l)

\* While the drawing is to be relied on at most one load is under way, and what it
\* brings, or without it what is drawn, is current.
ListInv ==
    /\ Sharing!TypeOK
    /\ list.sure =>
        /\ \A c, d \in Loads : c = d
        /\ \A c \in Loads : c.done => Current(c.got)
        /\ Loads = {} => Current(list.drawn)

LEMMA OpsBound == MaxOps \in Nat
BY BoundsAssumption

\* The requests by what they are for.
LEMMA ListCalls ==
  /\ Sharing!Load \in Sharing!Calls /\ Sharing!Load.to = "all" /\ ~Sharing!Load.done
  /\ \A c \in Sharing!Calls :
        /\ c.done \in BOOLEAN
        /\ c.to = "all" => /\ c.got \subseteq Link /\ c.to \notin Sharing!Kind
                           /\ \A g \in SUBSET Link : [c EXCEPT !.got = g, !.done = TRUE] \in Sharing!Calls
                           /\ \A g \in SUBSET Link : [c EXCEPT !.got = g, !.done = TRUE].to = "all"
                           /\ \A g \in SUBSET Link : [c EXCEPT !.got = g, !.done = TRUE].got = g
        /\ c.to # "all" => /\ c.to \in Sharing!Kind /\ c.link \in Link
                           /\ [c EXCEPT !.done = TRUE] \in Sharing!Calls /\ [c EXCEPT !.done = TRUE].done
                           /\ [c EXCEPT !.done = TRUE].to = c.to /\ [c EXCEPT !.done = TRUE].link = c.link
  /\ \A k \in Sharing!Kind, l \in Link :
        /\ [to |-> k, link |-> l, done |-> FALSE] \in Sharing!Calls
        /\ k # "all"
<1> DEFINE Os == [to : Sharing!Kind, link : Link, done : BOOLEAN]
           Ls == [to : {"all"}, got : SUBSET Link, done : BOOLEAN]
<1>1. Sharing!Calls = Os \cup Ls
  BY DEF Sharing!Calls
<1>2. \A k \in Sharing!Kind : k # "all"
  BY DEF Sharing!Kind
<1>3. Sharing!Load \in Ls /\ Sharing!Load.to = "all" /\ ~Sharing!Load.done
  BY DEF Sharing!Load
<1>4. ASSUME NEW c \in Os
      PROVE  /\ c.to \in Sharing!Kind /\ c.link \in Link /\ c.done \in BOOLEAN
             /\ [c EXCEPT !.done = TRUE] \in Os /\ [c EXCEPT !.done = TRUE].done
             /\ [c EXCEPT !.done = TRUE].to = c.to /\ [c EXCEPT !.done = TRUE].link = c.link
  OBVIOUS
<1>5. ASSUME NEW c \in Ls
      PROVE  /\ c.to = "all" /\ c.done \in BOOLEAN /\ c.got \subseteq Link
             /\ \A g \in SUBSET Link : [c EXCEPT !.got = g, !.done = TRUE] \in Ls
             /\ \A g \in SUBSET Link : [c EXCEPT !.got = g, !.done = TRUE].to = "all"
             /\ \A g \in SUBSET Link : [c EXCEPT !.got = g, !.done = TRUE].got = g
  OBVIOUS
<1>6. \A k \in Sharing!Kind, l \in Link : [to |-> k, link |-> l, done |-> FALSE] \in Os
  OBVIOUS
<1> HIDE DEF Os, Ls
<1>7. \A c \in Ls : c.to \notin Sharing!Kind
  BY <1>2, <1>5
<1>8. \A c \in Os : c.to # "all"
  BY <1>2, <1>4
<1> QED
  BY <1>1, <1>2, <1>3, <1>4, <1>5, <1>6, <1>7, <1>8

LEMMA ListInit == Sharing!Init => ListInv
<1> SUFFICES ASSUME Sharing!Init PROVE ListInv
  OBVIOUS
<1>1. /\ list = [drawn |-> {}, sure |-> TRUE] /\ requests = {Sharing!Load} /\ operations = 0
      /\ state \in [Link -> {"unused", "live"}]
  BY DEF Sharing!Init
<1>2. state \in [Link -> {"unused", "live", "expired", "gone"}]
  BY <1>1
<1>3. list \in [drawn : SUBSET Link, sure : BOOLEAN]
  BY <1>1
<1>4. Sharing!TypeOK
  <2>1. requests \subseteq Sharing!Calls
    BY <1>1, ListCalls
  <2>2. operations \in 0..MaxOps
    BY <1>1, OpsBound
  <2> QED
    BY <1>2, <1>3, <2>1, <2>2 DEF Sharing!TypeOK
<1>5. Loads = {Sharing!Load}
  BY <1>1, ListCalls DEF Loads
<1> QED
  BY <1>4, <1>5, ListCalls DEF ListInv

\* What is current stays so while no answer goes and no link changes but one that an
\* answer is on its way for.
LEMMA CurrentKept ==
  ASSUME NEW ls, Current(ls),
         \A l \in Link : state'[l] # state[l] => Answering(l)' \/ state'[l] = "expired",
         \A l \in Link : Answering(l) => Answering(l)'
  PROVE  Current(ls)'
BY DEF Current

LEMMA AnsweringKept ==
  ASSUME \A c \in requests : c.done /\ c.to # "all" => c \in requests'
  PROVE  \A l \in Link : Answering(l) => Answering(l)'
BY DEF Answering

LEMMA ListStep == ListInv /\ [Sharing!Next]_(Sharing!vars) => ListInv'
<1> SUFFICES ASSUME ListInv, [Sharing!Next]_(Sharing!vars) PROVE ListInv'
  OBVIOUS
<1> DEFINE States == {"unused", "live", "expired", "gone"}
           Lists == [drawn : SUBSET Link, sure : BOOLEAN]
<1>a. /\ state \in [Link -> States] /\ list \in Lists
      /\ requests \subseteq Sharing!Calls /\ operations \in 0..MaxOps
  BY DEF ListInv, Sharing!TypeOK
<1>b. list.sure => /\ \A c, d \in Loads : c = d
                   /\ \A c \in Loads : c.done => Current(c.got)
                   /\ Loads = {} => Current(list.drawn)
  BY DEF ListInv
<1>c. Sharing!TypeOK' <=> /\ state' \in [Link -> States] /\ list' \in Lists
                          /\ requests' \subseteq Sharing!Calls /\ operations' \in 0..MaxOps
  BY DEF Sharing!TypeOK
<1>d. "unused" \in States /\ "live" \in States /\ "expired" \in States /\ "gone" \in States /\ "expired" # "live"
  OBVIOUS
<1>e. \A s \in [Link -> States], l \in Link, x \in States : [s EXCEPT ![l] = x] \in [Link -> States]
  OBVIOUS
<1>f. \A s \in BOOLEAN, ls \in SUBSET Link : [drawn |-> ls, sure |-> s] \in Lists
  OBVIOUS
<1>g. list.drawn \subseteq Link /\ list.sure \in BOOLEAN
  BY <1>a
<1>h. \A s \in BOOLEAN : [list EXCEPT !.sure = s] = [drawn |-> list.drawn, sure |-> s]
  BY <1>a
<1>i. \A ls \in SUBSET Link : [list EXCEPT !.drawn = ls] = [drawn |-> ls, sure |-> list.sure]
  BY <1>a
<1>j. \A c \in Sharing!Calls : c.done \in BOOLEAN /\ (c.to \in Sharing!Kind <=> c.to # "all")
  BY ListCalls
<1>1. ASSUME NEW c \in requests, Sharing!Serve(c), c.to = "all"
      PROVE  ListInv'
  <2>0. PICK g \in SUBSET Link : g = Sharing!In("live")
    BY DEF Sharing!In
  <2> DEFINE d == [c EXCEPT !.got = g, !.done = TRUE]
  <2>1. /\ ~c.done /\ state' = state /\ list' = list /\ operations' = operations
        /\ requests' = (requests \ {c}) \cup {d}
    BY <1>1, <2>0 DEF Sharing!Serve
  <2>2. \A l \in Link : l \in g <=> state[l] = "live"
    BY <2>0 DEF Sharing!In
  <2>3. c \in Sharing!Calls
    BY <1>1, <1>a
  <2>4. d \in Sharing!Calls /\ d.to = "all" /\ d.got = g
    <3>1. /\ \A h \in SUBSET Link : [c EXCEPT !.got = h, !.done = TRUE] \in Sharing!Calls
          /\ \A h \in SUBSET Link : [c EXCEPT !.got = h, !.done = TRUE].to = "all"
          /\ \A h \in SUBSET Link : [c EXCEPT !.got = h, !.done = TRUE].got = h
      BY <1>1, <2>3, ListCalls
    <3> QED
      BY <2>0, <3>1
  <2> HIDE DEF d
  <2>5. Sharing!TypeOK'
    BY <1>a, <1>c, <2>1, <2>4
  <2>6. Loads' = (Loads \ {c}) \cup {d} /\ c \in Loads
    BY <1>1, <2>1, <2>4 DEF Loads
  <2>7. Current(g)'
    BY <2>1, <2>2 DEF Current
  <2> QED
    BY <1>b, <2>1, <2>4, <2>5, <2>6, <2>7 DEF ListInv
<1>2. ASSUME NEW c \in requests, Sharing!Serve(c), c.to # "all"
      PROVE  ListInv'
  <2> DEFINE d == [c EXCEPT !.done = TRUE]
  <2>1. /\ ~c.done /\ list' = list /\ operations' = operations
        /\ requests' = (requests \ {c}) \cup {d}
        /\ state' = CASE c.to = "create" /\ state[c.link] = "unused" -> [state EXCEPT ![c.link] = "live"]
                      [] c.to \in {"revoke", "delete"} -> [state EXCEPT ![c.link] = "gone"]
                      [] OTHER -> state
    BY <1>2 DEF Sharing!Serve
  <2>2. d \in Sharing!Calls /\ d.done /\ d.to # "all" /\ d.link = c.link /\ c.link \in Link
    BY <1>2, <1>a, ListCalls
  <2> HIDE DEF d
  <2>3. state' = state \/ state' = [state EXCEPT ![c.link] = "live"] \/ state' = [state EXCEPT ![c.link] = "gone"]
    BY <2>1
  <2>4. state' \in [Link -> States]
    BY <1>a, <1>d, <1>e, <2>2, <2>3
  <2>5. \A l \in Link : l # c.link => state'[l] = state[l]
    BY <1>a, <2>3
  <2>6. Answering(c.link)'
    BY <2>1, <2>2 DEF Answering
  <2>7. \A l \in Link : Answering(l) => Answering(l)'
    BY <2>1, AnsweringKept
  <2>8. \A l \in Link : state'[l] # state[l] => Answering(l)' \/ state'[l] = "expired"
    BY <2>5, <2>6
  <2>9. \A ls : Current(ls) => Current(ls)'
    BY <2>7, <2>8, CurrentKept
  <2>10. Loads' = Loads
    BY <1>2, <2>1, <2>2 DEF Loads
  <2>11. Sharing!TypeOK'
    BY <1>a, <1>c, <2>1, <2>2, <2>4
  <2>12. list'.drawn = list.drawn
    BY <2>1
  <2>13. \A e \in Loads : Current(e.got) => Current(e.got)'
    BY <2>7, <2>8 DEF Current
  <2>14. Current(list.drawn) => Current(list.drawn)'
    BY <2>1, <2>7, <2>8 DEF Current
  <2> QED
    BY <1>b, <2>1, <2>10, <2>11, <2>13, <2>14 DEF ListInv
<1>3. ASSUME NEW c \in requests, Sharing!Listed(c)
      PROVE  ListInv'
  <2> DEFINE ls == Sharing!ActiveShares(c.got)
  <2>1. c.to = "all" /\ c.done /\ state' = state /\ operations' = operations /\ requests' = requests \ {c}
        /\ list' = [list EXCEPT !.drawn = ls]
    BY <1>3 DEF Sharing!Listed
  <2>2. c.got \subseteq Link
    BY <1>a, <2>1, ListCalls
  <2>3. \A l \in Link : l \in ls <=> l \in c.got /\ state[l] # "expired"
    BY DEF Sharing!ActiveShares, Sharing!In
  <2>4. ls \in SUBSET Link
    BY <2>2 DEF Sharing!ActiveShares
  <2> HIDE DEF ls
  <2>5. list' \in Lists /\ list'.drawn = ls /\ list'.sure = list.sure
    BY <1>f, <1>g, <1>i, <2>1, <2>4
  <2>6. Sharing!TypeOK'
    BY <1>a, <1>c, <2>1, <2>5
  <2>7. Loads' = Loads \ {c} /\ c \in Loads
    BY <2>1 DEF Loads
  <2>8. \A l \in Link : Answering(l) => Answering(l)'
    BY <2>1, AnsweringKept
  <2>9. Current(c.got) => Current(list.drawn)'
    BY <1>d, <2>1, <2>3, <2>5, <2>8 DEF Current
  <2> QED
    BY <1>b, <2>1, <2>5, <2>6, <2>7, <2>9 DEF ListInv
<1>4. ASSUME NEW c \in requests, Sharing!ListFails(c)
      PROVE  ListInv'
  <2>1. state' = state /\ operations' = operations /\ requests' = requests \ {c} /\ list' = [list EXCEPT !.sure = FALSE]
    BY <1>4 DEF Sharing!ListFails
  <2>2. list' \in Lists /\ ~list'.sure
    <3>1. list' = [drawn |-> list.drawn, sure |-> FALSE]
      BY <1>h, <2>1
    <3> QED
      BY <1>f, <1>g, <3>1
  <2> QED
    BY <1>a, <1>c, <2>1, <2>2 DEF ListInv
<1>5. ASSUME NEW c \in requests, Sharing!OperationEnds(c)
      PROVE  ListInv'
  <2> DEFINE s == \A d \in requests \ {c} : d.to # "all"
  <2>1. state' = state /\ operations' = operations /\ requests' = (requests \ {c}) \cup {Sharing!Load}
        /\ list' = [list EXCEPT !.sure = s]
    BY <1>5 DEF Sharing!OperationEnds, Sharing!Refreshed
  <2>2. s \in BOOLEAN
    OBVIOUS
  <2>3. s => Loads' = {Sharing!Load}
    BY <2>1, ListCalls DEF Loads
  <2> HIDE DEF s
  <2>4. list' \in Lists /\ list'.sure = s
    BY <1>f, <1>g, <1>h, <2>1, <2>2
  <2>5. Sharing!TypeOK'
    BY <1>a, <1>c, <2>1, <2>4, ListCalls
  <2> QED
    BY <2>3, <2>4, <2>5, ListCalls DEF ListInv
<1>6. ASSUME NEW c \in requests, Sharing!OperationFails(c)
      PROVE  ListInv'
  <2> DEFINE s == list.sure /\ ~c.done
  <2>1. state' = state /\ operations' = operations /\ requests' = requests \ {c} /\ c.to \in Sharing!Kind
        /\ list' = [list EXCEPT !.sure = s]
    BY <1>6 DEF Sharing!OperationFails
  <2>2. s \in BOOLEAN /\ (s => list.sure /\ ~c.done)
    OBVIOUS
  <2> HIDE DEF s
  <2>3. list' \in Lists /\ list'.sure = s /\ list'.drawn = list.drawn
    BY <1>f, <1>g, <1>h, <2>1, <2>2
  <2>4. Sharing!TypeOK'
    BY <1>a, <1>c, <2>1, <2>3
  <2>5. c.to # "all"
    BY <1>a, <1>j, <2>1
  <2>6. Loads' = Loads
    BY <2>1, <2>5 DEF Loads
  <2>7. s => \A l \in Link : Answering(l) => Answering(l)'
    <3>1. s => \A d \in requests : d.done /\ d.to # "all" => d \in requests'
      BY <2>1, <2>2
    <3> QED
      BY <3>1, AnsweringKept
  <2>8. s => \A d \in Loads : Current(d.got) => Current(d.got)'
    BY <2>1, <2>7 DEF Current
  <2>9. s /\ Current(list.drawn) => Current(list.drawn)'
    BY <2>1, <2>3, <2>7 DEF Current
  <2> QED
    BY <1>b, <2>2, <2>3, <2>4, <2>6, <2>8, <2>9 DEF ListInv
<1>7. ASSUME NEW k \in Sharing!Kind, NEW l \in Link, Sharing!Ask(k, l)
      PROVE  ListInv'
  <2> DEFINE d == [to |-> k, link |-> l, done |-> FALSE]
  <2>1. state' = state /\ list' = list /\ requests' = requests \cup {d} /\ operations' \in 0..MaxOps
    BY <1>7, <1>a, OpsBound DEF Sharing!Ask
  <2>2. d \in Sharing!Calls /\ d.to # "all"
    BY ListCalls
  <2> HIDE DEF d
  <2>3. Loads' = Loads
    BY <2>1, <2>2 DEF Loads
  <2>4. \A i \in Link : Answering(i) => Answering(i)'
    BY <2>1, AnsweringKept
  <2>5. \A e \in Loads : Current(e.got) => Current(e.got)'
    BY <2>1, <2>4 DEF Current
  <2>6. Current(list.drawn) => Current(list.drawn)'
    BY <2>1, <2>4 DEF Current
  <2>7. Sharing!TypeOK'
    BY <1>a, <1>c, <2>1, <2>2
  <2> QED
    BY <1>b, <2>1, <2>3, <2>5, <2>6, <2>7 DEF ListInv
<1>8. ASSUME NEW l \in Link, Sharing!Expire(l)
      PROVE  ListInv'
  <2>1. state' = [state EXCEPT ![l] = "expired"] /\ list' = list /\ requests' = requests /\ operations' = operations
    BY <1>8 DEF Sharing!Expire
  <2>2. state' \in [Link -> States]
    BY <1>a, <1>d, <1>e, <2>1
  <2>3. \A i \in Link : state'[i] = state[i] \/ state'[i] = "expired"
    BY <1>a, <2>1
  <2>4. Loads' = Loads
    BY <2>1 DEF Loads
  <2>5. \A i \in Link : Answering(i) => Answering(i)'
    BY <2>1, AnsweringKept
  <2>6. \A e \in Loads : Current(e.got) => Current(e.got)'
    BY <2>3, <2>5 DEF Current
  <2>7. Current(list.drawn) => Current(list.drawn)'
    BY <2>1, <2>3, <2>5 DEF Current
  <2>8. Sharing!TypeOK'
    BY <1>a, <1>c, <2>1, <2>2
  <2> QED
    BY <1>b, <2>1, <2>4, <2>6, <2>7, <2>8 DEF ListInv
<1>9. CASE UNCHANGED Sharing!vars
  BY <1>9 DEF Sharing!vars, ListInv, Sharing!TypeOK, Loads, Current, Answering
<1>10. "create" \in Sharing!Kind /\ "revoke" \in Sharing!Kind /\ "delete" \in Sharing!Kind /\ "rename" \in Sharing!Kind
  BY DEF Sharing!Kind
<1> HIDE DEF States, Lists
<1>11. CASE \E l \in Link : Sharing!CreateShare(l) \/ Sharing!RevokeShare(l) \/ Sharing!Delete(l) \/ Sharing!Rename(l)
  BY <1>7, <1>10, <1>11 DEF Sharing!CreateShare, Sharing!RevokeShare, Sharing!Delete, Sharing!Rename
<1> QED
  BY <1>1, <1>2, <1>3, <1>4, <1>5, <1>6, <1>8, <1>9, <1>11 DEF Sharing!Next

LEMMA ListDrawn == ListInv => Sharing!ListedFits
<1> SUFFICES ASSUME ListInv, requests = {}, list.sure
             PROVE  Sharing!In("live") \subseteq list.drawn /\ list.drawn \cap Sharing!In("gone") = {}
  BY DEF Sharing!ListedFits
<1>1. Current(list.drawn)
  BY DEF ListInv, Loads
<1> QED
  BY <1>1 DEF Current, Answering, Sharing!In

LEMMA ListHolds == Spec => [](part = "sharing" => Sharing!TypeOK /\ Sharing!ListedFits)
<1> DEFINE I == part = "sharing" => ListInv
<1>1. Init => I
  BY ListInit DEF Init
<1>2. ASSUME I, [Next]_vars PROVE I'
  <2>1. part' = part
    BY <1>2 DEF Next, vars
  <2>2. ASSUME part = "sharing" PROVE [Sharing!Next]_(Sharing!vars)
    <3>1. CASE UNCHANGED vars
      BY <3>1 DEF vars, smallVars, listVars, Sharing!vars
    <3>2. CASE Next
      BY <2>2, <3>2 DEF Next, smallVars, listVars, Sharing!vars
    <3> QED
      BY <1>2, <3>1, <3>2
  <2> QED
    BY <1>2, <2>1, <2>2, ListStep
<1>3. I => (part = "sharing" => Sharing!TypeOK /\ Sharing!ListedFits)
  BY ListDrawn DEF ListInv
<1> HIDE DEF I
<1> QED
  BY <1>1, <1>2, <1>3, PTL DEF Spec

-----------------------------------------------------------------------------
\* ItemModals.

\* The requests of each window.
ShareCalls == {c \in calls : c.to = "create" \/ c.to = "list"}
LogCalls == {c \in calls : c.to = "logList" \/ c.to = "logs"}
ViewCalls == {c \in calls : c.to = "ticket" \/ c.to = "text"}

LinkTo(l, f) == l \in Link /\ f \in File /\ links[l].file = f

\* Unless it is mixed, what is under way is for the item of the window.
ShareInv ==
    /\ share.vis => share.file \in File
    /\ ~share.mixed =>
        /\ \A c \in ShareCalls : c.file = share.file /\ (c.to = "create" => c.perm = share.perm)
        /\ share.token # None => LinkTo(share.token, share.file) /\ links[share.token].perm = share.perm
        /\ ~share.failed /\ (\A c \in ShareCalls : c.to # "list") => \A l \in share.list : LinkTo(l, share.file)

\* Unless it is mixed or a request has failed, one request at most is under way, the
\* window loads while there is one, and but for a log under way the log is the one of
\* the tab.
LogInv ==
    ~log.mixed /\ ~log.failed =>
        /\ \A c, d \in LogCalls : c = d
        /\ LogCalls # {} => log.loading
        /\ \A c \in LogCalls : /\ c.to = "logs" => c.link = log.sel /\ LinkTo(log.sel, log.file)
                               /\ c.to = "logList" => c.file = log.file
        /\ (\A c \in LogCalls : c.to # "logs") => log.logs = log.sel
        /\ (\A c \in LogCalls : c.to # "logList") => \A l \in log.list : LinkTo(l, log.file)
        /\ LogCalls = {} /\ log.list # {} => LinkTo(log.sel, log.file)

\* A window that was closed over no request has nothing and asks for nothing.
ViewInv ==
    /\ ~view.vis /\ ~view.late => ViewCalls = {} /\ view.text = None /\ view.url = None
    /\ view.vis /\ ~view.mixed =>
        /\ \A c \in ViewCalls : c.file = view.file
        /\ {view.text, view.url} \subseteq {view.file, None}

ModalsInv == Modals!TypeOK /\ ShareInv /\ LogInv /\ ViewInv

LEMMA ClicksBound == MaxClicks \in Nat
BY BoundsAssumption

\* The requests by what they are for.
LEMMA ModalCalls ==
  /\ \A c \in Modals!Calls :
        /\ c.to = "create" => c.file \in File /\ c.perm \in Modals!Permission
        /\ c.to = "list" => c.file \in File /\ c.creating \in BOOLEAN
        /\ c.to = "revoke" \/ c.to = "logs" => c.link \in Link
        /\ c.to = "logList" \/ c.to = "ticket" \/ c.to = "text" => c.file \in File
  /\ \A f \in File :
        /\ \A p \in Modals!Permission : [to |-> "create", file |-> f, perm |-> p] \in Modals!Calls
        /\ \A b \in BOOLEAN : [to |-> "list", file |-> f, creating |-> b] \in Modals!Calls
        /\ [to |-> "logList", file |-> f] \in Modals!Calls
        /\ [to |-> "ticket", file |-> f] \in Modals!Calls
        /\ [to |-> "text", file |-> f] \in Modals!Calls
  /\ \A l \in Link : /\ [to |-> "revoke", link |-> l] \in Modals!Calls
                     /\ [to |-> "logs", link |-> l] \in Modals!Calls
<1> DEFINE K1 == {"create"}
           K2 == {"list"}
           K3 == {"revoke", "logs"}
           K4 == {"logList", "ticket", "text"}
           C1 == [to : K1, file : File, perm : Modals!Permission]
           C2 == [to : K2, file : File, creating : BOOLEAN]
           C3 == [to : K3, link : Link]
           C4 == [to : K4, file : File]
<1>1. Modals!Calls = C1 \cup C2 \cup C3 \cup C4
  BY DEF Modals!Calls
<1>2. "create" \in K1 /\ "list" \in K2 /\ "revoke" \in K3 /\ "logs" \in K3
      /\ "logList" \in K4 /\ "ticket" \in K4 /\ "text" \in K4
  OBVIOUS
<1>3. /\ \A k \in K1 : k # "list" /\ k # "revoke" /\ k # "logs" /\ k # "logList" /\ k # "ticket" /\ k # "text"
      /\ \A k \in K2 : k # "create" /\ k # "revoke" /\ k # "logs" /\ k # "logList" /\ k # "ticket" /\ k # "text"
      /\ \A k \in K3 : k # "create" /\ k # "list" /\ k # "logList" /\ k # "ticket" /\ k # "text"
      /\ \A k \in K4 : k # "create" /\ k # "list" /\ k # "revoke" /\ k # "logs"
  OBVIOUS
<1> HIDE DEF K1, K2, K3, K4
<1>4. \A c \in C1 : c.to \in K1 /\ c.file \in File /\ c.perm \in Modals!Permission
  OBVIOUS
<1>5. \A c \in C2 : c.to \in K2 /\ c.file \in File /\ c.creating \in BOOLEAN
  OBVIOUS
<1>6. \A c \in C3 : c.to \in K3 /\ c.link \in Link
  OBVIOUS
<1>7. \A c \in C4 : c.to \in K4 /\ c.file \in File
  OBVIOUS
<1>8. \A f \in File, p \in Modals!Permission : [to |-> "create", file |-> f, perm |-> p] \in C1
  BY <1>2
<1>9. \A f \in File, b \in BOOLEAN : [to |-> "list", file |-> f, creating |-> b] \in C2
  BY <1>2
<1>10. \A l \in Link : [to |-> "revoke", link |-> l] \in C3 /\ [to |-> "logs", link |-> l] \in C3
  BY <1>2
<1>11. \A f \in File : /\ [to |-> "logList", file |-> f] \in C4
                       /\ [to |-> "ticket", file |-> f] \in C4
                       /\ [to |-> "text", file |-> f] \in C4
  BY <1>2
<1> HIDE DEF C1, C2, C3, C4
<1>12. \A c \in Modals!Calls :
        /\ c.to = "create" => c.file \in File /\ c.perm \in Modals!Permission
        /\ c.to = "list" => c.file \in File /\ c.creating \in BOOLEAN
        /\ c.to = "revoke" \/ c.to = "logs" => c.link \in Link
        /\ c.to = "logList" \/ c.to = "ticket" \/ c.to = "text" => c.file \in File
  BY <1>1, <1>3, <1>4, <1>5, <1>6, <1>7
<1> QED
  BY <1>1, <1>8, <1>9, <1>10, <1>11, <1>12

LEMMA ModalLinkStates ==
  /\ Modals!Unused \in Modals!LinkState /\ Modals!Unused.file = None
  /\ \A f \in File, p \in Modals!Permission : [file |-> f, perm |-> p, live |-> TRUE] \in Modals!LinkState
  /\ \A s \in Modals!LinkState :
        /\ [s EXCEPT !.live = FALSE] \in Modals!LinkState
        /\ [s EXCEPT !.live = FALSE].file = s.file /\ [s EXCEPT !.live = FALSE].perm = s.perm
<1> DEFINE L == [file : File, perm : Modals!Permission, live : BOOLEAN]
<1>1. Modals!LinkState = {Modals!Unused} \cup L
  BY DEF Modals!LinkState
<1>2. /\ Modals!Unused.file = None /\ [Modals!Unused EXCEPT !.live = FALSE] = Modals!Unused
  <2>1. Modals!Unused = [file |-> None, perm |-> "view", live |-> FALSE]
    BY DEF Modals!Unused
  <2>2. "view" \in Modals!Permission
    BY DEF Modals!Permission
  <2>3. Modals!Unused \in [file : {None}, perm : Modals!Permission, live : BOOLEAN] /\ Modals!Unused.live = FALSE
    BY <2>1, <2>2
  <2>4. \A s \in [file : {None}, perm : Modals!Permission, live : BOOLEAN] :
          s.live = FALSE => [s EXCEPT !.live = FALSE] = s
    OBVIOUS
  <2> QED
    BY <2>1, <2>3, <2>4
<1>3. \A f \in File, p \in Modals!Permission : [file |-> f, perm |-> p, live |-> TRUE] \in L
  OBVIOUS
<1>4. \A s \in L : /\ [s EXCEPT !.live = FALSE] \in L
                   /\ [s EXCEPT !.live = FALSE].file = s.file /\ [s EXCEPT !.live = FALSE].perm = s.perm
  OBVIOUS
<1> HIDE DEF L
<1> QED
  BY <1>1, <1>2, <1>3, <1>4

\* What a window promises is left as it is by the steps of the others: a link that was
\* made keeps its item and its permission.
LEMMA ShareFrame ==
  ASSUME ShareInv, share' = share, ShareCalls' = ShareCalls,
         \A l, f : LinkTo(l, f) => LinkTo(l, f)' /\ links'[l].perm = links[l].perm
  PROVE  ShareInv'
BY DEF ShareInv

LEMMA LogFrame ==
  ASSUME LogInv, log' = log, LogCalls' = LogCalls,
         \A l, f : LinkTo(l, f) => LinkTo(l, f)'
  PROVE  LogInv'
BY DEF LogInv

LEMMA ViewFrame ==
  ASSUME ViewInv, view' = view, ViewCalls' = ViewCalls
  PROVE  ViewInv'
BY DEF ViewInv

\* What the actions do to a window, and what they leave alone.
LEMMA ModalFrames ==
  /\ calls' = calls => ShareCalls' = ShareCalls /\ LogCalls' = LogCalls /\ ViewCalls' = ViewCalls
  /\ links' = links => \A l, f : LinkTo(l, f) => LinkTo(l, f)' /\ links'[l].perm = links[l].perm
BY DEF ShareCalls, LogCalls, ViewCalls, LinkTo

LEMMA ModalInit == Modals!Init => ModalsInv
<1> SUFFICES ASSUME Modals!Init PROVE ModalsInv
  OBVIOUS
<1>1. share = [vis |-> FALSE, file |-> None, perm |-> "view", usePassword |-> FALSE, password |-> FALSE,
               list |-> {}, token |-> None, creating |-> FALSE, mixed |-> FALSE, failed |-> FALSE]
  BY DEF Modals!Init
<1>2. log = [vis |-> FALSE, file |-> None, list |-> {}, sel |-> None, logs |-> None,
             loading |-> FALSE, mixed |-> FALSE, failed |-> FALSE]
  BY DEF Modals!Init
<1>3. view = [vis |-> FALSE, file |-> None, url |-> None, text |-> None,
              loading |-> FALSE, mixed |-> FALSE, late |-> FALSE]
  BY DEF Modals!Init
<1>4. calls = {} /\ clicks = 0
  BY DEF Modals!Init
<1>5. ShareCalls = {} /\ LogCalls = {} /\ ViewCalls = {}
  BY <1>4 DEF ShareCalls, LogCalls, ViewCalls
<1>6. "view" \in Modals!Permission
  BY DEF Modals!Permission
<1>7. share \in Modals!Share
  BY <1>1, <1>6 DEF Modals!Share
<1>8. log \in Modals!Log
  BY <1>2 DEF Modals!Log
<1>9. view \in Modals!View
  BY <1>3 DEF Modals!View
<1>10. links \in [Link -> Modals!LinkState]
  <2> DEFINE L == [file : File, perm : {"view"}, live : {TRUE}]
  <2>1. links \in [Link -> {Modals!Unused} \cup L]
    BY DEF Modals!Init
  <2>2. L \subseteq [file : File, perm : Modals!Permission, live : BOOLEAN]
    BY <1>6
  <2> HIDE DEF L
  <2>3. L \subseteq Modals!LinkState
    BY <2>2 DEF Modals!LinkState
  <2> QED
    BY <2>1, <2>3, ModalLinkStates
<1>11. Modals!TypeOK
  BY <1>4, <1>7, <1>8, <1>9, <1>10, ClicksBound DEF Modals!TypeOK
<1>12. ShareInv /\ LogInv /\ ViewInv
  BY <1>1, <1>2, <1>3, <1>5 DEF ShareInv, LogInv, ViewInv
<1> QED
  BY <1>11, <1>12 DEF ModalsInv

\* What the user does in one window.
LEMMA ModalClick ==
  ASSUME Modals!TypeOK, Modals!Click
  PROVE  clicks' \in 0..MaxClicks
BY ClicksBound DEF Modals!TypeOK, Modals!Click

LEMMA ModalPending ==
  /\ Modals!Pending({"create", "list"}) = ShareCalls
  /\ Modals!Pending({"logList", "logs"}) = LogCalls
  /\ Modals!Pending({"ticket", "text"}) = ViewCalls
  /\ \A c \in ShareCalls : c.to = "create" => Modals!Pending({"create"}) # {}
BY DEF Modals!Pending, ShareCalls, LogCalls, ViewCalls

LEMMA ModalTyped ==
  ASSUME ModalsInv
  PROVE  /\ links \in [Link -> Modals!LinkState] /\ share \in Modals!Share /\ log \in Modals!Log
         /\ view \in Modals!View /\ calls \subseteq Modals!Calls /\ clicks \in 0..MaxClicks
         /\ ShareInv /\ LogInv /\ ViewInv
BY DEF ModalsInv, Modals!TypeOK

LEMMA InOneWindow ==
  ASSUME ModalsInv, NEW c, calls' = calls \/ (c \in Modals!Calls /\ calls' = calls \cup {c}), Modals!Click,
         links' = links, share' \in Modals!Share, log' \in Modals!Log, view' \in Modals!View
  PROVE  /\ Modals!TypeOK'
         /\ share' = share /\ (calls' = calls \/ (c.to # "create" /\ c.to # "list")) => ShareInv'
         /\ log' = log /\ (calls' = calls \/ (c.to # "logList" /\ c.to # "logs")) => LogInv'
         /\ view' = view /\ (calls' = calls \/ (c.to # "ticket" /\ c.to # "text")) => ViewInv'
<1>1. Modals!TypeOK'
  BY ModalTyped, ClicksBound DEF Modals!TypeOK, Modals!Click
<1>2. (calls' = calls \/ (c.to # "create" /\ c.to # "list")) => ShareCalls' = ShareCalls
  BY DEF ShareCalls
<1>3. (calls' = calls \/ (c.to # "logList" /\ c.to # "logs")) => LogCalls' = LogCalls
  BY DEF LogCalls
<1>4. (calls' = calls \/ (c.to # "ticket" /\ c.to # "text")) => ViewCalls' = ViewCalls
  BY DEF ViewCalls
<1>5. \A l, f : LinkTo(l, f) => LinkTo(l, f)' /\ links'[l].perm = links[l].perm
  BY DEF LinkTo
<1> QED
  BY <1>1, <1>2, <1>3, <1>4, <1>5, ModalTyped, ShareFrame, LogFrame, ViewFrame

LEMMA InOneWindowQuiet ==
  ASSUME ModalsInv, calls' = calls, Modals!Click,
         links' = links, share' \in Modals!Share, log' \in Modals!Log, view' \in Modals!View
  PROVE  /\ Modals!TypeOK'
         /\ share' = share => ShareInv'
         /\ log' = log => LogInv'
         /\ view' = view => ViewInv'
<1>1. Modals!TypeOK'
  BY ModalTyped, ClicksBound DEF Modals!TypeOK, Modals!Click
<1> QED
  BY <1>1, ModalTyped, ModalFrames, ShareFrame, LogFrame, ViewFrame

LEMMA InShareModal ==
  ASSUME ModalsInv,
         \/ \E f \in File : Modals!OpenShare(f)
         \/ Modals!CloseShare \/ Modals!HandleCreate
         \/ \E p \in Modals!Permission : Modals!SetPermission(p)
         \/ \E use, ty \in BOOLEAN : Modals!SetPassword(use, ty)
         \/ \E l \in Link : Modals!HandleRevoke(l)
  PROVE  ModalsInv'
<1>a. /\ share \in Modals!Share /\ calls \subseteq Modals!Calls
      /\ log \in Modals!Log /\ view \in Modals!View
  BY ModalTyped
<1>b. /\ share.vis => share.file \in File
      /\ ~share.mixed =>
          /\ \A c \in ShareCalls : c.file = share.file /\ (c.to = "create" => c.perm = share.perm)
          /\ share.token # None => LinkTo(share.token, share.file) /\ links[share.token].perm = share.perm
          /\ ~share.failed /\ (\A c \in ShareCalls : c.to # "list") => \A l \in share.list : LinkTo(l, share.file)
  BY ModalTyped DEF ShareInv
<1>1. ASSUME NEW f \in File, Modals!OpenShare(f)
      PROVE  ModalsInv'
  <2> DEFINE m == ShareCalls # {}
             c == [to |-> "list", file |-> f, creating |-> FALSE]
  <2>1. /\ Modals!Click /\ links' = links /\ log' = log /\ view' = view /\ calls' = calls \cup {c}
        /\ share' = [share EXCEPT !.vis = TRUE, !.file = f, !.token = None, !.password = FALSE,
                                  !.usePassword = FALSE, !.failed = FALSE, !.mixed = m]
    BY <1>1, ModalPending DEF Modals!OpenShare, Modals!InShare
  <2>2. m \in BOOLEAN /\ f \in File /\ (~m => ShareCalls = {})
    BY <1>1
  <2>3. c \in Modals!Calls /\ c.to = "list" /\ c.file = f
    BY ModalCalls
  <2> HIDE DEF m, c
  <2>4. share' \in Modals!Share /\ share'.file = f /\ share'.token = None /\ share'.mixed = m
    BY <1>a, <2>1, <2>2 DEF Modals!Share
  <2>5. ShareCalls' = ShareCalls \cup {c}
    BY <2>1, <2>3 DEF ShareCalls
  <2>6. ShareInv'
    BY <2>2, <2>3, <2>4, <2>5 DEF ShareInv
  <2>7. Modals!TypeOK' /\ LogInv' /\ ViewInv'
    BY <1>a, <2>1, <2>3, <2>4, InOneWindow
  <2> QED
    BY <2>6, <2>7 DEF ModalsInv
<1>2. ASSUME Modals!CloseShare
      PROVE  ModalsInv'
  <2>1. /\ Modals!Click /\ links' = links /\ log' = log /\ view' = view /\ calls' = calls
        /\ share' = [share EXCEPT !.vis = FALSE]
    BY <1>2 DEF Modals!CloseShare, Modals!InShare
  <2>2. /\ share' \in Modals!Share /\ share'.file = share.file /\ share'.token = share.token /\ share'.mixed = share.mixed
        /\ share'.perm = share.perm /\ share'.failed = share.failed /\ share'.list = share.list /\ ~share'.vis
    BY <1>a, <2>1 DEF Modals!Share
  <2>3. ShareCalls' = ShareCalls /\ \A l, f : LinkTo(l, f) => LinkTo(l, f)'
    BY <2>1 DEF ShareCalls, LinkTo
  <2>4. ShareInv'
    BY <1>b, <2>1, <2>2, <2>3 DEF ShareInv
  <2>6. Modals!TypeOK' /\ LogInv' /\ ViewInv'
    BY <1>a, <2>1, <2>2, InOneWindowQuiet
  <2> QED
    BY <2>4, <2>6 DEF ModalsInv
<1>3. ASSUME Modals!HandleCreate
      PROVE  ModalsInv'
  <2> DEFINE c == [to |-> "create", file |-> share.file, perm |-> share.perm]
  <2>1. /\ Modals!Click /\ links' = links /\ log' = log /\ view' = view /\ calls' = calls \cup {c}
        /\ share.vis /\ share' = [share EXCEPT !.creating = TRUE]
    BY <1>3 DEF Modals!HandleCreate, Modals!InShare
  <2>2. share.perm \in Modals!Permission
    BY <1>a DEF Modals!Share
  <2>3. c \in Modals!Calls /\ c.to = "create" /\ c.file = share.file /\ c.perm = share.perm
    BY <1>b, <2>1, <2>2, ModalCalls
  <2> HIDE DEF c
  <2>4. /\ share' \in Modals!Share /\ share'.file = share.file /\ share'.token = share.token /\ share'.mixed = share.mixed
        /\ share'.perm = share.perm /\ share'.failed = share.failed /\ share'.list = share.list
    BY <1>a, <2>1 DEF Modals!Share
  <2>5. ShareCalls' = ShareCalls \cup {c} /\ \A l, f : LinkTo(l, f) => LinkTo(l, f)'
    BY <2>1, <2>3 DEF ShareCalls, LinkTo
  <2>6. ShareInv'
    BY <1>b, <2>1, <2>3, <2>4, <2>5 DEF ShareInv
  <2>7. Modals!TypeOK' /\ LogInv' /\ ViewInv'
    BY <1>a, <2>1, <2>3, <2>4, InOneWindow
  <2> QED
    BY <2>6, <2>7 DEF ModalsInv
<1>4. ASSUME NEW p \in Modals!Permission, Modals!SetPermission(p)
      PROVE  ModalsInv'
  <2> DEFINE m == share.mixed \/ Modals!Pending({"create"}) # {}
  <2>1. /\ Modals!Click /\ links' = links /\ log' = log /\ view' = view /\ calls' = calls
        /\ share.vis
        /\ share' = [share EXCEPT !.perm = p, !.token = None, !.password = FALSE, !.usePassword = FALSE, !.mixed = m]
    BY <1>4 DEF Modals!SetPermission, Modals!InShare
  <2>2. m \in BOOLEAN /\ p \in Modals!Permission
    BY <1>4
  <2>3. ~m => ~share.mixed /\ \A c \in ShareCalls : c.to # "create"
    BY ModalPending
  <2> HIDE DEF m
  <2>4. /\ share' \in Modals!Share /\ share'.file = share.file /\ share'.token = None /\ share'.mixed = m
        /\ share'.perm = p /\ share'.failed = share.failed /\ share'.list = share.list /\ share'.vis = share.vis
    BY <1>a, <2>1, <2>2 DEF Modals!Share
  <2>5. ShareCalls' = ShareCalls /\ \A l, f : LinkTo(l, f) => LinkTo(l, f)'
    BY <2>1 DEF ShareCalls, LinkTo
  <2>6. ShareInv'
    BY <1>b, <2>1, <2>3, <2>4, <2>5 DEF ShareInv
  <2>8. Modals!TypeOK' /\ LogInv' /\ ViewInv'
    BY <1>a, <2>1, <2>4, InOneWindowQuiet
  <2> QED
    BY <2>6, <2>8 DEF ModalsInv
<1>5. ASSUME NEW use \in BOOLEAN, NEW ty \in BOOLEAN, Modals!SetPassword(use, ty)
      PROVE  ModalsInv'
  <2> DEFINE x == use /\ ty
  <2>1. /\ Modals!Click /\ links' = links /\ log' = log /\ view' = view /\ calls' = calls
        /\ share' = [share EXCEPT !.usePassword = use, !.password = x]
    BY <1>5 DEF Modals!SetPassword, Modals!InShare
  <2>2. x \in BOOLEAN /\ use \in BOOLEAN
    BY <1>5
  <2> HIDE DEF x
  <2>3. /\ share' \in Modals!Share /\ share'.file = share.file /\ share'.token = share.token /\ share'.mixed = share.mixed
        /\ share'.perm = share.perm /\ share'.failed = share.failed /\ share'.list = share.list /\ share'.vis = share.vis
    BY <1>a, <2>1, <2>2 DEF Modals!Share
  <2>4. ShareCalls' = ShareCalls /\ \A l, f : LinkTo(l, f) => LinkTo(l, f)'
    BY <2>1 DEF ShareCalls, LinkTo
  <2>5. ShareInv'
    BY <1>b, <2>1, <2>3, <2>4 DEF ShareInv
  <2>7. Modals!TypeOK' /\ LogInv' /\ ViewInv'
    BY <1>a, <2>1, <2>3, InOneWindowQuiet
  <2> QED
    BY <2>5, <2>7 DEF ModalsInv
<1>6. ASSUME NEW l \in Link, Modals!HandleRevoke(l)
      PROVE  ModalsInv'
  <2> DEFINE c == [to |-> "revoke", link |-> l]
  <2>1. /\ Modals!Click /\ links' = links /\ log' = log /\ view' = view /\ calls' = calls \cup {c}
        /\ share' = share
    BY <1>6 DEF Modals!HandleRevoke, Modals!InShare
  <2>2. c \in Modals!Calls /\ c.to = "revoke"
    BY ModalCalls
  <2> HIDE DEF c
  <2>3. Modals!TypeOK' /\ ShareInv' /\ LogInv' /\ ViewInv'
    BY <1>a, <2>1, <2>2, InOneWindow
  <2> QED
    BY <2>3 DEF ModalsInv
<1> QED
  BY <1>1, <1>2, <1>3, <1>4, <1>5, <1>6

LEMMA InLogModal ==
  ASSUME ModalsInv,
         \/ \E f \in File : Modals!OpenLog(f)
         \/ Modals!CloseLog
         \/ \E l \in Link : Modals!SelectTab(l)
  PROVE  ModalsInv'
<1>a. /\ log \in Modals!Log /\ calls \subseteq Modals!Calls
      /\ share \in Modals!Share /\ view \in Modals!View
  BY ModalTyped
<1>b. ~log.mixed /\ ~log.failed =>
        /\ \A c, d \in LogCalls : c = d
        /\ LogCalls # {} => log.loading
        /\ \A c \in LogCalls : /\ c.to = "logs" => c.link = log.sel /\ LinkTo(log.sel, log.file)
                               /\ c.to = "logList" => c.file = log.file
        /\ (\A c \in LogCalls : c.to # "logs") => log.logs = log.sel
        /\ (\A c \in LogCalls : c.to # "logList") => \A l \in log.list : LinkTo(l, log.file)
        /\ LogCalls = {} /\ log.list # {} => LinkTo(log.sel, log.file)
  BY ModalTyped DEF LogInv
<1>1. ASSUME NEW f \in File, Modals!OpenLog(f)
      PROVE  ModalsInv'
  <2> DEFINE m == log.mixed \/ LogCalls # {}
             c == [to |-> "logList", file |-> f]
  <2>1. /\ Modals!Click /\ links' = links /\ share' = share /\ view' = view /\ calls' = calls \cup {c}
        /\ log' = [log EXCEPT !.vis = TRUE, !.file = f, !.loading = TRUE, !.mixed = m]
    BY <1>1, ModalPending DEF Modals!OpenLog, Modals!InLog
  <2>2. m \in BOOLEAN /\ f \in File /\ (~m => ~log.mixed /\ LogCalls = {})
    BY <1>1, <1>a DEF Modals!Log
  <2>3. c \in Modals!Calls /\ c.to = "logList" /\ c.file = f
    BY ModalCalls
  <2> HIDE DEF m, c
  <2>4. /\ log' \in Modals!Log /\ log'.file = f /\ log'.loading /\ log'.mixed = m /\ log'.failed = log.failed
        /\ log'.sel = log.sel /\ log'.logs = log.logs /\ log'.list = log.list
    BY <1>a, <2>1, <2>2 DEF Modals!Log
  <2>5. LogCalls' = LogCalls \cup {c}
    BY <2>1, <2>3 DEF LogCalls
  <2>6. ~m => LogCalls' = {c}
    BY <2>2, <2>5
  <2>7. LogInv'
    BY <1>b, <2>2, <2>3, <2>4, <2>6 DEF LogInv
  <2>8. Modals!TypeOK' /\ ShareInv' /\ ViewInv'
    BY <1>a, <2>1, <2>3, <2>4, InOneWindow
  <2> QED
    BY <2>7, <2>8 DEF ModalsInv
<1>2. ASSUME Modals!CloseLog
      PROVE  ModalsInv'
  <2>1. /\ Modals!Click /\ links' = links /\ share' = share /\ view' = view /\ calls' = calls
        /\ log' = [log EXCEPT !.vis = FALSE]
    BY <1>2 DEF Modals!CloseLog, Modals!InLog
  <2>2. /\ log' \in Modals!Log /\ log'.file = log.file /\ log'.loading = log.loading /\ log'.mixed = log.mixed
        /\ log'.failed = log.failed /\ log'.sel = log.sel /\ log'.logs = log.logs /\ log'.list = log.list
    BY <1>a, <2>1 DEF Modals!Log
  <2>3. LogCalls' = LogCalls /\ \A l, f : LinkTo(l, f) => LinkTo(l, f)'
    BY <2>1 DEF LogCalls, LinkTo
  <2>4. LogInv'
    BY <1>b, <2>2, <2>3 DEF LogInv
  <2>5. Modals!TypeOK' /\ ShareInv' /\ ViewInv'
    BY <1>a, <2>1, <2>2, InOneWindowQuiet
  <2> QED
    BY <2>4, <2>5 DEF ModalsInv
<1>3. ASSUME NEW l \in Link, Modals!SelectTab(l)
      PROVE  ModalsInv'
  <2> DEFINE m == log.mixed \/ LogCalls # {}
             c == [to |-> "logs", link |-> l]
  <2>1. /\ Modals!Click /\ links' = links /\ share' = share /\ view' = view /\ calls' = calls \cup {c}
        /\ log' = [log EXCEPT !.sel = l, !.loading = TRUE, !.mixed = m] /\ l \in log.list
    BY <1>3, ModalPending DEF Modals!SelectTab, Modals!InLog
  <2>2. m \in BOOLEAN /\ l \in Link /\ (~m => ~log.mixed /\ LogCalls = {})
    BY <1>3, <1>a DEF Modals!Log
  <2>3. c \in Modals!Calls /\ c.to = "logs" /\ c.link = l
    BY ModalCalls
  <2> HIDE DEF m, c
  <2>4. /\ log' \in Modals!Log /\ log'.file = log.file /\ log'.loading /\ log'.mixed = m /\ log'.failed = log.failed
        /\ log'.sel = l /\ log'.logs = log.logs /\ log'.list = log.list
    BY <1>a, <2>1, <2>2 DEF Modals!Log
  <2>5. LogCalls' = LogCalls \cup {c}
    BY <2>1, <2>3 DEF LogCalls
  <2>6. ~m => LogCalls' = {c}
    BY <2>2, <2>5
  <2>8. ~m /\ ~log.failed => \A k \in log.list : LinkTo(k, log.file)
    BY <1>b, <2>2
  <2>9. ~m /\ ~log.failed => (\A k \in log.list : LinkTo(k, log.file))'
    BY <2>1, <2>4, <2>8 DEF LinkTo
  <2>10. ~m /\ ~log.failed => LinkTo(log.sel, log.file)'
    BY <2>1, <2>4, <2>9 DEF LinkTo
  <2>11. LogInv'
    BY <2>3, <2>4, <2>6, <2>9, <2>10 DEF LogInv
  <2>12. Modals!TypeOK' /\ ShareInv' /\ ViewInv'
    BY <1>a, <2>1, <2>3, <2>4, InOneWindow
  <2> QED
    BY <2>11, <2>12 DEF ModalsInv
<1> QED
  BY <1>1, <1>2, <1>3

LEMMA InViewModal ==
  ASSUME ModalsInv, (\E f \in File : Modals!OpenView(f)) \/ Modals!CloseView
  PROVE  ModalsInv'
<1>a. /\ view \in Modals!View /\ calls \subseteq Modals!Calls
      /\ share \in Modals!Share /\ log \in Modals!Log
  BY ModalTyped
<1>b. /\ ~view.vis /\ ~view.late => ViewCalls = {} /\ view.text = None /\ view.url = None
      /\ view.vis /\ ~view.mixed =>
          /\ \A c \in ViewCalls : c.file = view.file
          /\ {view.text, view.url} \subseteq {view.file, None}
  BY ModalTyped DEF ViewInv
<1>1. ASSUME NEW f \in File, Modals!OpenView(f)
      PROVE  ModalsInv'
  <2> DEFINE m == view.vis \/ view.late
             c == [to |-> "ticket", file |-> f]
  <2>1. /\ Modals!Click /\ links' = links /\ share' = share /\ log' = log /\ calls' = calls \cup {c}
        /\ view' = [view EXCEPT !.vis = TRUE, !.file = f, !.loading = TRUE, !.mixed = m]
    BY <1>1 DEF Modals!OpenView, Modals!InView
  <2>2. m \in BOOLEAN /\ f \in File /\ (~m => ~view.vis /\ ~view.late)
    BY <1>1, <1>a DEF Modals!View
  <2>3. c \in Modals!Calls /\ c.to = "ticket" /\ c.file = f
    BY ModalCalls
  <2> HIDE DEF m, c
  <2>4. /\ view' \in Modals!View /\ view'.vis /\ view'.file = f /\ view'.mixed = m
        /\ view'.text = view.text /\ view'.url = view.url
    BY <1>a, <2>1, <2>2 DEF Modals!View
  <2>5. ViewCalls' = ViewCalls \cup {c}
    BY <2>1, <2>3 DEF ViewCalls
  <2>6. ViewInv'
    BY <1>b, <2>2, <2>3, <2>4, <2>5 DEF ViewInv
  <2>7. Modals!TypeOK' /\ ShareInv' /\ LogInv'
    BY <1>a, <2>1, <2>3, <2>4, InOneWindow
  <2> QED
    BY <2>6, <2>7 DEF ModalsInv
<1>2. ASSUME Modals!CloseView
      PROVE  ModalsInv'
  <2> DEFINE b == ViewCalls # {}
  <2>1. /\ Modals!Click /\ links' = links /\ share' = share /\ log' = log /\ calls' = calls
        /\ view' = [view EXCEPT !.vis = FALSE, !.text = None, !.url = None, !.late = b]
    BY <1>2, ModalPending DEF Modals!CloseView, Modals!InView
  <2>2. b \in BOOLEAN /\ (~b => ViewCalls = {})
    OBVIOUS
  <2> HIDE DEF b
  <2>3. view' \in Modals!View /\ ~view'.vis /\ view'.late = b /\ view'.text = None /\ view'.url = None
    BY <1>a, <2>1, <2>2 DEF Modals!View
  <2>4. ViewCalls' = ViewCalls
    BY <2>1 DEF ViewCalls
  <2>5. ViewInv'
    BY <2>2, <2>3, <2>4 DEF ViewInv
  <2>6. Modals!TypeOK' /\ ShareInv' /\ LogInv'
    BY <1>a, <2>1, <2>3, InOneWindowQuiet
  <2> QED
    BY <2>5, <2>6 DEF ModalsInv
<1> QED
  BY <1>1, <1>2

\* The answers to ShareModal.
LEMMA CreatedStep ==
  ASSUME ModalsInv, NEW c \in calls, NEW ok \in BOOLEAN, c.to = "create", Modals!Created(c, ok)
  PROVE  ModalsInv'
<1> DEFINE d == [to |-> "list", file |-> c.file, creating |-> TRUE]
<1>a. /\ links \in [Link -> Modals!LinkState] /\ share \in Modals!Share /\ log \in Modals!Log
      /\ view \in Modals!View /\ calls \subseteq Modals!Calls /\ clicks \in 0..MaxClicks
  BY ModalTyped
<1>b. /\ share.vis => share.file \in File
      /\ ~share.mixed =>
          /\ \A e \in ShareCalls : e.file = share.file /\ (e.to = "create" => e.perm = share.perm)
          /\ share.token # None => LinkTo(share.token, share.file) /\ links[share.token].perm = share.perm
          /\ ~share.failed /\ (\A e \in ShareCalls : e.to # "list") => \A l \in share.list : LinkTo(l, share.file)
  BY ModalTyped DEF ShareInv
<1>c. c.file \in File /\ c.perm \in Modals!Permission
  BY <1>a, ModalCalls
<1>d. d \in Modals!Calls /\ d.to = "list" /\ d.file = c.file
  BY <1>c, ModalCalls
<1>e. log' = log /\ view' = view /\ clicks' = clicks
      /\ calls' = (calls \ {c}) \cup (IF ok THEN {d} ELSE {})
  BY DEF Modals!Created
<1>f. \/ \E l \in Link :
            /\ links[l] = Modals!Unused
            /\ links' = [links EXCEPT ![l] = [file |-> c.file, perm |-> c.perm, live |-> TRUE]]
            /\ share' = IF ok THEN [share EXCEPT !.token = l] ELSE [share EXCEPT !.creating = FALSE]
      \/ ~ok /\ links' = links /\ share' = [share EXCEPT !.creating = FALSE]
  BY DEF Modals!Created
<1> HIDE DEF d
<1>1. /\ links' \in [Link -> Modals!LinkState]
      /\ \A k, f : LinkTo(k, f) => LinkTo(k, f)' /\ links'[k].perm = links[k].perm
  <2>1. ASSUME NEW l \in Link, links[l] = Modals!Unused, NEW x \in Modals!LinkState, links' = [links EXCEPT ![l] = x]
        PROVE  /\ links' \in [Link -> Modals!LinkState]
               /\ \A k, f : LinkTo(k, f) => LinkTo(k, f)' /\ links'[k].perm = links[k].perm
    <3>1. \A f \in File : f # links[l].file
      BY <2>1, ModalLinkStates, ItemsAssumption
    <3>2. links' \in [Link -> Modals!LinkState] /\ \A k \in Link : k # l => links'[k] = links[k]
      BY <1>a, <2>1
    <3> QED
      BY <3>1, <3>2 DEF LinkTo
  <2>2. [file |-> c.file, perm |-> c.perm, live |-> TRUE] \in Modals!LinkState
    BY <1>c, ModalLinkStates
  <2>3. CASE links' = links
    BY <1>a, <2>3 DEF LinkTo
  <2> QED
    BY <1>f, <2>1, <2>2, <2>3
<1>2. calls' \subseteq Modals!Calls
  BY <1>a, <1>d, <1>e
<1>3. LogCalls' = LogCalls /\ ViewCalls' = ViewCalls
  BY <1>d, <1>e DEF LogCalls, ViewCalls
<1>4. LogInv' /\ ViewInv'
  BY <1>e, <1>1, <1>3, LogFrame, ViewFrame, ModalTyped
<1>5. CASE ok
  <2>1. PICK l \in Link : /\ links' = [links EXCEPT ![l] = [file |-> c.file, perm |-> c.perm, live |-> TRUE]]
                          /\ share' = [share EXCEPT !.token = l]
    BY <1>f, <1>5
  <2>2. /\ share' \in Modals!Share /\ share'.file = share.file /\ share'.token = l /\ share'.mixed = share.mixed
        /\ share'.perm = share.perm /\ share'.vis = share.vis
    BY <1>a, <2>1 DEF Modals!Share
  <2>3. links'[l].file = c.file /\ links'[l].perm = c.perm
    BY <1>a, <2>1
  <2>4. c \in ShareCalls /\ ShareCalls' = (ShareCalls \ {c}) \cup {d}
    BY <1>d, <1>e, <1>5 DEF ShareCalls
  <2>5. ~share.mixed => LinkTo(share.token, share.file)' /\ links'[l].perm = share.perm
    BY <1>b, <1>c, <2>2, <2>3, <2>4 DEF LinkTo
  <2>6. ShareInv'
    BY <1>b, <1>d, <2>2, <2>4, <2>5 DEF ShareInv
  <2> QED
    BY <1>1, <1>2, <1>4, <1>a, <1>e, <2>2, <2>6 DEF ModalsInv, Modals!TypeOK
<1>6. CASE ~ok
  <2>1. share' = [share EXCEPT !.creating = FALSE]
    BY <1>f, <1>6
  <2>2. /\ share' \in Modals!Share /\ share'.file = share.file /\ share'.token = share.token /\ share'.mixed = share.mixed
        /\ share'.perm = share.perm /\ share'.vis = share.vis /\ share'.failed = share.failed /\ share'.list = share.list
    BY <1>a, <2>1 DEF Modals!Share
  <2>3. ShareCalls' = ShareCalls \ {c}
    BY <1>e, <1>6 DEF ShareCalls
  <2>4. (\A e \in ShareCalls' : e.to # "list") => \A e \in ShareCalls : e.to # "list"
    BY <2>3
  <2>5. ShareInv'
    BY <1>b, <1>1, <2>2, <2>3, <2>4 DEF ShareInv
  <2> QED
    BY <1>1, <1>2, <1>4, <1>a, <1>e, <2>2, <2>5 DEF ModalsInv, Modals!TypeOK
<1> QED
  BY <1>5, <1>6

LEMMA ListedStep ==
  ASSUME ModalsInv, NEW c \in calls, NEW ok \in BOOLEAN, c.to = "list", Modals!Listed(c, ok)
  PROVE  ModalsInv'
<1>a. /\ links \in [Link -> Modals!LinkState] /\ share \in Modals!Share /\ log \in Modals!Log
      /\ view \in Modals!View /\ calls \subseteq Modals!Calls /\ clicks \in 0..MaxClicks
  BY ModalTyped
<1>b. /\ share.vis => share.file \in File
      /\ ~share.mixed =>
          /\ \A e \in ShareCalls : e.file = share.file /\ (e.to = "create" => e.perm = share.perm)
          /\ share.token # None => LinkTo(share.token, share.file) /\ links[share.token].perm = share.perm
          /\ ~share.failed /\ (\A e \in ShareCalls : e.to # "list") => \A l \in share.list : LinkTo(l, share.file)
  BY ModalTyped DEF ShareInv
<1> DEFINE ls == IF ok THEN Modals!LinksOf(c.file) ELSE share.list
           f == share.failed \/ ~ok
           g == share.creating /\ ~c.creating
<1>1. /\ links' = links /\ log' = log /\ view' = view /\ clicks' = clicks /\ calls' = calls \ {c}
      /\ share' = [share EXCEPT !.list = ls, !.failed = f, !.creating = g]
  BY DEF Modals!Listed
<1>2. c.file \in File /\ c \in ShareCalls
  BY <1>a, ModalCalls DEF ShareCalls
<1>3. /\ ls \in SUBSET Link /\ f \in BOOLEAN /\ g \in BOOLEAN
      /\ ~f => \A l \in ls : LinkTo(l, c.file)
  BY <1>a, <1>2 DEF Modals!Share, Modals!LinksOf, LinkTo
<1> HIDE DEF ls, f, g
<1>4. /\ share' \in Modals!Share /\ share'.file = share.file /\ share'.token = share.token /\ share'.mixed = share.mixed
      /\ share'.perm = share.perm /\ share'.vis = share.vis /\ share'.failed = f /\ share'.list = ls
  BY <1>a, <1>1, <1>3 DEF Modals!Share
<1>5. ShareCalls' = ShareCalls \ {c} /\ LogCalls' = LogCalls /\ ViewCalls' = ViewCalls
  BY <1>1 DEF ShareCalls, LogCalls, ViewCalls
<1>6. \A k, i : LinkTo(k, i) => LinkTo(k, i)' /\ links'[k].perm = links[k].perm
  BY <1>1 DEF LinkTo
<1>7. ShareInv'
  BY <1>b, <1>2, <1>3, <1>4, <1>5, <1>6 DEF ShareInv
<1>8. LogInv' /\ ViewInv'
  BY <1>1, <1>5, <1>6, LogFrame, ViewFrame, ModalTyped
<1> QED
  BY <1>a, <1>1, <1>4, <1>7, <1>8 DEF ModalsInv, Modals!TypeOK

LEMMA RevokedStep ==
  ASSUME ModalsInv, NEW c \in calls, NEW ok \in BOOLEAN, c.to = "revoke", Modals!Revoked(c, ok)
  PROVE  ModalsInv'
<1>a. /\ links \in [Link -> Modals!LinkState] /\ share \in Modals!Share /\ log \in Modals!Log
      /\ view \in Modals!View /\ calls \subseteq Modals!Calls /\ clicks \in 0..MaxClicks
  BY ModalTyped
<1>b. /\ share.vis => share.file \in File
      /\ ~share.mixed =>
          /\ \A e \in ShareCalls : e.file = share.file /\ (e.to = "create" => e.perm = share.perm)
          /\ share.token # None => LinkTo(share.token, share.file) /\ links[share.token].perm = share.perm
          /\ ~share.failed /\ (\A e \in ShareCalls : e.to # "list") => \A l \in share.list : LinkTo(l, share.file)
  BY ModalTyped DEF ShareInv
<1> DEFINE ls == share.list \ {c.link}
           x == [links[c.link] EXCEPT !.live = FALSE]
<1>1. /\ log' = log /\ view' = view /\ clicks' = clicks /\ calls' = calls \ {c}
      /\ links' = IF ok THEN [links EXCEPT ![c.link] = x] ELSE links
      /\ share' = IF ok THEN [share EXCEPT !.list = ls] ELSE share
  BY DEF Modals!Revoked
<1>2. c.link \in Link
  BY <1>a, ModalCalls
<1>3. ls \in SUBSET Link /\ ls \subseteq share.list
  BY <1>a DEF Modals!Share
<1>4. links[c.link] \in Modals!LinkState
  BY <1>a, <1>2
<1>5. x \in Modals!LinkState /\ x.file = links[c.link].file /\ x.perm = links[c.link].perm
  BY <1>4, ModalLinkStates
<1> HIDE DEF ls, x
<1>6. /\ links' \in [Link -> Modals!LinkState]
      /\ \A k \in Link : links'[k].file = links[k].file /\ links'[k].perm = links[k].perm
  BY <1>a, <1>1, <1>2, <1>5
<1>7. /\ share' \in Modals!Share /\ share'.file = share.file /\ share'.token = share.token /\ share'.mixed = share.mixed
      /\ share'.perm = share.perm /\ share'.vis = share.vis /\ share'.failed = share.failed
      /\ share'.list \subseteq share.list
  BY <1>a, <1>1, <1>3 DEF Modals!Share
<1>8. ShareCalls' = ShareCalls /\ LogCalls' = LogCalls /\ ViewCalls' = ViewCalls
  BY <1>1 DEF ShareCalls, LogCalls, ViewCalls
<1>9. \A k, i : LinkTo(k, i) => LinkTo(k, i)' /\ links'[k].perm = links[k].perm
  BY <1>6 DEF LinkTo
<1>10. ShareInv'
  BY <1>b, <1>7, <1>8, <1>9 DEF ShareInv
<1>11. LogInv' /\ ViewInv'
  BY <1>1, <1>8, <1>9, LogFrame, ViewFrame, ModalTyped
<1>12. calls' \subseteq Modals!Calls
  BY <1>a, <1>1
<1> QED
  BY <1>a, <1>1, <1>6, <1>7, <1>10, <1>11, <1>12 DEF ModalsInv, Modals!TypeOK

\* The answers to ShareAccessLogModal.
LEMMA LogListedStep ==
  ASSUME ModalsInv, NEW c \in calls, NEW ok \in BOOLEAN, c.to = "logList", Modals!LogListed(c, ok)
  PROVE  ModalsInv'
<1>a. /\ links \in [Link -> Modals!LinkState] /\ share \in Modals!Share /\ log \in Modals!Log
      /\ view \in Modals!View /\ calls \subseteq Modals!Calls /\ clicks \in 0..MaxClicks
  BY ModalTyped
<1>b. ~log.mixed /\ ~log.failed =>
        /\ \A e, d \in LogCalls : e = d
        /\ LogCalls # {} => log.loading
        /\ \A e \in LogCalls : /\ e.to = "logs" => e.link = log.sel /\ LinkTo(log.sel, log.file)
                               /\ e.to = "logList" => e.file = log.file
        /\ (\A e \in LogCalls : e.to # "logs") => log.logs = log.sel
        /\ (\A e \in LogCalls : e.to # "logList") => \A l \in log.list : LinkTo(l, log.file)
        /\ LogCalls = {} /\ log.list # {} => LinkTo(log.sel, log.file)
  BY ModalTyped DEF LogInv
<1> DEFINE ls == Modals!LinksOf(c.file)
           fa == log.failed \/ ~ok
           m == log.mixed \/ LogCalls # {c}
<1>1. /\ links' = links /\ share' = share /\ view' = view /\ clicks' = clicks
      /\ \/ \E first \in ls :
             /\ ok
             /\ log' = [log EXCEPT !.list = ls, !.sel = first, !.loading = first # log.sel, !.mixed = m]
             /\ calls' = (calls \ {c}) \cup {q \in {[to |-> "logs", link |-> first]} : first # log.sel}
         \/ /\ ok => ls = {}
            /\ log' = [log EXCEPT !.list = IF ok THEN {} ELSE log.list, !.loading = FALSE, !.failed = fa]
            /\ calls' = calls \ {c}
  BY ModalPending DEF Modals!LogListed
<1>2. c.file \in File /\ c \in LogCalls
  BY <1>a, ModalCalls DEF LogCalls
<1>3. ls \in SUBSET Link /\ \A l \in ls : LinkTo(l, c.file)
  BY <1>2 DEF Modals!LinksOf, LinkTo
<1>4. fa \in BOOLEAN /\ m \in BOOLEAN /\ (~fa => ok /\ ~log.failed) /\ (~m => ~log.mixed /\ LogCalls = {c})
  BY <1>a DEF Modals!Log
<1> HIDE DEF ls, fa, m
<1>5. \A k, i : LinkTo(k, i) => LinkTo(k, i)' /\ links'[k].perm = links[k].perm
  BY <1>1 DEF LinkTo
<1>6. ASSUME NEW first \in ls, ok,
             log' = [log EXCEPT !.list = ls, !.sel = first, !.loading = first # log.sel, !.mixed = m],
             calls' = (calls \ {c}) \cup {q \in {[to |-> "logs", link |-> first]} : first # log.sel}
      PROVE  ModalsInv'
  <2> DEFINE lo == first # log.sel
             d == [to |-> "logs", link |-> first]
  <2>1. lo \in BOOLEAN /\ first \in Link /\ (~lo => first = log.sel)
    BY <1>3
  <2>2. d \in Modals!Calls /\ d.to = "logs" /\ d.link = first
    BY <2>1, ModalCalls
  <2>3. /\ log' = [log EXCEPT !.list = ls, !.sel = first, !.loading = lo, !.mixed = m]
        /\ calls' = (calls \ {c}) \cup {q \in {d} : lo}
    BY <1>6
  <2> HIDE DEF lo, d
  <2>4. /\ log' \in Modals!Log /\ log'.file = log.file /\ log'.loading = lo /\ log'.mixed = m /\ log'.failed = log.failed
        /\ log'.sel = first /\ log'.logs = log.logs /\ log'.list = ls
    BY <1>a, <1>3, <1>4, <2>1, <2>3 DEF Modals!Log
  <2>5. LogCalls' = (LogCalls \ {c}) \cup {q \in {d} : lo}
    BY <2>2, <2>3 DEF LogCalls
  <2>6. ShareCalls' = ShareCalls /\ ViewCalls' = ViewCalls /\ calls' \subseteq Modals!Calls
    BY <1>a, <2>2, <2>3 DEF ShareCalls, ViewCalls
  <2>7. ~m /\ ~log.failed => c.file = log.file /\ log.logs = log.sel
    BY <1>b, <1>2, <1>4
  <2>8. ~m => (lo => LogCalls' = {d}) /\ (~lo => LogCalls' = {})
    BY <1>4, <2>5
  <2>9. ~m /\ ~log.failed => (\A l \in log.list : LinkTo(l, log.file))' /\ LinkTo(log.sel, log.file)'
    BY <1>1, <1>3, <2>4, <2>7 DEF LinkTo
  <2>10. LogInv'
    <3>1. CASE lo
      BY <3>1, <2>2, <2>4, <2>8, <2>9 DEF LogInv
    <3>2. CASE ~lo
      BY <3>2, <2>1, <2>4, <2>7, <2>8, <2>9 DEF LogInv
    <3> QED
      BY <3>1, <3>2
  <2>11. ShareInv' /\ ViewInv'
    BY <1>1, <1>5, <2>6, ShareFrame, ViewFrame, ModalTyped
  <2> QED
    BY <1>a, <1>1, <2>4, <2>6, <2>10, <2>11 DEF ModalsInv, Modals!TypeOK
<1>7. ASSUME ok => ls = {},
             log' = [log EXCEPT !.list = IF ok THEN {} ELSE log.list, !.loading = FALSE, !.failed = fa],
             calls' = calls \ {c}
      PROVE  ModalsInv'
  <2> DEFINE l2 == IF ok THEN {} ELSE log.list
  <2>1. l2 \in SUBSET Link /\ (ok => l2 = {})
    BY <1>a DEF Modals!Log
  <2>2. log' = [log EXCEPT !.list = l2, !.loading = FALSE, !.failed = fa]
    BY <1>7
  <2> HIDE DEF l2
  <2>3. /\ log' \in Modals!Log /\ log'.file = log.file /\ log'.loading = FALSE /\ log'.mixed = log.mixed
        /\ log'.failed = fa /\ log'.sel = log.sel /\ log'.logs = log.logs /\ log'.list = l2
    BY <1>a, <1>4, <2>1, <2>2 DEF Modals!Log
  <2>4. LogCalls' = LogCalls \ {c} /\ ShareCalls' = ShareCalls /\ ViewCalls' = ViewCalls
    BY <1>7 DEF LogCalls, ShareCalls, ViewCalls
  <2>5. ~log.mixed /\ ~log.failed => LogCalls' = {} /\ log.logs = log.sel
    BY <1>b, <1>2, <2>4
  <2>6. LogInv'
    BY <1>4, <2>1, <2>3, <2>5 DEF LogInv
  <2>7. ShareInv' /\ ViewInv'
    BY <1>1, <1>5, <2>4, ShareFrame, ViewFrame, ModalTyped
  <2>8. calls' \subseteq Modals!Calls
    BY <1>a, <1>7
  <2> QED
    BY <1>a, <1>1, <2>3, <2>6, <2>7, <2>8 DEF ModalsInv, Modals!TypeOK
<1> QED
  BY <1>1, <1>6, <1>7

LEMMA LoggedStep ==
  ASSUME ModalsInv, NEW c \in calls, NEW ok \in BOOLEAN, c.to = "logs", Modals!Logged(c, ok)
  PROVE  ModalsInv'
<1>a. /\ links \in [Link -> Modals!LinkState] /\ share \in Modals!Share /\ log \in Modals!Log
      /\ view \in Modals!View /\ calls \subseteq Modals!Calls /\ clicks \in 0..MaxClicks
  BY ModalTyped
<1>b. ~log.mixed /\ ~log.failed =>
        /\ \A e, d \in LogCalls : e = d
        /\ LogCalls # {} => log.loading
        /\ \A e \in LogCalls : /\ e.to = "logs" => e.link = log.sel /\ LinkTo(log.sel, log.file)
                               /\ e.to = "logList" => e.file = log.file
        /\ (\A e \in LogCalls : e.to # "logs") => log.logs = log.sel
        /\ (\A e \in LogCalls : e.to # "logList") => \A l \in log.list : LinkTo(l, log.file)
        /\ LogCalls = {} /\ log.list # {} => LinkTo(log.sel, log.file)
  BY ModalTyped DEF LogInv
<1> DEFINE lg == IF ok THEN c.link ELSE log.logs
           fa == log.failed \/ ~ok
<1>1. /\ links' = links /\ share' = share /\ view' = view /\ clicks' = clicks /\ calls' = calls \ {c}
      /\ log' = [log EXCEPT !.logs = lg, !.loading = FALSE, !.failed = fa]
  BY DEF Modals!Logged
<1>2. c.link \in Link /\ c \in LogCalls
  BY <1>a, ModalCalls DEF LogCalls
<1>3. lg \in Link \cup {None} /\ fa \in BOOLEAN /\ (~fa => lg = c.link /\ ~log.failed)
  BY <1>a, <1>2 DEF Modals!Log
<1> HIDE DEF lg, fa
<1>4. /\ log' \in Modals!Log /\ log'.file = log.file /\ log'.mixed = log.mixed
      /\ log'.failed = fa /\ log'.sel = log.sel /\ log'.logs = lg /\ log'.list = log.list
  BY <1>a, <1>1, <1>3 DEF Modals!Log
<1>5. LogCalls' = LogCalls \ {c} /\ ShareCalls' = ShareCalls /\ ViewCalls' = ViewCalls
  BY <1>1 DEF LogCalls, ShareCalls, ViewCalls
<1>6. \A k, i : LinkTo(k, i) => LinkTo(k, i)' /\ links'[k].perm = links[k].perm
  BY <1>1 DEF LinkTo
<1>7. ~log.mixed /\ ~log.failed =>
        /\ LogCalls' = {} /\ c.link = log.sel /\ LinkTo(log.sel, log.file)
        /\ \A l \in log.list : LinkTo(l, log.file)
  BY <1>b, <1>2, <1>5
<1>8. ~log.mixed /\ ~log.failed => LinkTo(log.sel, log.file)' /\ (\A l \in log.list : LinkTo(l, log.file))'
  BY <1>1, <1>4, <1>7 DEF LinkTo
<1>9. LogInv'
  BY <1>3, <1>4, <1>7, <1>8 DEF LogInv
<1>10. ShareInv' /\ ViewInv'
  BY <1>1, <1>5, <1>6, ShareFrame, ViewFrame, ModalTyped
<1>11. calls' \subseteq Modals!Calls
  BY <1>a, <1>1
<1> QED
  BY <1>a, <1>1, <1>4, <1>9, <1>10, <1>11 DEF ModalsInv, Modals!TypeOK

\* The answers to PreviewModal.
LEMMA TicketedStep ==
  ASSUME ModalsInv, NEW c \in calls, NEW ok \in BOOLEAN, c.to = "ticket", Modals!Ticketed(c, ok)
  PROVE  ModalsInv'
<1>a. /\ links \in [Link -> Modals!LinkState] /\ share \in Modals!Share /\ log \in Modals!Log
      /\ view \in Modals!View /\ calls \subseteq Modals!Calls /\ clicks \in 0..MaxClicks
  BY ModalTyped
<1>b. /\ ~view.vis /\ ~view.late => ViewCalls = {} /\ view.text = None /\ view.url = None
      /\ view.vis /\ ~view.mixed =>
          /\ \A e \in ViewCalls : e.file = view.file
          /\ {view.text, view.url} \subseteq {view.file, None}
  BY ModalTyped DEF ViewInv
<1> DEFINE d == [to |-> "text", file |-> c.file]
<1>1. /\ links' = links /\ share' = share /\ log' = log /\ clicks' = clicks
      /\ calls' = (calls \ {c}) \cup (IF ok THEN {d} ELSE {})
      /\ view' = IF ok THEN [view EXCEPT !.url = c.file] ELSE [view EXCEPT !.loading = FALSE]
  BY DEF Modals!Ticketed
<1>2. c.file \in File /\ c \in ViewCalls
  BY <1>a, ModalCalls DEF ViewCalls
<1>3. d \in Modals!Calls /\ d.to = "text" /\ d.file = c.file
  BY <1>2, ModalCalls
<1> HIDE DEF d
<1>4. /\ view' \in Modals!View /\ view'.vis = view.vis /\ view'.late = view.late /\ view'.mixed = view.mixed
      /\ view'.file = view.file /\ view'.text = view.text /\ view'.url \in {view.url, c.file}
  <2>1. CASE ok
    BY <1>a, <1>1, <1>2, <2>1 DEF Modals!View
  <2>2. CASE ~ok
    BY <1>a, <1>1, <2>2 DEF Modals!View
  <2> QED
    BY <2>1, <2>2
<1>5. ViewCalls' \subseteq ViewCalls \cup {d} /\ ShareCalls' = ShareCalls /\ LogCalls' = LogCalls
      /\ calls' \subseteq Modals!Calls
  BY <1>a, <1>1, <1>3 DEF ViewCalls, ShareCalls, LogCalls
<1>6. \A k, i : LinkTo(k, i) => LinkTo(k, i)' /\ links'[k].perm = links[k].perm
  BY <1>1 DEF LinkTo
<1>7. ViewInv'
  BY <1>b, <1>2, <1>3, <1>4, <1>5 DEF ViewInv
<1>8. ShareInv' /\ LogInv'
  BY <1>1, <1>5, <1>6, ShareFrame, LogFrame, ModalTyped
<1> QED
  BY <1>a, <1>1, <1>4, <1>5, <1>7, <1>8 DEF ModalsInv, Modals!TypeOK

LEMMA TextedStep ==
  ASSUME ModalsInv, NEW c \in calls, NEW ok \in BOOLEAN, c.to = "text", Modals!Texted(c, ok)
  PROVE  ModalsInv'
<1>a. /\ links \in [Link -> Modals!LinkState] /\ share \in Modals!Share /\ log \in Modals!Log
      /\ view \in Modals!View /\ calls \subseteq Modals!Calls /\ clicks \in 0..MaxClicks
  BY ModalTyped
<1>b. /\ ~view.vis /\ ~view.late => ViewCalls = {} /\ view.text = None /\ view.url = None
      /\ view.vis /\ ~view.mixed =>
          /\ \A e \in ViewCalls : e.file = view.file
          /\ {view.text, view.url} \subseteq {view.file, None}
  BY ModalTyped DEF ViewInv
<1> DEFINE tx == IF ok THEN c.file ELSE view.text
<1>1. /\ links' = links /\ share' = share /\ log' = log /\ clicks' = clicks /\ calls' = calls \ {c}
      /\ view' = [view EXCEPT !.text = tx, !.loading = FALSE]
  BY DEF Modals!Texted
<1>2. c.file \in File /\ c \in ViewCalls
  BY <1>a, ModalCalls DEF ViewCalls
<1>3. tx \in File \cup {None} /\ tx \in {c.file, view.text}
  BY <1>a, <1>2 DEF Modals!View
<1> HIDE DEF tx
<1>4. /\ view' \in Modals!View /\ view'.vis = view.vis /\ view'.late = view.late /\ view'.mixed = view.mixed
      /\ view'.file = view.file /\ view'.text = tx /\ view'.url = view.url
  BY <1>a, <1>1, <1>3 DEF Modals!View
<1>5. ViewCalls' \subseteq ViewCalls /\ ShareCalls' = ShareCalls /\ LogCalls' = LogCalls
      /\ calls' \subseteq Modals!Calls
  BY <1>a, <1>1 DEF ViewCalls, ShareCalls, LogCalls
<1>6. \A k, i : LinkTo(k, i) => LinkTo(k, i)' /\ links'[k].perm = links[k].perm
  BY <1>1 DEF LinkTo
<1>7. ViewInv'
  BY <1>b, <1>2, <1>3, <1>4, <1>5 DEF ViewInv
<1>8. ShareInv' /\ LogInv'
  BY <1>1, <1>5, <1>6, ShareFrame, LogFrame, ModalTyped
<1> QED
  BY <1>a, <1>1, <1>4, <1>5, <1>7, <1>8 DEF ModalsInv, Modals!TypeOK

LEMMA ModalStep == ModalsInv /\ [Modals!Next]_(Modals!vars) => ModalsInv'
<1> SUFFICES ASSUME ModalsInv, [Modals!Next]_(Modals!vars) PROVE ModalsInv'
  OBVIOUS
<1>1. ASSUME NEW c \in calls, NEW ok \in BOOLEAN, Modals!Answer(c, ok)
      PROVE  ModalsInv'
  BY <1>1, CreatedStep, ListedStep, RevokedStep, LogListedStep, LoggedStep, TicketedStep, TextedStep
     DEF Modals!Answer
<1>2. CASE UNCHANGED Modals!vars
  BY <1>2 DEF Modals!vars, ModalsInv, Modals!TypeOK, ShareInv, LogInv, ViewInv, ShareCalls, LogCalls, ViewCalls, LinkTo
<1> QED
  BY <1>1, <1>2, InShareModal, InLogModal, InViewModal DEF Modals!Next

LEMMA ModalShown == ModalsInv => Modals!TokenFits /\ Modals!ShownFits
<1> SUFFICES ASSUME ModalsInv PROVE Modals!TokenFits /\ Modals!ShownFits
  OBVIOUS
<1>1. Modals!TokenFits
  BY ModalTyped DEF ShareInv, Modals!TokenFits, Modals!TokenShown, LinkTo
<1>2. Modals!ListFits
  <2>1. Modals!Pending({"list"}) = {} => \A c \in ShareCalls : c.to # "list"
    BY DEF Modals!Pending, ShareCalls
  <2> QED
    BY <2>1, ModalTyped DEF ShareInv, Modals!ListFits, LinkTo
<1>3. Modals!LogFits
  <2> SUFFICES ASSUME log.vis, ~log.loading, ~log.failed, ~log.mixed, log.list # {}
               PROVE  log.logs = log.sel /\ links[log.sel].file = log.file
    BY DEF Modals!LogFits, Modals!LogShown
  <2>1. LogCalls = {} /\ LinkTo(log.sel, log.file) /\ log.logs = log.sel
    BY ModalTyped DEF LogInv
  <2> QED
    BY <2>1 DEF LinkTo
<1>4. Modals!PreviewFits
  BY ModalTyped DEF ViewInv, Modals!PreviewFits, Modals!Previewed
<1> QED
  BY <1>1, <1>2, <1>3, <1>4 DEF Modals!ShownFits

LEMMA ModalsHold == Spec => [](part = "modals" => Modals!TypeOK /\ Modals!TokenFits /\ Modals!ShownFits)
<1> DEFINE I == part = "modals" => ModalsInv
<1>1. Init => I
  BY ModalInit DEF Init
<1>2. ASSUME I, [Next]_vars PROVE I'
  <2>1. part' = part
    BY <1>2 DEF Next, vars
  <2>2. ASSUME part = "modals" PROVE [Modals!Next]_(Modals!vars)
    <3>1. CASE UNCHANGED vars
      BY <3>1 DEF vars, modalVars, Modals!vars
    <3>2. CASE Next
      BY <2>2, <3>2 DEF Next, modalVars, Modals!vars
    <3> QED
      BY <1>2, <3>1, <3>2
  <2> QED
    BY <1>2, <2>1, <2>2, ModalStep
<1>3. I => (part = "modals" => Modals!TypeOK /\ Modals!TokenFits /\ Modals!ShownFits)
  BY ModalShown, ModalTyped DEF Modals!TypeOK
<1> HIDE DEF I
<1> QED
  BY <1>1, <1>2, <1>3, PTL DEF Spec

-----------------------------------------------------------------------------
\* FileManager.

Items == {outer, inner, deep, file}
Dirs == {outer, inner, deep}
Hold == {{}} \cup {{S} : S \in SUBSET Items}

\* The pointer holds one thing at most, no menu is open while it holds the rubber band,
\* and the file of a menu is selected, or nothing is, unless the menu is one of the side
\* bar or was overtaken by a selection.
Hands(u) ==
    /\ u.drag = {} \/ u.marquee = {}
    /\ u.marquee = {} \/ ~u.menu.open
    /\ u.menu.open /\ u.menu.file # None /\ ~u.menu.side /\ ~u.menu.taken => u.menu.file \in u.sel \/ u.sel = {}

\* A paste under way is one of what is in the clipboard, unless the clipboard was
\* filled or emptied since.
Pasted(clip, requested) ==
    \A op \in requested : op.via \in Files!Pastes => op.ids = clip.ids \/ clip.late \/ clip.ids = {}

Targets(requested) == \A op \in requested : op.kind = "move" => op.to \in Files!Folders

\* A question is one to delete.
Asks(d) == d.type = "confirm" => d.via \in {"menu", "key"}

FilesInv ==
    Files!TypeOK /\ Hands(ui) /\ Pasted(ui.clip, ops) /\ Targets(ops) /\ Asks(ui.dialog) /\ Asks(ui.later)

\* What ClipboardKept says of a step; AsksOfItsFile says it of the menu.
Kept ==
    ui.clip.ids # {} /\ ui'.clip.ids = {} =>
        \E op \in ops \ ops' : op.via \in Files!Pastes /\ (op.ids = ui.clip.ids \/ ui.clip.late)

LEMMA InputsBound == MaxInputs \in Nat
BY BoundsAssumption

LEMMA FilesSets ==
  /\ Files!UI = [mobile : BOOLEAN, cur : Files!Folders, sel : SUBSET Items, clip : Files!Clips, menu : Files!Menus,
                 drag : Hold, marquee : Hold, dialog : Files!Dialogs, later : Files!Dialogs,
                 highlight : Items \cup {None}, moving : BOOLEAN]
  /\ Files!TypeOK <=>
        /\ disk \in [Items -> Files!Places] /\ rows \in [Items -> Files!Places] /\ tree \in [Dirs -> Files!Places]
        /\ ui \in Files!UI /\ ops \subseteq Files!Ops /\ inputs \in 0..MaxInputs
  /\ Dirs \subseteq Items /\ Dirs \subseteq Files!Folders /\ Root \in Files!Folders
  /\ Files!Folders \subseteq Files!Places /\ Gone \in Files!Places
BY DEF Files!UI, Files!TypeOK, Items, Dirs, Hold, Files!Folders, Files!Places

LEMMA FilesHold ==
  /\ {} \in Hold
  /\ \A S \in SUBSET Items : {S} \in Hold /\ {S} # {}
  /\ \A D \in Hold : \A S \in D : S \subseteq Items
BY DEF Hold

\* The strings: no question comes of a paste.
LEMMA FilesVias ==
  /\ "menu" \in Files!Sources /\ "key" \in Files!Sources /\ "bar" \in Files!Sources /\ "none" \in Files!Sources
  /\ "paste" \in Files!Pastes /\ "menu_paste" \in Files!Pastes
  /\ "row" \notin Files!Pastes /\ "side" \notin Files!Pastes /\ "key" # "menu" /\ "bar" # "menu" /\ "none" # "menu"
  /\ \A v \in Files!Sources : v \notin Files!Pastes /\ v # "side"
BY DEF Files!Sources, Files!Pastes

LEMMA FilesMenus ==
  /\ Files!NoMenu \in Files!Menus /\ ~Files!NoMenu.open
  /\ \A i \in Items \cup {None} :
        /\ [Files!NoMenu EXCEPT !.open = TRUE, !.file = i] \in Files!Menus
        /\ [Files!NoMenu EXCEPT !.open = TRUE, !.file = i].file = i
        /\ [Files!NoMenu EXCEPT !.open = TRUE, !.file = i, !.side = TRUE] \in Files!Menus
        /\ [Files!NoMenu EXCEPT !.open = TRUE, !.file = i, !.side = TRUE].side
  /\ [Files!NoMenu EXCEPT !.open = TRUE] \in Files!Menus /\ [Files!NoMenu EXCEPT !.open = TRUE].file = None
  /\ \A m \in Files!Menus :
        /\ m.open \in BOOLEAN /\ m.file \in Items \cup {None}
        /\ \A b \in BOOLEAN : /\ [m EXCEPT !.taken = b] \in Files!Menus /\ [m EXCEPT !.taken = b].open = m.open
                              /\ [m EXCEPT !.taken = b].taken = b
<1>1. Files!Menus = [open : BOOLEAN, file : Items \cup {None}, side : BOOLEAN, taken : BOOLEAN]
  BY DEF Files!Menus, Items
<1>2. Files!NoMenu = [open |-> FALSE, file |-> None, side |-> FALSE, taken |-> FALSE]
  BY DEF Files!NoMenu
<1>3. Files!NoMenu \in Files!Menus /\ ~Files!NoMenu.open /\ Files!NoMenu.file = None
  BY <1>1, <1>2
<1>4. \A m \in Files!Menus :
        /\ m.open \in BOOLEAN /\ m.file \in Items \cup {None}
        /\ \A b \in BOOLEAN : /\ [m EXCEPT !.taken = b] \in Files!Menus /\ [m EXCEPT !.taken = b].open = m.open
                              /\ [m EXCEPT !.taken = b].taken = b
  BY <1>1
<1>5. \A m \in Files!Menus, i \in Items \cup {None} :
        /\ [m EXCEPT !.open = TRUE, !.file = i] \in Files!Menus
        /\ [m EXCEPT !.open = TRUE, !.file = i].file = i
        /\ [m EXCEPT !.open = TRUE, !.file = i, !.side = TRUE] \in Files!Menus
        /\ [m EXCEPT !.open = TRUE, !.file = i, !.side = TRUE].side
  BY <1>1
<1>6. \A m \in Files!Menus : [m EXCEPT !.open = TRUE] \in Files!Menus /\ [m EXCEPT !.open = TRUE].file = m.file
  BY <1>1
<1> QED
  BY <1>3, <1>4, <1>5, <1>6

LEMMA FilesDialogs ==
  /\ Files!NoDialog \in Files!Dialogs /\ Files!NoDialog.via = "none"
  /\ [Files!NoDialog EXCEPT !.type = "alert"] \in Files!Dialogs /\ [Files!NoDialog EXCEPT !.type = "alert"].via = "none"
  /\ \A S \in SUBSET Items, v \in Files!Sources :
        /\ Files!Confirm(S, v) \in Files!Dialogs /\ Files!Confirm(S, v).via = v /\ Files!Confirm(S, v).ids = S
        /\ v \in {"menu", "key"} => Asks(Files!Confirm(S, v))
  /\ Asks(Files!NoDialog) /\ Asks([Files!NoDialog EXCEPT !.type = "alert"])
  /\ \A d \in Files!Dialogs : d.via \in Files!Sources /\ d.ids \subseteq Items
<1> DEFINE Ty == {"none", "alert", "confirm"}
<1>1. Files!Dialogs = [type : Ty, ids : SUBSET Items, via : Files!Sources]
  BY DEF Files!Dialogs, Items
<1>2. "none" \in Ty /\ "alert" \in Ty /\ "confirm" \in Ty
  OBVIOUS
<1> HIDE DEF Ty
<1>3. Files!NoDialog = [type |-> "none", ids |-> {}, via |-> "none"]
  BY DEF Files!NoDialog
<1>4. Files!NoDialog \in Files!Dialogs /\ Files!NoDialog.via = "none" /\ Files!NoDialog.type = "none"
  BY <1>1, <1>2, <1>3, FilesVias
<1>5. \A d \in Files!Dialogs : /\ [d EXCEPT !.type = "alert"] \in Files!Dialogs
                              /\ [d EXCEPT !.type = "alert"].type = "alert"
                              /\ [d EXCEPT !.type = "alert"].via = d.via
                              /\ d.via \in Files!Sources /\ d.ids \subseteq Items
  BY <1>1, <1>2
<1>6. ASSUME NEW S \in SUBSET Items, NEW v \in Files!Sources
      PROVE  Files!Confirm(S, v) \in Files!Dialogs /\ Files!Confirm(S, v).via = v /\ Files!Confirm(S, v).ids = S
  <2>1. Files!Confirm(S, v) = [type |-> "confirm", ids |-> S, via |-> v]
    BY DEF Files!Confirm
  <2> QED
    BY <1>1, <1>2, <2>1
<1>7. Asks(Files!NoDialog) /\ Asks([Files!NoDialog EXCEPT !.type = "alert"])
  BY <1>4, <1>5 DEF Asks
<1>8. \A S \in SUBSET Items, v \in {"menu", "key"} : Asks(Files!Confirm(S, v))
  BY <1>6, FilesVias DEF Asks
<1> QED
  BY <1>4, <1>5, <1>6, <1>7, <1>8

LEMMA FilesClips ==
  /\ Files!Empty \in Files!Clips /\ Files!Empty.ids = {} /\ Files!Empty.via = "none"
  /\ \A c \in Files!Clips : c.ids \subseteq Items
  /\ ui.cur \in Files!Folders =>
        \A S \in SUBSET Items, b \in BOOLEAN, v \in Files!Sources :
            /\ Files!Clip(S, b, v) \in Files!Clips /\ Files!Clip(S, b, v).ids = S
            /\ Files!Clip(S, b, v).via = v /\ Files!Clip(S, b, v).late = Files!Pasting
<1>1. Files!Clips = [ids : SUBSET Items, cut : BOOLEAN, src : Files!Folders \cup {None}, via : Files!Sources, late : BOOLEAN]
  BY DEF Files!Clips, Items
<1>2. Files!Empty = [ids |-> {}, cut |-> FALSE, src |-> None, via |-> "none", late |-> FALSE]
  BY DEF Files!Empty
<1>3. Files!Empty \in Files!Clips /\ Files!Empty.ids = {} /\ Files!Empty.via = "none"
  BY <1>1, <1>2, FilesVias
<1>4. \A c \in Files!Clips : c.ids \subseteq Items
  BY <1>1
<1>5. ASSUME ui.cur \in Files!Folders, NEW S \in SUBSET Items, NEW b \in BOOLEAN, NEW v \in Files!Sources
      PROVE  /\ Files!Clip(S, b, v) \in Files!Clips /\ Files!Clip(S, b, v).ids = S
             /\ Files!Clip(S, b, v).via = v /\ Files!Clip(S, b, v).late = Files!Pasting
  <2> DEFINE l == Files!Pasting
  <2>1. l \in BOOLEAN
    BY DEF Files!Pasting
  <2>2. Files!Clip(S, b, v) = [ids |-> S, cut |-> b, src |-> ui.cur, via |-> v, late |-> l]
    BY DEF Files!Clip
  <2> HIDE DEF l
  <2>3. Files!Clip(S, b, v) \in Files!Clips /\ Files!Clip(S, b, v).ids = S
        /\ Files!Clip(S, b, v).via = v /\ Files!Clip(S, b, v).late = l
    BY <1>1, <1>5, <2>1, <2>2
  <2> QED
    BY <2>3 DEF l
<1> QED
  BY <1>3, <1>4, <1>5

LEMMA FilesOps ==
  /\ \A op \in Files!Ops : op.ids \subseteq Items
  /\ \A S \in SUBSET Items, f \in Files!Folders :
        /\ [kind |-> "move", ids |-> S, to |-> f, via |-> "row"] \in Files!Ops
        /\ [kind |-> "move", ids |-> S, to |-> f, via |-> "side"] \in Files!Ops
        /\ \A v \in Files!Pastes : /\ [kind |-> "move", ids |-> S, to |-> f, via |-> v] \in Files!Ops
                                   /\ [kind |-> "copy", ids |-> S, to |-> f, via |-> v] \in Files!Ops
  /\ \A S \in SUBSET Items : \A v \in {"menu", "key"} : [kind |-> "delete", ids |-> S, to |-> None, via |-> v] \in Files!Ops
<1> DEFINE K == {"move", "copy", "delete"}
           V == Files!Pastes \cup {"row", "side", "menu", "key"}
<1>1. Files!Ops = [kind : K, ids : SUBSET Items, to : Files!Folders \cup {None}, via : V]
  BY DEF Files!Ops, Items
<1>2. "move" \in K /\ "copy" \in K /\ "delete" \in K
  OBVIOUS
<1>3. "row" \in V /\ "side" \in V /\ "menu" \in V /\ "key" \in V /\ Files!Pastes \subseteq V
  OBVIOUS
<1> HIDE DEF K, V
<1> QED
  BY <1>1, <1>2, <1>3

LEMMA FilesTyped ==
  ASSUME FilesInv
  PROVE  /\ ui \in Files!UI /\ ops \subseteq Files!Ops /\ inputs \in 0..MaxInputs
         /\ disk \in [Items -> Files!Places] /\ rows \in [Items -> Files!Places] /\ tree \in [Dirs -> Files!Places]
         /\ ui.cur \in Files!Folders /\ ui.sel \subseteq Items /\ ui.menu \in Files!Menus /\ ui.mobile \in BOOLEAN
         /\ ui.drag \in Hold /\ ui.marquee \in Hold /\ ui.clip \in Files!Clips
         /\ ui.dialog \in Files!Dialogs /\ ui.later \in Files!Dialogs /\ ui.highlight \in Items \cup {None}
         /\ Hands(ui) /\ Pasted(ui.clip, ops) /\ Targets(ops) /\ Asks(ui.dialog) /\ Asks(ui.later)
<1>1. ui \in Files!UI
  BY FilesSets DEF FilesInv
<1>2. /\ ui.cur \in Files!Folders /\ ui.sel \subseteq Items /\ ui.menu \in Files!Menus /\ ui.mobile \in BOOLEAN
      /\ ui.drag \in Hold /\ ui.marquee \in Hold /\ ui.clip \in Files!Clips
      /\ ui.dialog \in Files!Dialogs /\ ui.later \in Files!Dialogs /\ ui.highlight \in Items \cup {None}
  BY <1>1, FilesSets
<1> QED
  BY <1>1, <1>2, FilesSets DEF FilesInv

\* A step that keeps the invariant, and is one that the properties allow.
FilesGood == FilesInv' /\ Files!AsksOfItsFile /\ Kept

LEMMA FilesDone ==
  ASSUME FilesInv, ui' \in Files!UI, Hands(ui'), Asks(ui'.dialog), Asks(ui'.later),
         ops' \subseteq Files!Ops, Pasted(ui'.clip, ops'), Targets(ops'),
         disk' = disk, rows' = rows, tree' = tree, inputs' \in 0..MaxInputs,
         ui'.clip = ui.clip,
         ui'.dialog \in {ui.dialog, ui.later} \/ ui'.dialog.via # "menu",
         ui'.later = ui.later \/ ui'.later.via # "menu"
  PROVE  FilesGood
<1>1. Files!TypeOK'
  BY FilesTyped DEF Files!TypeOK, Items, Dirs
<1>2. FilesInv'
  BY <1>1 DEF FilesInv, Hands, Pasted, Targets, Asks
<1>3. Files!AsksOfItsFile
  BY DEF Files!AsksOfItsFile
<1> QED
  BY <1>2, <1>3 DEF FilesGood, Kept

LEMMA FilesQuiet ==
  ASSUME FilesInv, Files!Outside, ui' \in Files!UI, ui'.menu = ui.menu, ui'.clip = ui.clip,
         ui'.dialog = ui.dialog, ui'.later = ui.later, ui'.drag = {} \/ ui'.marquee = {},
         ops' = ops, disk' = disk, rows' = rows, tree' = tree, inputs' \in 0..MaxInputs
  PROVE  FilesGood
<1>1. Hands(ui')
  BY DEF Files!Outside, Hands
<1>2. Asks(ui'.dialog) /\ Asks(ui'.later) /\ Pasted(ui'.clip, ops') /\ Targets(ops') /\ ops' \subseteq Files!Ops
  BY FilesTyped
<1> QED
  BY <1>1, <1>2, FilesDone

LEMMA FilesInput ==
  ASSUME FilesInv, NEW new, Files!Input(new)
  PROVE  /\ ui' = new /\ ops' = ops /\ disk' = disk /\ rows' = rows /\ tree' = tree /\ inputs' \in 0..MaxInputs
BY FilesTyped, InputsBound DEF Files!Input, Files!Do

\* What can be done only without a menu, and leaves clipboard and questions alone.
LEMMA FilesOutside ==
  ASSUME FilesInv,
         \/ \E i \in Items : \/ Files!ItemClick(i) \/ Files!DoubleClick(i) \/ Files!DragStart(i)
                             \/ \E f \in Files!Folders : Files!SelectListed(i, f)
         \/ \E d \in Dirs : Files!SideClick(d) \/ Files!SideDragStart(d)
         \/ \E f \in Files!Folders : Files!CrumbClick(f)
         \/ \E b \in BOOLEAN : Files!MarqueeStart(b)
         \/ Files!BackgroundClick \/ Files!SelectionPill \/ Files!RootClick
  PROVE  FilesGood
<1>a. /\ ui \in Files!UI /\ ui.cur \in Files!Folders /\ ui.sel \subseteq Items
      /\ ui.drag = {} \/ ui.marquee = {}
  BY FilesTyped DEF Hands
<1>b. Files!CurrentFiles \subseteq Items
  BY DEF Files!CurrentFiles, Files!FilesIn, Items
<1>1. ASSUME NEW S \in SUBSET Items, Files!Outside, Files!Input([ui EXCEPT !.sel = S])
      PROVE  FilesGood
  <2>1. /\ ui' = [ui EXCEPT !.sel = S] /\ ops' = ops /\ disk' = disk /\ rows' = rows /\ tree' = tree
        /\ inputs' \in 0..MaxInputs
    BY <1>1, FilesInput
  <2>2. /\ ui' \in Files!UI /\ ui'.menu = ui.menu /\ ui'.clip = ui.clip /\ ui'.dialog = ui.dialog
        /\ ui'.later = ui.later /\ ui'.drag = ui.drag /\ ui'.marquee = ui.marquee
    BY <1>a, <2>1, FilesSets
  <2> QED
    BY <1>1, <1>a, <2>1, <2>2, FilesQuiet
<1>2. ASSUME NEW S \in SUBSET Items, NEW f \in Files!Folders, Files!Outside, Files!Input([ui EXCEPT !.sel = S, !.cur = f])
      PROVE  FilesGood
  <2>1. /\ ui' = [ui EXCEPT !.sel = S, !.cur = f] /\ ops' = ops /\ disk' = disk /\ rows' = rows /\ tree' = tree
        /\ inputs' \in 0..MaxInputs
    BY <1>2, FilesInput
  <2>2. /\ ui' \in Files!UI /\ ui'.menu = ui.menu /\ ui'.clip = ui.clip /\ ui'.dialog = ui.dialog
        /\ ui'.later = ui.later /\ ui'.drag = ui.drag /\ ui'.marquee = ui.marquee
    BY <1>a, <2>1, FilesSets
  <2> QED
    BY <1>2, <1>a, <2>1, <2>2, FilesQuiet
<1>3. ASSUME NEW h \in Items \cup {None}, NEW f \in Files!Folders, Files!Outside,
             Files!Input([ui EXCEPT !.cur = f, !.highlight = h])
      PROVE  FilesGood
  <2>1. /\ ui' = [ui EXCEPT !.cur = f, !.highlight = h] /\ ops' = ops /\ disk' = disk /\ rows' = rows /\ tree' = tree
        /\ inputs' \in 0..MaxInputs
    BY <1>3, FilesInput
  <2>2. /\ ui' \in Files!UI /\ ui'.menu = ui.menu /\ ui'.clip = ui.clip /\ ui'.dialog = ui.dialog
        /\ ui'.later = ui.later /\ ui'.drag = ui.drag /\ ui'.marquee = ui.marquee
    BY <1>a, <1>3, <2>1, FilesSets
  <2> QED
    BY <1>3, <1>a, <2>1, <2>2, FilesQuiet
<1>4. ASSUME NEW f \in Files!Folders, Files!Outside, Files!Input([ui EXCEPT !.cur = f])
      PROVE  FilesGood
  <2>1. /\ ui' = [ui EXCEPT !.cur = f] /\ ops' = ops /\ disk' = disk /\ rows' = rows /\ tree' = tree
        /\ inputs' \in 0..MaxInputs
    BY <1>4, FilesInput
  <2>2. /\ ui' \in Files!UI /\ ui'.menu = ui.menu /\ ui'.clip = ui.clip /\ ui'.dialog = ui.dialog
        /\ ui'.later = ui.later /\ ui'.drag = ui.drag /\ ui'.marquee = ui.marquee
    BY <1>a, <2>1, FilesSets
  <2> QED
    BY <1>4, <1>a, <2>1, <2>2, FilesQuiet
<1>5. ASSUME NEW S \in SUBSET Items, NEW D \in Hold, Files!Outside, Files!Input([ui EXCEPT !.sel = S, !.drag = D])
      PROVE  FilesGood
  <2>1. /\ ui' = [ui EXCEPT !.sel = S, !.drag = D] /\ ops' = ops /\ disk' = disk /\ rows' = rows /\ tree' = tree
        /\ inputs' \in 0..MaxInputs
    BY <1>5, FilesInput
  <2>2. /\ ui' \in Files!UI /\ ui'.menu = ui.menu /\ ui'.clip = ui.clip /\ ui'.dialog = ui.dialog
        /\ ui'.later = ui.later /\ ui'.marquee = ui.marquee
    BY <1>a, <2>1, FilesSets
  <2>3. ui.marquee = {}
    BY <1>5 DEF Files!Outside, Files!Free
  <2> QED
    BY <1>5, <1>a, <2>1, <2>2, <2>3, FilesQuiet
<1>6. ASSUME NEW D \in Hold, Files!Outside, Files!Input([ui EXCEPT !.drag = D])
      PROVE  FilesGood
  <2>1. /\ ui' = [ui EXCEPT !.drag = D] /\ ops' = ops /\ disk' = disk /\ rows' = rows /\ tree' = tree
        /\ inputs' \in 0..MaxInputs
    BY <1>6, FilesInput
  <2>2. /\ ui' \in Files!UI /\ ui'.menu = ui.menu /\ ui'.clip = ui.clip /\ ui'.dialog = ui.dialog
        /\ ui'.later = ui.later /\ ui'.marquee = ui.marquee
    BY <1>a, <2>1, FilesSets
  <2>3. ui.marquee = {}
    BY <1>6 DEF Files!Outside, Files!Free
  <2> QED
    BY <1>6, <1>a, <2>1, <2>2, <2>3, FilesQuiet
<1>7. ASSUME NEW D \in Hold, Files!Outside, Files!Input([ui EXCEPT !.marquee = D])
      PROVE  FilesGood
  <2>1. /\ ui' = [ui EXCEPT !.marquee = D] /\ ops' = ops /\ disk' = disk /\ rows' = rows /\ tree' = tree
        /\ inputs' \in 0..MaxInputs
    BY <1>7, FilesInput
  <2>2. /\ ui' \in Files!UI /\ ui'.menu = ui.menu /\ ui'.clip = ui.clip /\ ui'.dialog = ui.dialog
        /\ ui'.later = ui.later /\ ui'.drag = ui.drag
    BY <1>a, <2>1, FilesSets
  <2>3. ui.drag = {}
    BY <1>7 DEF Files!Outside, Files!Free
  <2> QED
    BY <1>7, <1>a, <2>1, <2>2, <2>3, FilesQuiet
<1>8. ASSUME NEW i \in Items, Files!ItemClick(i)
      PROVE  FilesGood
  <2>1. /\ (IF i \in ui.sel THEN ui.sel \ {i} ELSE ui.sel \cup {i}) \in SUBSET Items
        /\ \A range \in SUBSET Files!CurrentFiles : ui.sel \cup range \in SUBSET Items
        /\ {i} \in SUBSET Items
    BY <1>a, <1>b
  <2> QED
    BY <1>1, <1>8, <2>1 DEF Files!ItemClick
<1>9. ASSUME NEW i \in Items, Files!DoubleClick(i)
      PROVE  FilesGood
  <2> DEFINE S == IF ui.mobile THEN ui.sel ELSE {i}
  <2>1. Files!Outside /\ Files!Input([ui EXCEPT !.sel = S, !.cur = i]) /\ i \in Dirs
    BY <1>9 DEF Files!DoubleClick, Dirs
  <2>2. S \in SUBSET Items /\ i \in Files!Folders
    BY <1>a, <2>1, FilesSets
  <2> HIDE DEF S
  <2> QED
    BY <1>2, <2>1, <2>2
<1>10. ASSUME NEW i \in Items, Files!DragStart(i)
      PROVE  FilesGood
  <2> DEFINE S == IF i \in ui.sel THEN ui.sel ELSE {i}
  <2>1. Files!Outside /\ Files!Input([ui EXCEPT !.sel = S, !.drag = {S}])
    BY <1>10 DEF Files!DragStart
  <2>2. S \in SUBSET Items /\ {S} \in Hold
    BY <1>a, FilesHold
  <2> HIDE DEF S
  <2> QED
    BY <1>5, <2>1, <2>2
<1>11. ASSUME NEW i \in Items, NEW f \in Files!Folders, Files!SelectListed(i, f)
      PROVE  FilesGood
  <2>1. /\ Files!Outside
        /\ \/ i \in Dirs /\ Files!Input([ui EXCEPT !.cur = i])
           \/ Files!Input([ui EXCEPT !.cur = f, !.highlight = i])
    BY <1>11 DEF Files!SelectListed, Dirs
  <2> QED
    BY <1>3, <1>4, <2>1, FilesSets
<1>12. ASSUME NEW d \in Dirs, Files!SideClick(d)
      PROVE  FilesGood
  BY <1>4, <1>12, FilesSets DEF Files!SideClick
<1>13. ASSUME NEW d \in Dirs, Files!SideDragStart(d)
      PROVE  FilesGood
  <2>1. {d} \in SUBSET Items
    BY FilesSets
  <2>2. {{d}} \in Hold
    BY <2>1, FilesHold
  <2> QED
    BY <1>6, <1>13, <2>2 DEF Files!SideDragStart
<1>14. ASSUME NEW f \in Files!Folders, Files!CrumbClick(f)
      PROVE  FilesGood
  <2>1. Files!Outside /\ ui' = [ui EXCEPT !.cur = f, !.sel = {}] /\ Files!Do([ui EXCEPT !.cur = f, !.sel = {}]) /\ ops' = ops
    BY <1>14 DEF Files!CrumbClick, Files!Input, Files!Do
  <2>2. [ui EXCEPT !.cur = f, !.sel = {}] = [ui EXCEPT !.sel = {}, !.cur = f]
    BY <1>a, FilesSets
  <2>3. Files!Input([ui EXCEPT !.sel = {}, !.cur = f])
    BY <2>1, <2>2 DEF Files!Input
  <2> QED
    BY <1>2, <2>1, <2>3
<1>15. ASSUME NEW b \in BOOLEAN, Files!MarqueeStart(b)
      PROVE  FilesGood
  <2> DEFINE S == IF b THEN ui.sel ELSE {}
  <2>1. Files!Outside /\ Files!Input([ui EXCEPT !.marquee = {S}])
    BY <1>15 DEF Files!MarqueeStart
  <2>2. {S} \in Hold
    BY <1>a, FilesHold
  <2> HIDE DEF S
  <2> QED
    BY <1>7, <2>1, <2>2
<1>16. ASSUME Files!BackgroundClick
      PROVE  FilesGood
  BY <1>1, <1>16 DEF Files!BackgroundClick
<1>17. ASSUME Files!SelectionPill
      PROVE  FilesGood
  <2> DEFINE S == IF Files!CurrentFiles # {} /\ Files!CurrentFiles \subseteq ui.sel THEN {} ELSE Files!CurrentFiles
  <2>1. Files!Outside /\ Files!Input([ui EXCEPT !.sel = S])
    BY <1>17 DEF Files!SelectionPill
  <2>2. S \in SUBSET Items
    BY <1>b
  <2> HIDE DEF S
  <2> QED
    BY <1>1, <2>1, <2>2
<1>18. ASSUME Files!RootClick
      PROVE  FilesGood
  BY <1>4, <1>18, FilesSets DEF Files!RootClick
<1> QED
  BY <1>8, <1>9, <1>10, <1>11, <1>12, <1>13, <1>14, <1>15, <1>16, <1>17, <1>18

\* The menu is opened.
LEMMA FilesOpens ==
  ASSUME FilesInv,
         \/ \E i \in Items : Files!ContextMenuOn(i)
         \/ Files!ContextMenuOnNothing \/ Files!SelectionMore \/ Files!RootMenu
         \/ \E d \in Dirs : Files!SideMenu(d)
  PROVE  FilesGood
<1>a. /\ ui \in Files!UI /\ ui.cur \in Files!Folders /\ ui.sel \subseteq Items /\ ui.menu \in Files!Menus
      /\ ops \subseteq Files!Ops
      /\ Hands(ui) /\ Pasted(ui.clip, ops) /\ Targets(ops) /\ Asks(ui.dialog) /\ Asks(ui.later)
  BY FilesTyped
<1>b. ui.drag = {} \/ ui.marquee = {}
  BY <1>a DEF Hands
<1>1. ASSUME NEW S \in SUBSET Items, NEW m \in Files!Menus, NEW f \in Files!Folders,
             Files!Input([ui EXCEPT !.sel = S, !.menu = m, !.cur = f]), ui.marquee = {},
             m.file # None /\ ~m.side => m.file \in S
      PROVE  FilesGood
  <2>1. /\ ui' = [ui EXCEPT !.sel = S, !.menu = m, !.cur = f]
        /\ ops' = ops /\ disk' = disk /\ rows' = rows /\ tree' = tree /\ inputs' \in 0..MaxInputs
    BY <1>1, FilesInput
  <2>2. /\ ui' \in Files!UI /\ ui'.menu = m /\ ui'.clip = ui.clip /\ ui'.dialog = ui.dialog /\ ui'.sel = S
        /\ ui'.later = ui.later /\ ui'.drag = ui.drag /\ ui'.marquee = ui.marquee
    BY <1>a, <2>1, FilesSets
  <2>3. Hands(ui')
    BY <1>1, <2>2 DEF Hands
  <2> QED
    BY <1>a, <2>1, <2>2, <2>3, FilesDone
<1>c. /\ \A S \in SUBSET Items, m \in Files!Menus :
            [ui EXCEPT !.sel = S, !.menu = m] = [ui EXCEPT !.sel = S, !.menu = m, !.cur = ui.cur]
      /\ \A m \in Files!Menus :
            [ui EXCEPT !.menu = m] = [ui EXCEPT !.sel = ui.sel, !.menu = m, !.cur = ui.cur]
      /\ \A m \in Files!Menus, f \in Files!Folders :
            [ui EXCEPT !.cur = f, !.menu = m] = [ui EXCEPT !.sel = ui.sel, !.menu = m, !.cur = f]
  BY <1>a, FilesSets
<1>2. ASSUME NEW i \in Items, Files!ContextMenuOn(i)
      PROVE  FilesGood
  <2> DEFINE m == [Files!NoMenu EXCEPT !.open = TRUE, !.file = i]
             S == IF i \in ui.sel THEN ui.sel ELSE {i}
             T == ui.sel \cup {i}
  <2>1. /\ ~ui.menu.open /\ Files!Pressed(i)
        /\ \/ Files!Input([ui EXCEPT !.sel = T])
           \/ i \in ui.sel /\ Files!Input([ui EXCEPT !.menu = m])
           \/ Files!Input([ui EXCEPT !.sel = S, !.menu = m])
    BY <1>2 DEF Files!ContextMenuOn
  <2>2. ui.marquee = {}
    BY <1>b, <2>1 DEF Files!Pressed, Files!Free
  <2>3. m \in Files!Menus /\ m.file = i /\ S \in SUBSET Items /\ T \in SUBSET Items /\ i \in S
    BY <1>a, FilesMenus
  <2> HIDE DEF m, S, T
  <2>4. CASE Files!Input([ui EXCEPT !.sel = T])
    <3>1. /\ ui' = [ui EXCEPT !.sel = T]
          /\ ops' = ops /\ disk' = disk /\ rows' = rows /\ tree' = tree /\ inputs' \in 0..MaxInputs
      BY <2>4, FilesInput
    <3>2. /\ ui' \in Files!UI /\ ui'.menu = ui.menu /\ ui'.clip = ui.clip /\ ui'.dialog = ui.dialog
          /\ ui'.later = ui.later /\ ui'.drag = ui.drag /\ ui'.marquee = ui.marquee
      BY <1>a, <2>3, <3>1, FilesSets
    <3>3. Hands(ui')
      BY <2>1, <2>2, <3>2 DEF Hands
    <3> QED
      BY <1>a, <3>1, <3>2, <3>3, FilesDone
  <2>5. CASE i \in ui.sel /\ Files!Input([ui EXCEPT !.menu = m])
    <3>1. Files!Input([ui EXCEPT !.sel = ui.sel, !.menu = m, !.cur = ui.cur])
      BY <1>c, <2>3, <2>5
    <3> QED
      BY <1>1, <1>a, <2>2, <2>3, <2>5, <3>1
  <2>6. CASE Files!Input([ui EXCEPT !.sel = S, !.menu = m])
    <3>1. Files!Input([ui EXCEPT !.sel = S, !.menu = m, !.cur = ui.cur])
      BY <1>c, <2>3, <2>6
    <3> QED
      BY <1>1, <1>a, <2>2, <2>3, <3>1
  <2> QED
    BY <2>1, <2>4, <2>5, <2>6
<1>3. ASSUME NEW m \in Files!Menus, NEW f \in Files!Folders, Files!Outside,
             Files!Input([ui EXCEPT !.sel = ui.sel, !.menu = m, !.cur = f]),
             m.file # None /\ ~m.side => m.file \in ui.sel
      PROVE  FilesGood
  <2>1. ui.marquee = {}
    BY <1>3 DEF Files!Outside, Files!Free
  <2> QED
    BY <1>1, <1>3, <1>a, <2>1
<1>4. ASSUME Files!ContextMenuOnNothing
      PROVE  FilesGood
  <2> DEFINE m == [Files!NoMenu EXCEPT !.open = TRUE]
  <2>1. Files!Outside /\ Files!Input([ui EXCEPT !.menu = m])
    BY <1>4 DEF Files!ContextMenuOnNothing
  <2>2. m \in Files!Menus /\ m.file = None
    BY FilesMenus
  <2> HIDE DEF m
  <2>3. Files!Input([ui EXCEPT !.sel = ui.sel, !.menu = m, !.cur = ui.cur])
    BY <1>c, <2>1, <2>2
  <2> QED
    BY <1>3, <1>a, <2>1, <2>2, <2>3
<1>5. ASSUME Files!SelectionMore
      PROVE  FilesGood
  <2>1. PICK i \in {j \in ui.sel : ui.sel = {j} /\ rows[j] # Gone} \cup {None} :
            Files!Outside /\ Files!Input([ui EXCEPT !.menu = [Files!NoMenu EXCEPT !.open = TRUE, !.file = i]])
    BY <1>5 DEF Files!SelectionMore
  <2> DEFINE m == [Files!NoMenu EXCEPT !.open = TRUE, !.file = i]
  <2>2. m \in Files!Menus /\ m.file = i /\ (i # None => i \in ui.sel)
    BY <1>a, <2>1, FilesMenus
  <2>3. Files!Outside /\ Files!Input([ui EXCEPT !.menu = m])
    BY <2>1
  <2> HIDE DEF m
  <2>4. Files!Input([ui EXCEPT !.sel = ui.sel, !.menu = m, !.cur = ui.cur])
    BY <1>c, <2>2, <2>3
  <2> QED
    BY <1>3, <1>a, <2>2, <2>3, <2>4
<1>6. ASSUME Files!RootMenu
      PROVE  FilesGood
  <2> DEFINE m == [Files!NoMenu EXCEPT !.open = TRUE]
  <2>1. Files!Outside /\ Files!Input([ui EXCEPT !.cur = Root, !.menu = m])
    BY <1>6 DEF Files!RootMenu
  <2>2. m \in Files!Menus /\ m.file = None /\ Root \in Files!Folders
    BY FilesMenus, FilesSets
  <2> HIDE DEF m
  <2>3. Files!Input([ui EXCEPT !.sel = ui.sel, !.menu = m, !.cur = Root])
    BY <1>c, <2>1, <2>2
  <2> QED
    BY <1>3, <1>a, <2>1, <2>2, <2>3
<1>7. ASSUME NEW d \in Dirs, Files!SideMenu(d)
      PROVE  FilesGood
  <2> DEFINE m == [Files!NoMenu EXCEPT !.open = TRUE, !.file = d, !.side = TRUE]
  <2>1. Files!Outside /\ Files!Input([ui EXCEPT !.cur = d, !.menu = m])
    BY <1>7 DEF Files!SideMenu
  <2>2. m \in Files!Menus /\ m.side /\ d \in Files!Folders
    BY FilesMenus, FilesSets
  <2> HIDE DEF m
  <2>3. Files!Input([ui EXCEPT !.sel = ui.sel, !.menu = m, !.cur = d])
    BY <1>c, <2>1, <2>2
  <2> QED
    BY <1>3, <1>a, <2>1, <2>2, <2>3
<1> QED
  BY <1>2, <1>4, <1>5, <1>6, <1>7

LEMMA FilesRequest ==
  ASSUME FilesInv, NEW op, NEW new, Files!Request(op, new)
  PROVE  /\ ui' = new /\ ops' = ops \cup {op} /\ disk' = disk /\ rows' = rows /\ tree' = tree
         /\ inputs' \in 0..MaxInputs
BY FilesTyped, InputsBound DEF Files!Request, Files!Do

\* A drag or the rubber band.
LEMMA FilesPointer ==
  ASSUME FilesInv,
         \/ \E i \in Items : Files!DropOnFolder(i)
         \/ \E d \in Dirs : Files!SideDrop(d)
         \/ Files!RootDrop \/ Files!DragEnd \/ Files!MarqueeMove \/ Files!MarqueeEnd
  PROVE  FilesGood
<1>a. /\ ui \in Files!UI /\ ui.sel \subseteq Items /\ ops \subseteq Files!Ops
      /\ Hands(ui) /\ Pasted(ui.clip, ops) /\ Targets(ops) /\ Asks(ui.dialog) /\ Asks(ui.later)
      /\ ui.drag \in Hold /\ ui.marquee \in Hold
  BY FilesTyped
<1>b. {} \in Hold /\ (\A S : S \in ui.drag => S \in SUBSET Items) /\ (\A S : S \in ui.marquee => S \in SUBSET Items)
  BY <1>a, FilesHold
<1>1. ASSUME Files!Input([ui EXCEPT !.drag = {}])
      PROVE  FilesGood
  <2>1. /\ ui' = [ui EXCEPT !.drag = {}]
        /\ ops' = ops /\ disk' = disk /\ rows' = rows /\ tree' = tree /\ inputs' \in 0..MaxInputs
    BY <1>1, FilesInput
  <2>2. /\ ui' \in Files!UI /\ ui'.menu = ui.menu /\ ui'.clip = ui.clip /\ ui'.dialog = ui.dialog /\ ui'.sel = ui.sel
        /\ ui'.later = ui.later /\ ui'.drag = {} /\ ui'.marquee = ui.marquee
    BY <1>a, <1>b, <2>1, FilesSets
  <2>3. Hands(ui')
    BY <1>a, <2>2 DEF Hands
  <2> QED
    BY <1>a, <2>1, <2>2, <2>3, FilesDone
<1>2. ASSUME NEW S \in SUBSET Items, NEW f \in Files!Folders, NEW v \in {"row", "side"}, NEW m \in BOOLEAN,
             ui' = [ui EXCEPT !.drag = {}, !.moving = m],
             ops' = ops \cup {[kind |-> "move", ids |-> S, to |-> f, via |-> v]},
             disk' = disk, rows' = rows, tree' = tree, inputs' \in 0..MaxInputs
      PROVE  FilesGood
  <2> DEFINE op == [kind |-> "move", ids |-> S, to |-> f, via |-> v]
  <2>1. op \in Files!Ops /\ op.to = f /\ op.via \notin Files!Pastes
    BY <1>2, FilesOps, FilesVias
  <2>2. ops' = ops \cup {op}
    BY <1>2
  <2> HIDE DEF op
  <2>3. ops' \subseteq Files!Ops /\ Pasted(ui.clip, ops') /\ Targets(ops')
    BY <1>a, <2>1, <2>2 DEF Pasted, Targets
  <2>4. /\ ui' \in Files!UI /\ ui'.menu = ui.menu /\ ui'.clip = ui.clip /\ ui'.dialog = ui.dialog /\ ui'.sel = ui.sel
        /\ ui'.later = ui.later /\ ui'.drag = {} /\ ui'.marquee = ui.marquee
    BY <1>a, <1>b, <1>2, FilesSets
  <2>5. Hands(ui')
    BY <1>a, <2>4 DEF Hands
  <2> QED
    BY <1>a, <1>2, <2>3, <2>4, <2>5, FilesDone
<1>3. ASSUME NEW i \in Items, Files!DropOnFolder(i)
      PROVE  FilesGood
  <2>1. PICK S \in ui.drag : /\ i \in Dirs
                             /\ \/ Files!Input([ui EXCEPT !.drag = {}])
                                \/ Files!Request([kind |-> "move", ids |-> S, to |-> i, via |-> "row"], [ui EXCEPT !.drag = {}])
    BY <1>3 DEF Files!DropOnFolder, Files!DropTargets, Dirs
  <2>2. CASE Files!Request([kind |-> "move", ids |-> S, to |-> i, via |-> "row"], [ui EXCEPT !.drag = {}])
    <3> DEFINE m == ui.moving
    <3>1. /\ ui' = [ui EXCEPT !.drag = {}] /\ ops' = ops \cup {[kind |-> "move", ids |-> S, to |-> i, via |-> "row"]}
          /\ disk' = disk /\ rows' = rows /\ tree' = tree /\ inputs' \in 0..MaxInputs
      BY <2>2, FilesRequest
    <3>2. m \in BOOLEAN /\ [ui EXCEPT !.drag = {}] = [ui EXCEPT !.drag = {}, !.moving = m]
      BY <1>a, FilesSets
    <3>3. S \in SUBSET Items /\ i \in Files!Folders /\ "row" \in {"row", "side"}
      BY <1>b, <2>1, FilesSets
    <3> QED
      BY <1>2, <3>1, <3>2, <3>3
  <2> QED
    BY <1>1, <2>1, <2>2
<1>4. ASSUME NEW S \in ui.drag, NEW f \in Files!Folders,
             Files!Request([kind |-> "move", ids |-> S, to |-> f, via |-> "side"], [ui EXCEPT !.drag = {}, !.moving = TRUE])
      PROVE  FilesGood
  <2>1. /\ ui' = [ui EXCEPT !.drag = {}, !.moving = TRUE]
        /\ ops' = ops \cup {[kind |-> "move", ids |-> S, to |-> f, via |-> "side"]}
        /\ disk' = disk /\ rows' = rows /\ tree' = tree /\ inputs' \in 0..MaxInputs
    BY <1>4, FilesRequest
  <2>2. S \in SUBSET Items /\ f \in Files!Folders /\ "side" \in {"row", "side"} /\ TRUE \in BOOLEAN
    BY <1>b, <1>4
  <2> QED
    BY <1>2, <2>1, <2>2
<1>5. ASSUME NEW d \in Dirs, Files!SideDrop(d)
      PROVE  FilesGood
  <2>1. d \in Files!Folders
    BY FilesSets
  <2>2. PICK S \in ui.drag :
            \/ Files!Input([ui EXCEPT !.drag = {}])
            \/ Files!Request([kind |-> "move", ids |-> S, to |-> d, via |-> "side"], [ui EXCEPT !.drag = {}, !.moving = TRUE])
    BY <1>5 DEF Files!SideDrop
  <2> QED
    BY <1>1, <1>4, <2>1, <2>2
<1>6. ASSUME Files!RootDrop
      PROVE  FilesGood
  BY <1>4, <1>6, FilesSets DEF Files!RootDrop
<1>7. ASSUME Files!DragEnd
      PROVE  FilesGood
  BY <1>1, <1>7 DEF Files!DragEnd
<1>8. ASSUME Files!MarqueeMove
      PROVE  FilesGood
  <2>1. PICK initial \in ui.marquee, covered \in SUBSET Files!CurrentFiles :
            Files!Input([ui EXCEPT !.sel = initial \cup covered])
    BY <1>8 DEF Files!MarqueeMove
  <2> DEFINE S == initial \cup covered
  <2>2. S \in SUBSET Items
    BY <1>b, <2>1 DEF Files!CurrentFiles, Files!FilesIn, Items
  <2>3. Files!Input([ui EXCEPT !.sel = S])
    BY <2>1
  <2> HIDE DEF S
  <2>4. /\ ui' = [ui EXCEPT !.sel = S]
        /\ ops' = ops /\ disk' = disk /\ rows' = rows /\ tree' = tree /\ inputs' \in 0..MaxInputs
    BY <2>3, FilesInput
  <2>5. /\ ui' \in Files!UI /\ ui'.menu = ui.menu /\ ui'.clip = ui.clip /\ ui'.dialog = ui.dialog
        /\ ui'.later = ui.later /\ ui'.drag = ui.drag /\ ui'.marquee = ui.marquee
    BY <1>a, <2>2, <2>4, FilesSets
  <2>6. Hands(ui')
    BY <1>a, <2>1, <2>5 DEF Hands
  <2> QED
    BY <1>a, <2>4, <2>5, <2>6, FilesDone
<1>9. ASSUME Files!MarqueeEnd
      PROVE  FilesGood
  <2>1. /\ ui' = [ui EXCEPT !.marquee = {}]
        /\ ops' = ops /\ disk' = disk /\ rows' = rows /\ tree' = tree /\ inputs' \in 0..MaxInputs
    BY <1>9, FilesInput DEF Files!MarqueeEnd
  <2>2. /\ ui' \in Files!UI /\ ui'.menu = ui.menu /\ ui'.clip = ui.clip /\ ui'.dialog = ui.dialog /\ ui'.sel = ui.sel
        /\ ui'.later = ui.later /\ ui'.marquee = {}
    BY <1>a, <1>b, <2>1, FilesSets
  <2>3. Hands(ui')
    BY <1>a, <2>2 DEF Hands
  <2> QED
    BY <1>a, <2>1, <2>2, <2>3, FilesDone
<1> QED
  BY <1>3, <1>5, <1>6, <1>7, <1>8, <1>9

\* What the menu is for takes in its file.
LEMMA FilesMenuTarget ==
  ASSUME FilesInv, Files!MenuOnFile
  PROVE  /\ Files!MenuTarget \in SUBSET Items /\ Files!MenuTarget # {}
         /\ ui.menu.file \in Files!MenuTarget \cup {None} \/ ui.menu.side \/ ui.menu.taken
<1>1. ui.sel \subseteq Items /\ ui.menu.file \in Items \cup {None} /\ Hands(ui)
  BY FilesTyped, FilesMenus
<1>2. ui.menu.open /\ (ui.menu.file # None \/ ui.sel # {})
  BY DEF Files!MenuOnFile
<1> QED
  BY <1>1, <1>2 DEF Hands, Files!MenuTarget

\* Something is cut or copied.
LEMMA FilesClipped ==
  ASSUME FilesInv, NEW S \in SUBSET Items, S # {}, NEW b \in BOOLEAN, NEW v \in Files!Sources,
         ui' \in Files!UI, ui'.clip = Files!Clip(S, b, v), Hands(ui'),
         v # "menu" \/ ui.menu.file \in S \cup {None} \/ ui.menu.side \/ ui.menu.taken,
         ui'.dialog = ui.dialog, ui'.later = ui.later,
         ops' = ops, disk' = disk, rows' = rows, tree' = tree, inputs' \in 0..MaxInputs
  PROVE  FilesGood
<1>1. /\ ops \subseteq Files!Ops /\ Pasted(ui.clip, ops) /\ Targets(ops) /\ Asks(ui.dialog) /\ Asks(ui.later)
      /\ ui.cur \in Files!Folders
  BY FilesTyped
<1>2. ui'.clip.ids = S /\ ui'.clip.via = v /\ ui'.clip.late = Files!Pasting
  BY <1>1, FilesClips
<1>3. Files!TypeOK'
  BY <1>1, FilesTyped DEF Files!TypeOK, Items, Dirs
<1>4. Pasted(ui'.clip, ops')
  BY <1>2 DEF Pasted, Files!Pasting
<1>5. FilesInv'
  BY <1>1, <1>3, <1>4 DEF FilesInv, Hands, Pasted, Targets, Asks
<1>6. Files!AsksOfItsFile
  BY <1>2 DEF Files!AsksOfItsFile
<1> QED
  BY <1>2, <1>5, <1>6 DEF FilesGood, Kept

\* A paste is asked for.
LEMMA FilesPaste ==
  ASSUME FilesInv, NEW v \in Files!Pastes, Files!HandlePaste(v)
  PROVE  FilesGood
<1>a. /\ ui \in Files!UI /\ ops \subseteq Files!Ops /\ ui.cur \in Files!Folders /\ ui.clip \in Files!Clips
      /\ Hands(ui) /\ Pasted(ui.clip, ops) /\ Targets(ops) /\ Asks(ui.dialog) /\ Asks(ui.later)
  BY FilesTyped
<1> DEFINE k == IF ui.clip.cut THEN "move" ELSE "copy"
           op == [kind |-> k, ids |-> ui.clip.ids, to |-> ui.cur, via |-> v]
<1>1. /\ ui' = ui /\ ops' = ops \cup {op} /\ disk' = disk /\ rows' = rows /\ tree' = tree
      /\ inputs' \in 0..MaxInputs
  <2>1. Files!Request(op, ui)
    BY DEF Files!HandlePaste
  <2> HIDE DEF op
  <2> QED
    BY <2>1, FilesRequest
<1>2. ui.clip.ids \in SUBSET Items
  BY <1>a, FilesClips
<1>3. k = "move" \/ k = "copy"
  OBVIOUS
<1> HIDE DEF k
<1>4. op \in Files!Ops /\ op.to = ui.cur /\ op.ids = ui.clip.ids
  BY <1>a, <1>2, <1>3, FilesOps
<1> HIDE DEF op
<1>5. ops' \subseteq Files!Ops /\ Pasted(ui'.clip, ops') /\ Targets(ops')
  BY <1>a, <1>1, <1>4 DEF Pasted, Targets
<1> QED
  BY <1>a, <1>1, <1>5, FilesDone

\* Keys, bars and the menu.
LEMMA FilesAsked ==
  ASSUME FilesInv,
         \/ Files!KeyDown \/ Files!FloatingPaste \/ Files!MenuPaste
         \/ \E b \in BOOLEAN : Files!SelectionCopyCut(b)
         \/ Files!MenuCopy \/ Files!MenuCut \/ Files!MenuDelete
  PROVE  FilesGood
<1>a. /\ ui \in Files!UI /\ ui.sel \in SUBSET Items /\ ops \subseteq Files!Ops /\ ui.cur \in Files!Folders
      /\ Hands(ui) /\ Pasted(ui.clip, ops) /\ Targets(ops) /\ Asks(ui.dialog) /\ Asks(ui.later)
      /\ ui.menu \in Files!Menus /\ ui.mobile \in BOOLEAN
  BY FilesTyped
<1>1. ASSUME NEW S \in SUBSET Items, Files!Input([ui EXCEPT !.sel = S, !.menu.taken = ui.menu.open])
      PROVE  FilesGood
  <2> DEFINE m == [ui.menu EXCEPT !.taken = ui.menu.open]
  <2>1. ui.menu.open \in BOOLEAN
    BY <1>a, FilesMenus
  <2>2. m \in Files!Menus /\ m.open = ui.menu.open /\ m.taken = ui.menu.open
    BY <1>a, <2>1, FilesMenus
  <2>3. Files!Input([ui EXCEPT !.sel = S, !.menu = m])
    <3>1. [ui EXCEPT !.sel = S, !.menu.taken = ui.menu.open] = [ui EXCEPT !.sel = S, !.menu = m]
      BY <1>a, FilesSets
    <3> QED
      BY <1>1, <3>1
  <2> HIDE DEF m
  <2>4. /\ ui' = [ui EXCEPT !.sel = S, !.menu = m]
        /\ ops' = ops /\ disk' = disk /\ rows' = rows /\ tree' = tree /\ inputs' \in 0..MaxInputs
    BY <2>3, FilesInput
  <2>5. /\ ui' \in Files!UI /\ ui'.menu = m /\ ui'.clip = ui.clip /\ ui'.dialog = ui.dialog
        /\ ui'.later = ui.later /\ ui'.drag = ui.drag /\ ui'.marquee = ui.marquee
    BY <1>a, <2>2, <2>4, FilesSets
  <2>6. Hands(ui')
    BY <1>a, <2>2, <2>5 DEF Hands
  <2> QED
    BY <1>a, <2>4, <2>5, <2>6, FilesDone
<1>2. ASSUME Files!Input([ui EXCEPT !.sel = {}, !.menu = Files!NoMenu])
      PROVE  FilesGood
  <2>1. /\ ui' = [ui EXCEPT !.sel = {}, !.menu = Files!NoMenu]
        /\ ops' = ops /\ disk' = disk /\ rows' = rows /\ tree' = tree /\ inputs' \in 0..MaxInputs
    BY <1>2, FilesInput
  <2>2. Files!NoMenu \in Files!Menus /\ ~Files!NoMenu.open
    BY FilesMenus
  <2>3. /\ ui' \in Files!UI /\ ui'.menu = Files!NoMenu /\ ui'.clip = ui.clip /\ ui'.dialog = ui.dialog
        /\ ui'.later = ui.later /\ ui'.drag = ui.drag /\ ui'.marquee = ui.marquee
    BY <1>a, <2>1, <2>2, FilesSets
  <2>4. Hands(ui')
    BY <1>a, <2>2, <2>3 DEF Hands
  <2> QED
    BY <1>a, <2>1, <2>3, <2>4, FilesDone
<1>3. ASSUME Files!Input([ui EXCEPT !.dialog = Files!Confirm(ui.sel, "key")])
      PROVE  FilesGood
  <2> DEFINE d == Files!Confirm(ui.sel, "key")
  <2>1. d \in Files!Dialogs /\ d.via = "key" /\ Asks(d)
    <3>1. "key" \in Files!Sources /\ "key" \in {"menu", "key"}
      BY FilesVias
    <3> QED
      BY <1>a, <3>1, FilesDialogs
  <2>2. Files!Input([ui EXCEPT !.dialog = d])
    BY <1>3
  <2>3. d.via # "menu"
    BY <2>1, FilesVias
  <2> HIDE DEF d
  <2>4. /\ ui' = [ui EXCEPT !.dialog = d]
        /\ ops' = ops /\ disk' = disk /\ rows' = rows /\ tree' = tree /\ inputs' \in 0..MaxInputs
    BY <2>2, FilesInput
  <2>5. /\ ui' \in Files!UI /\ ui'.menu = ui.menu /\ ui'.clip = ui.clip /\ ui'.dialog = d /\ ui'.sel = ui.sel
        /\ ui'.later = ui.later /\ ui'.drag = ui.drag /\ ui'.marquee = ui.marquee
    BY <1>a, <2>1, <2>4, FilesSets
  <2>6. Hands(ui')
    BY <1>a, <2>5 DEF Hands
  <2> QED
    BY <1>a, <2>1, <2>3, <2>4, <2>5, <2>6, FilesDone
<1>4. ASSUME NEW b \in BOOLEAN, ui.sel # {}, Files!Input([ui EXCEPT !.clip = Files!Clip(ui.sel, b, "key")])
      PROVE  FilesGood
  <2> DEFINE c == Files!Clip(ui.sel, b, "key")
  <2>1. "key" \in Files!Sources /\ "key" # "menu"
    BY FilesVias
  <2>2. c \in Files!Clips
    BY <1>a, <2>1, FilesClips
  <2>3. /\ ui' = [ui EXCEPT !.clip = c]
        /\ ops' = ops /\ disk' = disk /\ rows' = rows /\ tree' = tree /\ inputs' \in 0..MaxInputs
    BY <1>4, FilesInput
  <2> HIDE DEF c
  <2>4. /\ ui' \in Files!UI /\ ui'.menu = ui.menu /\ ui'.clip = c /\ ui'.dialog = ui.dialog /\ ui'.sel = ui.sel
        /\ ui'.later = ui.later /\ ui'.drag = ui.drag /\ ui'.marquee = ui.marquee
    BY <1>a, <2>2, <2>3, FilesSets
  <2>5. Hands(ui')
    BY <1>a, <2>4 DEF Hands
  <2>6. ui'.clip = Files!Clip(ui.sel, b, "key")
    BY <2>4 DEF c
  <2> QED
    BY <1>a, <1>4, <2>1, <2>3, <2>4, <2>5, <2>6, FilesClipped
<1>5. ASSUME Files!KeyDown
      PROVE  FilesGood
  <2>1. \/ Files!Input([ui EXCEPT !.sel = Files!CurrentFiles, !.menu.taken = ui.menu.open])
        \/ Files!Input([ui EXCEPT !.sel = {}, !.menu = Files!NoMenu])
        \/ Files!Input([ui EXCEPT !.dialog = Files!Confirm(ui.sel, "key")])
        \/ ui.sel # {} /\ \E b \in BOOLEAN : Files!Input([ui EXCEPT !.clip = Files!Clip(ui.sel, b, "key")])
        \/ Files!HandlePaste("paste")
    BY <1>5 DEF Files!KeyDown
  <2>2. Files!CurrentFiles \in SUBSET Items
    BY DEF Files!CurrentFiles, Files!FilesIn, Items
  <2> QED
    BY <1>1, <1>2, <1>3, <1>4, <2>1, <2>2, FilesPaste, FilesVias
<1>6. ASSUME Files!FloatingPaste \/ Files!MenuPaste
      PROVE  FilesGood
  BY <1>6, FilesPaste, FilesVias DEF Files!FloatingPaste, Files!MenuPaste
<1>7. ASSUME NEW b \in BOOLEAN, Files!SelectionCopyCut(b)
      PROVE  FilesGood
  <2> DEFINE c == Files!Clip(ui.sel, b, "bar")
  <2>1. "bar" \in Files!Sources /\ "bar" # "menu"
    BY FilesVias
  <2>2. c \in Files!Clips
    BY <1>a, <2>1, FilesClips
  <2>3. /\ Files!Input([ui EXCEPT !.clip = c, !.sel = {}]) /\ ui.sel # {} /\ Files!Outside
    BY <1>7 DEF Files!SelectionCopyCut
  <2>4. /\ ui' = [ui EXCEPT !.clip = c, !.sel = {}]
        /\ ops' = ops /\ disk' = disk /\ rows' = rows /\ tree' = tree /\ inputs' \in 0..MaxInputs
    BY <2>3, FilesInput
  <2> HIDE DEF c
  <2>5. /\ ui' \in Files!UI /\ ui'.menu = ui.menu /\ ui'.clip = c /\ ui'.dialog = ui.dialog
        /\ ui'.later = ui.later /\ ui'.drag = ui.drag /\ ui'.marquee = ui.marquee
    BY <1>a, <2>2, <2>4, FilesSets
  <2>6. Hands(ui')
    BY <1>a, <2>3, <2>5 DEF Hands, Files!Outside
  <2>7. ui'.clip = Files!Clip(ui.sel, b, "bar")
    BY <2>5 DEF c
  <2> QED
    BY <1>a, <2>1, <2>3, <2>4, <2>5, <2>6, <2>7, FilesClipped
<1>8. ASSUME NEW b \in BOOLEAN, Files!MenuOnFile,
             Files!Input([ui EXCEPT !.clip = Files!Clip(Files!MenuTarget, b, "menu"), !.sel = {}, !.menu = Files!NoMenu])
      PROVE  FilesGood
  <2> DEFINE S == Files!MenuTarget
             c == Files!Clip(S, b, "menu")
  <2>1. "menu" \in Files!Sources
    BY FilesVias
  <2>2. S \in SUBSET Items /\ S # {} /\ (ui.menu.file \in S \cup {None} \/ ui.menu.side \/ ui.menu.taken)
    BY <1>8, FilesMenuTarget
  <2>3. Files!Input([ui EXCEPT !.clip = c, !.sel = {}, !.menu = Files!NoMenu])
    BY <1>8
  <2> HIDE DEF S
  <2>4. c \in Files!Clips
    BY <1>a, <2>1, <2>2, FilesClips
  <2>5. /\ ui' = [ui EXCEPT !.clip = c, !.sel = {}, !.menu = Files!NoMenu]
        /\ ops' = ops /\ disk' = disk /\ rows' = rows /\ tree' = tree /\ inputs' \in 0..MaxInputs
    BY <2>3, FilesInput
  <2> HIDE DEF c
  <2>6. Files!NoMenu \in Files!Menus /\ ~Files!NoMenu.open
    BY FilesMenus
  <2>7. /\ ui' \in Files!UI /\ ui'.menu = Files!NoMenu /\ ui'.clip = c /\ ui'.dialog = ui.dialog
        /\ ui'.later = ui.later /\ ui'.drag = ui.drag /\ ui'.marquee = ui.marquee
    BY <1>a, <2>4, <2>5, <2>6, FilesSets
  <2>8. Hands(ui')
    BY <1>a, <2>6, <2>7 DEF Hands
  <2>9. ui'.clip = Files!Clip(S, b, "menu")
    BY <2>7 DEF c
  <2> QED
    BY <2>1, <2>2, <2>5, <2>7, <2>8, <2>9, FilesClipped
<1>9. ASSUME Files!MenuCopy \/ Files!MenuCut
      PROVE  FilesGood
  BY <1>8, <1>9 DEF Files!MenuCopy, Files!MenuCut
<1>10. ASSUME Files!MenuDelete
      PROVE  FilesGood
  <2> DEFINE S == Files!MenuTarget
             d == Files!Confirm(S, "menu")
  <2>1. "menu" \in Files!Sources /\ "menu" \in {"menu", "key"}
    BY FilesVias
  <2>2. S \in SUBSET Items /\ (ui.menu.file \in S \cup {None} \/ ui.menu.side \/ ui.menu.taken)
    BY <1>10, FilesMenuTarget DEF Files!MenuDelete
  <2>3. \/ Files!Input([ui EXCEPT !.menu = Files!NoMenu, !.later = d])
        \/ Files!Input([ui EXCEPT !.menu = Files!NoMenu, !.dialog = d])
    BY <1>10 DEF Files!MenuDelete
  <2> HIDE DEF S
  <2>4. d \in Files!Dialogs /\ d.ids = S /\ Asks(d)
    BY <2>1, <2>2, FilesDialogs
  <2> HIDE DEF d
  <2>5. Files!NoMenu \in Files!Menus /\ ~Files!NoMenu.open
    BY FilesMenus
  <2>6. /\ ops' = ops /\ disk' = disk /\ rows' = rows /\ tree' = tree /\ inputs' \in 0..MaxInputs
        /\ \/ ui' = [ui EXCEPT !.menu = Files!NoMenu, !.later = d]
           \/ ui' = [ui EXCEPT !.menu = Files!NoMenu, !.dialog = d]
    BY <2>3, FilesInput
  <2>7. /\ ui' \in Files!UI /\ ui'.menu = Files!NoMenu /\ ui'.clip = ui.clip /\ ui'.sel = ui.sel
        /\ ui'.drag = ui.drag /\ ui'.marquee = ui.marquee
        /\ ui'.dialog \in {ui.dialog, d} /\ ui'.later \in {ui.later, d}
    <3>1. CASE ui' = [ui EXCEPT !.menu = Files!NoMenu, !.later = d]
      BY <1>a, <2>4, <2>5, <3>1, FilesSets
    <3>2. CASE ui' = [ui EXCEPT !.menu = Files!NoMenu, !.dialog = d]
      BY <1>a, <2>4, <2>5, <3>2, FilesSets
    <3> QED
      BY <2>6, <3>1, <3>2
  <2>8. Hands(ui')
    BY <1>a, <2>5, <2>7 DEF Hands
  <2>9. Files!TypeOK'
    BY <1>a, <2>6, <2>7, FilesTyped DEF Files!TypeOK, Items, Dirs
  <2>10. FilesInv'
    BY <1>a, <2>4, <2>6, <2>7, <2>8, <2>9 DEF FilesInv, Hands, Pasted, Targets, Asks
  <2>11. Files!AsksOfItsFile
    BY <2>2, <2>4, <2>7 DEF Files!AsksOfItsFile
  <2> QED
    BY <2>7, <2>10, <2>11 DEF FilesGood, Kept
<1> QED
  BY <1>5, <1>6, <1>7, <1>9, <1>10

\* The dialog, the timers and the end of a menu.
LEMMA FilesDialog ==
  ASSUME FilesInv,
         \/ Files!CloseMenu \/ Files!DelayedAction \/ Files!Highlighted \/ Files!HighlightOver
         \/ Files!DialogConfirm \/ Files!DialogCancel \/ Files!Alert
  PROVE  FilesGood
<1>a. /\ ui \in Files!UI /\ ui.sel \in SUBSET Items /\ ops \subseteq Files!Ops /\ inputs \in 0..MaxInputs
      /\ Hands(ui) /\ Pasted(ui.clip, ops) /\ Targets(ops) /\ Asks(ui.dialog) /\ Asks(ui.later)
      /\ ui.menu \in Files!Menus /\ ui.dialog \in Files!Dialogs /\ ui.later \in Files!Dialogs
  BY FilesTyped
<1>b. Files!NoDialog \in Files!Dialogs /\ Files!NoDialog.via # "menu" /\ Asks(Files!NoDialog)
  BY FilesDialogs, FilesVias
<1>1. ASSUME Files!CloseMenu
      PROVE  FilesGood
  <2>1. /\ ui' = [ui EXCEPT !.menu = Files!NoMenu]
        /\ ops' = ops /\ disk' = disk /\ rows' = rows /\ tree' = tree /\ inputs' \in 0..MaxInputs
    BY <1>1, <1>a DEF Files!CloseMenu
  <2>2. Files!NoMenu \in Files!Menus /\ ~Files!NoMenu.open
    BY FilesMenus
  <2>3. /\ ui' \in Files!UI /\ ui'.menu = Files!NoMenu /\ ui'.clip = ui.clip /\ ui'.dialog = ui.dialog
        /\ ui'.later = ui.later /\ ui'.drag = ui.drag /\ ui'.marquee = ui.marquee
    BY <1>a, <2>1, <2>2, FilesSets
  <2>4. Hands(ui')
    BY <1>a, <2>2, <2>3 DEF Hands
  <2> QED
    BY <1>a, <2>1, <2>3, <2>4, FilesDone
<1>2. ASSUME Files!DelayedAction
      PROVE  FilesGood
  <2> DEFINE d == ui.later
  <2>1. /\ ui' = [ui EXCEPT !.dialog = d, !.later = Files!NoDialog]
        /\ ops' = ops /\ disk' = disk /\ rows' = rows /\ tree' = tree /\ inputs' \in 0..MaxInputs
    BY <1>2, <1>a DEF Files!DelayedAction
  <2>2. d \in Files!Dialogs /\ d = ui.later
    BY <1>a
  <2> HIDE DEF d
  <2>3. /\ ui' \in Files!UI /\ ui'.menu = ui.menu /\ ui'.clip = ui.clip /\ ui'.dialog = d /\ ui'.sel = ui.sel
        /\ ui'.later = Files!NoDialog /\ ui'.drag = ui.drag /\ ui'.marquee = ui.marquee
    BY <1>a, <1>b, <2>1, <2>2, FilesSets
  <2>4. Hands(ui')
    BY <1>a, <2>3 DEF Hands
  <2> QED
    BY <1>a, <1>b, <2>1, <2>2, <2>3, <2>4, FilesDone
<1>3. ASSUME Files!Highlighted
      PROVE  FilesGood
  <2> DEFINE m == [ui.menu EXCEPT !.taken = ui.menu.open]
             S == {ui.highlight}
  <2>1. ui.menu.open \in BOOLEAN
    BY <1>a, FilesMenus
  <2>2. m \in Files!Menus /\ m.open = ui.menu.open /\ m.taken = ui.menu.open
    BY <1>a, <2>1, FilesMenus
  <2>3. S \in SUBSET Items
    BY <1>3 DEF Files!Highlighted, Files!CurrentFiles, Files!FilesIn, Items
  <2>4. [ui EXCEPT !.sel = S, !.menu.taken = ui.menu.open] = [ui EXCEPT !.sel = S, !.menu = m]
    BY <1>a, FilesSets
  <2>5. /\ ui' = [ui EXCEPT !.sel = S, !.menu = m]
        /\ ops' = ops /\ disk' = disk /\ rows' = rows /\ tree' = tree /\ inputs' \in 0..MaxInputs
    BY <1>3, <1>a, <2>4 DEF Files!Highlighted
  <2> HIDE DEF m, S
  <2>6. /\ ui' \in Files!UI /\ ui'.menu = m /\ ui'.clip = ui.clip /\ ui'.dialog = ui.dialog
        /\ ui'.later = ui.later /\ ui'.drag = ui.drag /\ ui'.marquee = ui.marquee
    BY <1>a, <2>2, <2>3, <2>5, FilesSets
  <2>7. Hands(ui')
    BY <1>a, <2>2, <2>6 DEF Hands
  <2> QED
    BY <1>a, <2>5, <2>6, <2>7, FilesDone
<1>4. ASSUME Files!HighlightOver
      PROVE  FilesGood
  <2>1. /\ ui' = [ui EXCEPT !.highlight = None]
        /\ ops' = ops /\ disk' = disk /\ rows' = rows /\ tree' = tree /\ inputs' \in 0..MaxInputs
    BY <1>4, <1>a DEF Files!HighlightOver
  <2>2. /\ ui' \in Files!UI /\ ui'.menu = ui.menu /\ ui'.clip = ui.clip /\ ui'.dialog = ui.dialog /\ ui'.sel = ui.sel
        /\ ui'.later = ui.later /\ ui'.drag = ui.drag /\ ui'.marquee = ui.marquee
    BY <1>a, <2>1, FilesSets
  <2>3. Hands(ui')
    BY <1>a, <2>2 DEF Hands
  <2> QED
    BY <1>a, <2>1, <2>2, <2>3, FilesDone
<1>5. ASSUME NEW d \in Files!Dialogs, d.via # "menu", Asks(d), ui' = [ui EXCEPT !.dialog = d],
             ops' \subseteq Files!Ops, Pasted(ui.clip, ops'), Targets(ops'),
             disk' = disk, rows' = rows, tree' = tree, inputs' \in 0..MaxInputs
      PROVE  FilesGood
  <2>1. /\ ui' \in Files!UI /\ ui'.menu = ui.menu /\ ui'.clip = ui.clip /\ ui'.dialog = d /\ ui'.sel = ui.sel
        /\ ui'.later = ui.later /\ ui'.drag = ui.drag /\ ui'.marquee = ui.marquee
    BY <1>a, <1>5, FilesSets
  <2>2. Hands(ui')
    BY <1>a, <2>1 DEF Hands
  <2> QED
    BY <1>a, <1>5, <2>1, <2>2, FilesDone
<1>6. ASSUME Files!Input([ui EXCEPT !.dialog = Files!NoDialog])
      PROVE  FilesGood
  <2>1. /\ ui' = [ui EXCEPT !.dialog = Files!NoDialog]
        /\ ops' = ops /\ disk' = disk /\ rows' = rows /\ tree' = tree /\ inputs' \in 0..MaxInputs
    BY <1>6, FilesInput
  <2> QED
    BY <1>5, <1>a, <1>b, <2>1
<1>7. ASSUME Files!DialogConfirm
      PROVE  FilesGood
  <2> DEFINE op == [kind |-> "delete", ids |-> ui.dialog.ids, to |-> None, via |-> ui.dialog.via]
  <2>1. CASE ui.dialog.type = "confirm"
    <3>1. Files!Request(op, [ui EXCEPT !.dialog = Files!NoDialog])
      BY <1>7, <2>1 DEF Files!DialogConfirm
    <3>2. ui.dialog.via \in {"menu", "key"} /\ ui.dialog.ids \in SUBSET Items
      BY <1>a, <2>1, FilesDialogs DEF Asks
    <3>3. op \in Files!Ops /\ op.kind # "move" /\ op.via \notin Files!Pastes
      BY <3>2, FilesOps, FilesVias
    <3> HIDE DEF op
    <3>4. /\ ui' = [ui EXCEPT !.dialog = Files!NoDialog] /\ ops' = ops \cup {op}
          /\ disk' = disk /\ rows' = rows /\ tree' = tree /\ inputs' \in 0..MaxInputs
      BY <3>1, FilesRequest
    <3>5. ops' \subseteq Files!Ops /\ Pasted(ui.clip, ops') /\ Targets(ops')
      BY <1>a, <3>3, <3>4 DEF Pasted, Targets
    <3> QED
      BY <1>5, <1>b, <3>4, <3>5
  <2>2. CASE ui.dialog.type # "confirm"
    BY <1>6, <1>7, <2>2 DEF Files!DialogConfirm
  <2> QED
    BY <2>1, <2>2
<1>8. ASSUME Files!DialogCancel
      PROVE  FilesGood
  BY <1>6, <1>8 DEF Files!DialogCancel
<1>9. ASSUME Files!Alert
      PROVE  FilesGood
  <2> DEFINE d == [Files!NoDialog EXCEPT !.type = "alert"]
  <2>1. Files!Input([ui EXCEPT !.dialog = d])
    BY <1>9 DEF Files!Alert
  <2>2. d \in Files!Dialogs /\ d.via # "menu" /\ Asks(d)
    BY FilesDialogs, FilesVias
  <2> HIDE DEF d
  <2>3. /\ ui' = [ui EXCEPT !.dialog = d]
        /\ ops' = ops /\ disk' = disk /\ rows' = rows /\ tree' = tree /\ inputs' \in 0..MaxInputs
    BY <2>1, FilesInput
  <2> QED
    BY <1>5, <1>a, <2>2, <2>3
<1> QED
  BY <1>1, <1>2, <1>3, <1>4, <1>7, <1>8, <1>9

\* A request ends.
LEMMA FilesSettle ==
  ASSUME FilesInv, NEW op \in ops, Files!Settle(op)
  PROVE  FilesGood
<1>a. /\ ui \in Files!UI /\ ui.sel \in SUBSET Items /\ ops \subseteq Files!Ops /\ inputs \in 0..MaxInputs
      /\ Hands(ui) /\ Pasted(ui.clip, ops) /\ Targets(ops) /\ Asks(ui.dialog) /\ Asks(ui.later)
      /\ disk \in [Items -> Files!Places] /\ ui.clip \in Files!Clips
  BY FilesTyped
<1>1. PICK ok \in BOOLEAN, done \in BOOLEAN :
        /\ disk' = IF done THEN Files!Applied(op) ELSE disk
        /\ ui' = Files!Settled(op, ok)
  BY DEF Files!Settle
<1>2. ops' = ops \ {op} /\ rows' = rows /\ tree' = tree /\ inputs' = inputs
  BY DEF Files!Settle
<1>3. disk' \in [Items -> Files!Places]
  <2>1. CASE op.kind = "move"
    <3>1. Files!Applied(op) = [i \in Items |-> IF i \in op.ids \ {op.to} /\ disk[i] # Gone THEN op.to ELSE disk[i]]
      BY <2>1 DEF Files!Applied, Items
    <3>2. op.to \in Files!Places
      BY <1>a, <2>1, FilesSets DEF Targets
    <3>3. Files!Applied(op) \in [Items -> Files!Places]
      BY <1>a, <3>1, <3>2
    <3> QED
      BY <1>1, <1>a, <3>3
  <2>2. CASE op.kind = "delete"
    <3>1. Files!Applied(op) = [i \in Items |-> IF op.ids \cap Files!Upward(disk, i) # {} THEN Gone ELSE disk[i]]
      BY <2>2 DEF Files!Applied, Items
    <3>2. Gone \in Files!Places
      BY FilesSets
    <3>3. Files!Applied(op) \in [Items -> Files!Places]
      BY <1>a, <3>1, <3>2
    <3> QED
      BY <1>1, <1>a, <3>3
  <2>3. CASE op.kind # "move" /\ op.kind # "delete"
    <3>1. Files!Applied(op) = disk
      BY <2>3 DEF Files!Applied
    <3> QED
      BY <1>1, <1>a, <3>1
  <2> QED
    BY <2>1, <2>2, <2>3
<1>4. \/ op.via = "paste" /\ ui' = [ui EXCEPT !.clip = Files!Empty]
      \/ op.via = "menu_paste" /\ ui' = [ui EXCEPT !.clip = Files!Empty, !.menu = Files!NoMenu]
      \/ \E S \in {{}, ui.sel} : ui' = [ui EXCEPT !.sel = S, !.moving = FALSE]
      \/ ui' = [ui EXCEPT !.sel = {}]
      \/ ui' = ui
  <2> DEFINE S == IF ok THEN {} ELSE ui.sel
  <2>1. S \in {{}, ui.sel}
    OBVIOUS
  <2>2. \/ ui' = [ui EXCEPT !.clip = Files!Empty] /\ op.via = "paste"
        \/ ui' = [ui EXCEPT !.clip = Files!Empty, !.menu = Files!NoMenu] /\ op.via = "menu_paste"
        \/ ui' = [ui EXCEPT !.sel = S, !.moving = FALSE]
        \/ ui' = [ui EXCEPT !.sel = {}]
        \/ ui' = ui
    BY <1>1 DEF Files!Settled
  <2> QED
    BY <2>1, <2>2
<1>5. /\ ops' \subseteq Files!Ops /\ Pasted(ui.clip, ops') /\ Targets(ops')
      /\ \A c : c.ids = {} => Pasted(c, ops')
  BY <1>a, <1>2 DEF Pasted, Targets
<1>b. Files!Empty \in Files!Clips /\ Files!Empty.ids = {} /\ Files!Empty.via # "menu"
      /\ Files!NoMenu \in Files!Menus /\ ~Files!NoMenu.open
  BY FilesClips, FilesMenus, FilesVias
<1>6. /\ ui' \in Files!UI /\ ui'.dialog = ui.dialog /\ ui'.later = ui.later
      /\ ui'.drag = ui.drag /\ ui'.marquee = ui.marquee
      /\ ui'.sel = ui.sel \/ ui'.sel = {}
      /\ ui'.menu = ui.menu \/ ui'.menu = Files!NoMenu
      /\ ui'.clip = ui.clip \/ (ui'.clip = Files!Empty /\ op.via \in Files!Pastes)
  <2>1. CASE op.via = "paste" /\ ui' = [ui EXCEPT !.clip = Files!Empty]
    BY <1>a, <1>b, <2>1, FilesSets, FilesVias
  <2>2. CASE op.via = "menu_paste" /\ ui' = [ui EXCEPT !.clip = Files!Empty, !.menu = Files!NoMenu]
    BY <1>a, <1>b, <2>2, FilesSets, FilesVias
  <2>3. ASSUME NEW S \in {{}, ui.sel}, ui' = [ui EXCEPT !.sel = S, !.moving = FALSE]
        PROVE  /\ ui' \in Files!UI /\ ui'.dialog = ui.dialog /\ ui'.later = ui.later
               /\ ui'.drag = ui.drag /\ ui'.marquee = ui.marquee
               /\ ui'.sel = ui.sel \/ ui'.sel = {}
               /\ ui'.menu = ui.menu /\ ui'.clip = ui.clip
    <3>1. S \in SUBSET Items
      BY <1>a, <2>3
    <3> QED
      BY <1>a, <2>3, <3>1, FilesSets
  <2>4. CASE ui' = [ui EXCEPT !.sel = {}]
    BY <1>a, <2>4, FilesSets
  <2>5. CASE ui' = ui
    BY <1>a, <2>5
  <2> QED
    BY <1>4, <2>1, <2>2, <2>3, <2>4, <2>5
<1>7. Hands(ui')
  BY <1>a, <1>b, <1>6 DEF Hands
<1>8. Pasted(ui'.clip, ops')
  BY <1>5, <1>6, <1>b
<1>9. Files!TypeOK'
  BY <1>2, <1>3, <1>5, <1>6, FilesTyped DEF Files!TypeOK, Items, Dirs
<1>10. FilesInv'
  BY <1>a, <1>5, <1>6, <1>7, <1>8, <1>9 DEF FilesInv, Hands, Pasted, Targets, Asks
<1>11. Files!AsksOfItsFile
  BY <1>6, <1>b DEF Files!AsksOfItsFile
<1>12. Kept
  BY <1>2, <1>6, <1>a DEF Kept, Pasted
<1> QED
  BY <1>10, <1>11, <1>12 DEF FilesGood

LEMMA FilesLoaded ==
  ASSUME FilesInv, Files!RowsLoaded \/ Files!TreeLoaded
  PROVE  FilesGood
<1>1. /\ disk' = disk /\ ui' = ui /\ ops' = ops /\ inputs' = inputs
      /\ \/ /\ rows' = [i \in Items |-> IF disk[i] = ui.cur THEN ui.cur ELSE IF rows[i] = ui.cur THEN Gone ELSE rows[i]]
            /\ tree' = tree
         \/ rows' = rows /\ tree' = [d \in Dirs |-> disk[d]]
  BY DEF Files!RowsLoaded, Files!TreeLoaded, Items, Dirs
<1>2. /\ disk \in [Items -> Files!Places] /\ rows \in [Items -> Files!Places] /\ tree \in [Dirs -> Files!Places]
      /\ ui.cur \in Files!Places /\ Gone \in Files!Places /\ Dirs \subseteq Items
  BY FilesTyped, FilesSets
<1>3. rows' \in [Items -> Files!Places] /\ tree' \in [Dirs -> Files!Places]
  BY <1>1, <1>2
<1>4. Files!TypeOK'
  BY <1>1, <1>3, FilesTyped DEF Files!TypeOK, Items, Dirs
<1>5. FilesInv'
  BY <1>1, <1>4, FilesTyped DEF FilesInv, Hands, Pasted, Targets, Asks
<1> QED
  BY <1>1, <1>5 DEF FilesGood, Files!AsksOfItsFile, Kept

LEMMA FilesStep == FilesInv /\ [Files!Next]_(Files!vars) => FilesGood
<1> SUFFICES ASSUME FilesInv, [Files!Next]_(Files!vars) PROVE FilesGood
  OBVIOUS
<1>1. CASE UNCHANGED Files!vars
  <2>1. /\ disk' = disk /\ ui' = ui /\ ops' = ops /\ inputs' = inputs /\ rows' = rows /\ tree' = tree
    BY <1>1 DEF Files!vars
  <2>2. FilesInv'
    BY <2>1 DEF FilesInv, Files!TypeOK, Hands, Pasted, Targets, Asks
  <2> QED
    BY <2>1, <2>2 DEF FilesGood, Files!AsksOfItsFile, Kept
<1>2. CASE Files!Next
  BY <1>2, FilesOutside, FilesOpens, FilesPointer, FilesAsked, FilesDialog, FilesSettle, FilesLoaded
     DEF Files!Next, Items, Dirs
<1> QED
  BY <1>1, <1>2

LEMMA FilesInit == Files!Init => FilesInv
<1> SUFFICES ASSUME Files!Init PROVE FilesInv
  OBVIOUS
<1> DEFINE St == [i \in Items |-> IF i = inner THEN outer ELSE IF i = deep THEN inner ELSE Root]
<1>1. /\ disk = St /\ rows = [i \in Items |-> IF St[i] = Root THEN Root ELSE Gone]
      /\ tree = [d \in Dirs |-> St[d]] /\ ops = {} /\ inputs = 0
  BY DEF Files!Init, Items, Dirs
<1>2. PICK narrow \in BOOLEAN :
        ui = [mobile |-> narrow, cur |-> Root, sel |-> {}, clip |-> Files!Empty, menu |-> Files!NoMenu, drag |-> {},
              marquee |-> {}, dialog |-> Files!NoDialog, later |-> Files!NoDialog, highlight |-> None, moving |-> FALSE]
  BY DEF Files!Init
<1>3. outer \in Files!Places /\ inner \in Files!Places /\ Root \in Files!Places /\ Gone \in Files!Places
      /\ Dirs \subseteq Items
  BY FilesSets DEF Dirs
<1>4. St \in [Items -> Files!Places]
  BY <1>3
<1> HIDE DEF St
<1>5. /\ disk \in [Items -> Files!Places] /\ rows \in [Items -> Files!Places] /\ tree \in [Dirs -> Files!Places]
  BY <1>1, <1>3, <1>4
<1>a. Files!Empty \in Files!Clips /\ Files!NoMenu \in Files!Menus /\ Files!NoDialog \in Files!Dialogs
  BY FilesClips, FilesMenus, FilesDialogs
<1>b. {} \in Hold /\ Root \in Files!Folders /\ None \in Items \cup {None} /\ {} \in SUBSET Items
  BY FilesHold, FilesSets
<1>6. ui \in Files!UI
  <2>1. Files!UI = [mobile : BOOLEAN, cur : Files!Folders, sel : SUBSET Items, clip : Files!Clips, menu : Files!Menus,
                    drag : Hold, marquee : Hold, dialog : Files!Dialogs, later : Files!Dialogs,
                    highlight : Items \cup {None}, moving : BOOLEAN]
    BY FilesSets
  <2> QED
    BY <1>2, <1>a, <1>b, <2>1
<1>7. Files!TypeOK
  BY <1>1, <1>5, <1>6, FilesSets, InputsBound
<1>8. Hands(ui) /\ Asks(ui.dialog) /\ Asks(ui.later)
  BY <1>2, FilesMenus, FilesDialogs DEF Hands
<1> QED
  BY <1>1, <1>7, <1>8 DEF FilesInv, Pasted, Targets

LEMMA FilesHolds == Spec => []FilesInv /\ [][Files!AsksOfItsFile /\ Kept]_(Files!vars)
<1>1. Init => FilesInv
  BY FilesInit DEF Init
<1>2. ASSUME [Next]_vars PROVE [Files!Next]_(Files!vars)
  <2>1. CASE UNCHANGED vars
    BY <2>1 DEF vars, fileVars, Files!vars
  <2>2. CASE Next
    BY <2>2 DEF Next, fileVars, Files!vars
  <2> QED
    BY <1>2, <2>1, <2>2
<1>3. FilesInv /\ [Files!Next]_(Files!vars) => FilesInv' /\ [Files!AsksOfItsFile /\ Kept]_(Files!vars)
  BY FilesStep DEF FilesGood
<1> QED
  BY <1>1, <1>2, <1>3, PTL DEF Spec

\* The menu acts on the file it was opened on (Workspace, ContextMenu).
THEOREM WebMenuHitsItsFile == Spec => MenuHitsItsFile
<1>1. FilesInv => Files!TypeOK
  BY DEF FilesInv
<1>2. [Files!AsksOfItsFile /\ Kept]_(Files!vars) => [Files!AsksOfItsFile]_(Files!vars)
  OBVIOUS
<1>3. Spec => [](part = "files" => Files!TypeOK) /\ [][Files!AsksOfItsFile]_(Files!vars)
  BY <1>1, <1>2, FilesHolds, PTL
<1> QED
  BY <1>3 DEF MenuHitsItsFile, Files!MenuHitsItsFile

\* What was cut stays cut until it is pasted (useFileActions, ReactFileManager).
THEOREM WebClipboardKept == Spec => ClipboardKept
<1>1. [Files!AsksOfItsFile /\ Kept]_(Files!vars) => [Kept]_(Files!vars)
  OBVIOUS
<1>2. Spec => [][Kept]_(Files!vars)
  BY <1>1, FilesHolds, PTL
<1> QED
  BY <1>2 DEF ClipboardKept, Files!ClipboardKept, Kept

-----------------------------------------------------------------------------
\* Thumbnail.

\* An icon that is not there does nothing.  Polling is a timer or a request, and nothing
\* else is; nothing is polled for while the file is scanned.
PictureInv ==
    /\ Picture!TypeOK
    /\ ~icon.mounted => icon = Picture!Off
    /\ icon.polling /\ ~icon.url => icon.timer \/ icon.poll
    /\ icon.timer \/ icon.poll => icon.polling /\ ~icon.url
    /\ icon.polling /\ ~icon.url => ~row.scanning

LEMMA ChangesBound == MaxChanges \in Nat /\ MAX_POLLS \in Nat
BY BoundsAssumption

PictureRows == [scanning : BOOLEAN, known : BOOLEAN, show : BOOLEAN]

LEMMA PictureOff == Picture!Off \in Picture!Icon
BY ChangesBound DEF Picture!Off, Picture!Icon

\* What the effects make of an icon in a row: the rest stays as it is.
LEMMA PicturePrimary ==
  ASSUME NEW i \in Picture!Icon, NEW r \in PictureRows
  PROVE  /\ Picture!Primary(i, r) \in Picture!Icon
         /\ Picture!Primary(i, r).mounted = i.mounted /\ Picture!Primary(i, r).url = i.url
         /\ Picture!Primary(i, r).timer = i.timer /\ Picture!Primary(i, r).poll = i.poll
         /\ i.url => Picture!Primary(i, r).polling = i.polling
         /\ ~i.url /\ r.scanning => ~Picture!Primary(i, r).polling
         /\ ~i.url /\ ~r.scanning /\ r.show /\ ~r.known => Picture!Primary(i, r).polling
         /\ ~i.url /\ ~r.scanning /\ ~(r.show /\ ~r.known) => Picture!Primary(i, r).polling = i.polling
<1> DEFINE j == [i EXCEPT !.fetch = FALSE]
<1>1. /\ j \in Picture!Icon /\ j.mounted = i.mounted /\ j.url = i.url /\ j.polling = i.polling
      /\ j.timer = i.timer /\ j.poll = i.poll
  BY DEF Picture!Icon
<1>2. Picture!Primary(i, r) =
        CASE i.url -> j
          [] ~i.url /\ r.scanning -> [j EXCEPT !.polling = FALSE]
          [] ~i.url /\ ~r.scanning /\ r.show /\ r.known -> [j EXCEPT !.fetch = TRUE]
          [] ~i.url /\ ~r.scanning /\ r.show /\ ~r.known /\ ~i.polling -> [j EXCEPT !.polling = TRUE, !.count = 0]
          [] OTHER -> j
  BY DEF Picture!Primary
<1> HIDE DEF j
<1>3. /\ i.url \in BOOLEAN /\ i.polling \in BOOLEAN
      /\ r.scanning \in BOOLEAN /\ r.show \in BOOLEAN /\ r.known \in BOOLEAN /\ 0 \in 0..MAX_POLLS
  BY ChangesBound DEF Picture!Icon, PictureRows
<1>4. CASE i.url
  BY <1>1, <1>2, <1>4
<1>5. CASE ~i.url /\ r.scanning
  <2>1. Picture!Primary(i, r) = [j EXCEPT !.polling = FALSE]
    BY <1>2, <1>5
  <2> QED
    BY <1>1, <1>5, <2>1 DEF Picture!Icon
<1>6. CASE ~i.url /\ ~r.scanning /\ r.show /\ r.known
  <2>1. Picture!Primary(i, r) = [j EXCEPT !.fetch = TRUE]
    BY <1>2, <1>6
  <2> QED
    BY <1>1, <1>6, <2>1 DEF Picture!Icon
<1>7. CASE ~i.url /\ ~r.scanning /\ r.show /\ ~r.known /\ ~i.polling
  <2>1. Picture!Primary(i, r) = [j EXCEPT !.polling = TRUE, !.count = 0]
    BY <1>2, <1>7
  <2> QED
    BY <1>1, <1>3, <1>7, <2>1 DEF Picture!Icon
<1>8. CASE ~i.url /\ ~r.scanning /\ (~r.show \/ (~r.known /\ i.polling))
  <2>1. Picture!Primary(i, r) = j
    BY <1>2, <1>3, <1>8
  <2> QED
    BY <1>1, <1>8, <2>1
<1> QED
  BY <1>3, <1>4, <1>5, <1>6, <1>7, <1>8

LEMMA PicturePolling ==
  ASSUME NEW i \in Picture!Icon
  PROVE  /\ Picture!Polling(i) \in Picture!Icon
         /\ Picture!Polling(i).mounted = i.mounted /\ Picture!Polling(i).url = i.url
         /\ Picture!Polling(i).polling = i.polling
         /\ ~Picture!Polling(i).poll /\ Picture!Polling(i).timer = (i.polling /\ ~i.url)
BY DEF Picture!Polling, Picture!Icon

\* What is promised of an icon in a row.
Fits(i, r) ==
    /\ i \in Picture!Icon
    /\ i.polling /\ ~i.url => i.timer \/ i.poll
    /\ i.timer \/ i.poll => i.polling /\ ~i.url
    /\ i.polling /\ ~i.url => ~r.scanning

\* The effects of a new row: the icon was in order but for the row.
LEMMA PictureRowChanged ==
  ASSUME NEW i \in Picture!Icon, NEW r \in PictureRows,
         i.polling /\ ~i.url => i.timer \/ i.poll,
         i.timer \/ i.poll => i.polling /\ ~i.url
  PROVE  Fits(Picture!RowChanged(i, r), r) /\ Picture!RowChanged(i, r).mounted = i.mounted
<1> DEFINE j == Picture!Primary(i, r)
<1> DEFINE k == Picture!Primary(j, r)
<1>1. /\ j \in Picture!Icon /\ j.mounted = i.mounted /\ j.url = i.url /\ j.timer = i.timer /\ j.poll = i.poll
      /\ i.url => j.polling = i.polling
      /\ ~i.url /\ r.scanning => ~j.polling
      /\ ~i.url /\ ~r.scanning /\ r.show /\ ~r.known => j.polling
      /\ ~i.url /\ ~r.scanning /\ ~(r.show /\ ~r.known) => j.polling = i.polling
  BY PicturePrimary
<1>2. Picture!RowChanged(i, r) = IF j.polling = i.polling THEN j ELSE Picture!Polling(k)
  BY DEF Picture!RowChanged
<1> HIDE DEF j
<1>3. /\ k \in Picture!Icon /\ k.mounted = j.mounted /\ k.url = j.url
      /\ j.url => k.polling = j.polling
      /\ ~j.url /\ r.scanning => ~k.polling
      /\ ~j.url /\ ~r.scanning /\ r.show /\ ~r.known => k.polling
      /\ ~j.url /\ ~r.scanning /\ ~(r.show /\ ~r.known) => k.polling = j.polling
  BY <1>1, PicturePrimary
<1> HIDE DEF k
<1>4. /\ Picture!Polling(k) \in Picture!Icon /\ Picture!Polling(k).mounted = k.mounted /\ Picture!Polling(k).url = k.url
      /\ Picture!Polling(k).polling = k.polling
      /\ ~Picture!Polling(k).poll /\ Picture!Polling(k).timer = (k.polling /\ ~k.url)
  BY <1>3, PicturePolling
<1>5. j.polling \in BOOLEAN /\ i.polling \in BOOLEAN /\ r.scanning \in BOOLEAN
  BY <1>1 DEF Picture!Icon, PictureRows
<1>6. CASE j.polling = i.polling
  BY <1>1, <1>2, <1>5, <1>6 DEF Fits
<1>7. CASE j.polling # i.polling
  BY <1>1, <1>2, <1>3, <1>4, <1>5, <1>7 DEF Fits
<1> QED
  BY <1>6, <1>7

\* The effects of a change of isPolling.
LEMMA PicturePollingChanged ==
  ASSUME NEW i \in Picture!Icon, NEW r \in PictureRows, i.polling => ~i.url
  PROVE  Fits(Picture!PollingChanged(i, r), r) /\ Picture!PollingChanged(i, r).mounted = i.mounted
<1> DEFINE j == Picture!Primary(i, r)
<1> DEFINE k == Picture!Primary(j, r)
<1> DEFINE l == IF j.polling = i.polling THEN j ELSE k
<1>1. /\ j \in Picture!Icon /\ j.mounted = i.mounted /\ j.url = i.url
      /\ i.url => j.polling = i.polling
      /\ ~i.url /\ r.scanning => ~j.polling
      /\ ~i.url /\ ~r.scanning /\ r.show /\ ~r.known => j.polling
  BY PicturePrimary
<1>2. Picture!PollingChanged(i, r) = Picture!Polling(l)
  BY DEF Picture!PollingChanged
<1> HIDE DEF j
<1>3. /\ k \in Picture!Icon /\ k.mounted = j.mounted /\ k.url = j.url
      /\ j.url => k.polling = j.polling
      /\ ~j.url /\ r.scanning => ~k.polling
      /\ ~j.url /\ ~r.scanning /\ r.show /\ ~r.known => k.polling
  BY <1>1, PicturePrimary
<1> HIDE DEF k
<1>4. /\ l \in Picture!Icon /\ l.mounted = i.mounted /\ l.url = i.url
      /\ i.url => l.polling = i.polling
      /\ ~i.url /\ r.scanning => ~l.polling
      /\ ~i.url /\ ~r.scanning /\ r.show /\ ~r.known => l.polling
  BY <1>1, <1>3
<1> HIDE DEF l
<1>5. /\ Picture!Polling(l) \in Picture!Icon /\ Picture!Polling(l).mounted = l.mounted /\ Picture!Polling(l).url = l.url
      /\ Picture!Polling(l).polling = l.polling
      /\ ~Picture!Polling(l).poll /\ Picture!Polling(l).timer = (l.polling /\ ~l.url)
  BY <1>4, PicturePolling
<1>6. r.scanning \in BOOLEAN /\ i.polling \in BOOLEAN /\ i.url \in BOOLEAN
  BY DEF PictureRows, Picture!Icon
<1> QED
  BY <1>2, <1>4, <1>5, <1>6 DEF Fits

LEMMA PictureInit == Picture!Init => PictureInv
<1> SUFFICES ASSUME Picture!Init PROVE PictureInv
  OBVIOUS
<1>1. /\ stage = 0 /\ icon = Picture!Off /\ cached = FALSE /\ changes = 0 /\ row \in PictureRows
  <2>1. Picture!RowAt(0, TRUE) \in PictureRows /\ Picture!RowAt(0, FALSE) \in PictureRows
    BY DEF Picture!RowAt, PictureRows
  <2> QED
    BY <2>1 DEF Picture!Init
<1>2. ~icon.mounted /\ ~icon.polling /\ ~icon.timer /\ ~icon.poll
  BY <1>1 DEF Picture!Off
<1> QED
  <2>1. 0 \in 0..MaxChanges /\ 0 \in 0..2
    BY ChangesBound
  <2> QED
    BY <1>1, <1>2, <2>1, PictureOff DEF PictureInv, Picture!TypeOK, PictureRows

LEMMA PictureFits ==
  ASSUME Picture!TypeOK
  PROVE  PictureInv <=> (~icon.mounted => icon = Picture!Off) /\ Fits(icon, row)
BY DEF PictureInv, Fits, Picture!TypeOK

LEMMA PictureStep == PictureInv /\ [Picture!Next]_(Picture!vars) => PictureInv'
<1> SUFFICES ASSUME PictureInv, [Picture!Next]_(Picture!vars) PROVE PictureInv'
  OBVIOUS
<1>a. /\ stage \in 0..2 /\ cached \in BOOLEAN /\ row \in PictureRows /\ icon \in Picture!Icon
      /\ changes \in 0..MaxChanges /\ Fits(icon, row)
      /\ ~icon.mounted => icon = Picture!Off
  BY DEF PictureInv, Fits, Picture!TypeOK, PictureRows
<1>b. ASSUME stage' \in 0..2, cached' \in BOOLEAN, row' \in PictureRows, changes' \in 0..MaxChanges,
             Fits(icon', row'), ~icon'.mounted => icon' = Picture!Off
      PROVE  PictureInv'
  BY <1>b DEF PictureInv, Fits, Picture!TypeOK, PictureRows
<1>c. /\ ~Picture!Off.mounted /\ ~Picture!Off.url /\ ~Picture!Off.polling
      /\ ~Picture!Off.timer /\ ~Picture!Off.poll
  BY DEF Picture!Off
<1>d. Picture!Change => changes' \in 0..MaxChanges
  BY <1>a, ChangesBound DEF Picture!Change
<1>e. ASSUME NEW r \in PictureRows PROVE Fits(Picture!Off, r)
  BY <1>c, PictureOff DEF Fits
<1>1. CASE Picture!Mount
  <2> DEFINE i == [Picture!Off EXCEPT !.mounted = TRUE]
  <2>1. i \in Picture!Icon /\ i.mounted /\ ~i.polling /\ ~i.url /\ ~i.timer /\ ~i.poll
    BY PictureOff, <1>c DEF Picture!Icon
  <2>2. icon' = Picture!RowChanged(i, row) /\ UNCHANGED <<stage, row, cached>> /\ changes' \in 0..MaxChanges
    BY <1>1, <1>d DEF Picture!Mount
  <2> HIDE DEF i
  <2>3. Fits(icon', row) /\ icon'.mounted
    BY <1>a, <2>1, <2>2, PictureRowChanged
  <2> QED
    BY <1>a, <1>b, <2>2, <2>3
<1>2. CASE Picture!Unmount
  BY <1>2, <1>a, <1>b, <1>e DEF Picture!Unmount
<1>3. ASSUME NEW r \in PictureRows, Picture!NewRow(r)
      PROVE  PictureInv'
  <2>1. /\ row' = r /\ changes' \in 0..MaxChanges /\ UNCHANGED <<stage, cached>>
        /\ icon' = IF icon.mounted THEN Picture!RowChanged(icon, r) ELSE icon
    BY <1>3, <1>d DEF Picture!NewRow
  <2>2. CASE icon.mounted
    <3>1. Fits(icon', r) /\ icon'.mounted
      BY <1>a, <2>1, <2>2, PictureRowChanged DEF Fits
    <3> QED
      BY <1>a, <1>b, <2>1, <3>1
  <2>3. CASE ~icon.mounted
    <3>1. icon' = Picture!Off /\ Fits(icon', r)
      BY <1>a, <1>e, <2>1, <2>3
    <3> QED
      BY <1>a, <1>b, <2>1, <3>1
  <2> QED
    BY <2>2, <2>3
<1>4. CASE Picture!RowUpdated
  <2>1. PICK s \in 0..stage : Picture!NewRow(Picture!RowAt(s, row.show))
    BY <1>4 DEF Picture!RowUpdated
  <2>2. Picture!RowAt(s, row.show) \in PictureRows
    BY <1>a DEF Picture!RowAt, PictureRows
  <2> QED
    BY <1>3, <2>1, <2>2
<1>5. CASE Picture!ShowThumbnails
  <2>1. [row EXCEPT !.show = ~@] \in PictureRows
    BY <1>a DEF PictureRows
  <2> QED
    BY <1>3, <1>5, <2>1 DEF Picture!ShowThumbnails
<1>6. CASE Picture!PollDue
  <2>1. icon.mounted /\ icon.polling /\ ~icon.url
    BY <1>6, <1>a, <1>c DEF Picture!PollDue, Fits
  <2>2. UNCHANGED <<stage, row, cached, changes>> /\ icon.timer
    BY <1>6 DEF Picture!PollDue
  <2>3. CASE icon.count >= MAX_POLLS
    <3> DEFINE i == [icon EXCEPT !.timer = FALSE, !.polling = FALSE]
    <3>1. i \in Picture!Icon /\ i.mounted /\ ~i.polling
      BY <1>a, <2>1 DEF Picture!Icon
    <3>2. icon' = Picture!PollingChanged(i, row)
      BY <1>6, <2>3 DEF Picture!PollDue
    <3> HIDE DEF i
    <3>3. Fits(icon', row) /\ icon'.mounted
      BY <1>a, <3>1, <3>2, PicturePollingChanged
    <3> QED
      BY <1>a, <1>b, <2>2, <3>3
  <2>4. CASE ~(icon.count >= MAX_POLLS)
    <3>1. icon' = [icon EXCEPT !.timer = FALSE, !.poll = TRUE, !.count = @ + 1]
      BY <1>6, <2>4 DEF Picture!PollDue
    <3>2. icon.count + 1 \in 0..MAX_POLLS
      BY <1>a, <2>4, ChangesBound DEF Picture!Icon
    <3>3. /\ icon' \in Picture!Icon /\ icon'.mounted /\ icon'.polling /\ ~icon'.url /\ icon'.poll
      BY <1>a, <2>1, <3>1, <3>2 DEF Picture!Icon
    <3>4. Fits(icon', row)
      BY <1>a, <2>1, <3>3 DEF Fits
    <3> QED
      BY <1>a, <1>b, <2>2, <3>3, <3>4
  <2> QED
    BY <2>3, <2>4
<1>7. ASSUME NEW ok \in BOOLEAN, Picture!PollEnds(ok)
      PROVE  PictureInv'
  <2>1. /\ icon.poll /\ UNCHANGED <<stage, row, changes>> /\ cached' \in BOOLEAN
        /\ icon' = IF ok THEN Picture!PollingChanged([icon EXCEPT !.url = TRUE, !.polling = FALSE], row)
                   ELSE [icon EXCEPT !.poll = FALSE, !.timer = TRUE]
    BY <1>7, <1>a DEF Picture!PollEnds, Picture!Fetched
  <2>2. icon.mounted /\ icon.polling /\ ~icon.url
    BY <2>1, <1>a, <1>c DEF Fits
  <2>3. CASE ok
    <3> DEFINE i == [icon EXCEPT !.url = TRUE, !.polling = FALSE]
    <3>1. i \in Picture!Icon /\ i.mounted /\ ~i.polling
      BY <1>a, <2>2 DEF Picture!Icon
    <3>2. icon' = Picture!PollingChanged(i, row)
      BY <2>1, <2>3
    <3> HIDE DEF i
    <3>3. Fits(icon', row) /\ icon'.mounted
      BY <1>a, <3>1, <3>2, PicturePollingChanged
    <3> QED
      BY <1>a, <1>b, <2>1, <3>3
  <2>4. CASE ~ok
    <3>1. icon' = [icon EXCEPT !.poll = FALSE, !.timer = TRUE]
      BY <2>1, <2>4
    <3>2. /\ icon' \in Picture!Icon /\ icon'.mounted /\ icon'.polling /\ ~icon'.url /\ icon'.timer
      BY <1>a, <2>2, <3>1 DEF Picture!Icon
    <3>3. Fits(icon', row)
      BY <1>a, <2>2, <3>2 DEF Fits
    <3> QED
      BY <1>a, <1>b, <2>1, <3>2, <3>3
  <2> QED
    BY <2>3, <2>4
<1>8. ASSUME NEW ok \in BOOLEAN, Picture!FetchEnds(ok)
      PROVE  PictureInv'
  <2>1. /\ icon.fetch /\ UNCHANGED <<stage, row, changes>> /\ cached' \in BOOLEAN
        /\ icon' = IF ok THEN Picture!Polling([icon EXCEPT !.url = TRUE, !.fetch = FALSE])
                   ELSE [icon EXCEPT !.fetch = FALSE]
    BY <1>8, <1>a DEF Picture!FetchEnds, Picture!Fetched
  <2>2. icon.mounted
    BY <2>1, <1>a DEF Picture!Off
  <2>3. CASE ok
    <3> DEFINE i == [icon EXCEPT !.url = TRUE, !.fetch = FALSE]
    <3>1. i \in Picture!Icon /\ i.mounted /\ i.url /\ i.polling = icon.polling
      BY <1>a, <2>2 DEF Picture!Icon
    <3>2. icon' = Picture!Polling(i)
      BY <2>1, <2>3
    <3> HIDE DEF i
    <3>3. /\ icon' \in Picture!Icon /\ icon'.mounted /\ icon'.url /\ icon'.polling = icon.polling
          /\ ~icon'.poll /\ icon'.timer = FALSE
      BY <3>1, <3>2, PicturePolling
    <3>4. Fits(icon', row)
      BY <1>a, <3>3 DEF Fits
    <3> QED
      BY <1>a, <1>b, <2>1, <3>3, <3>4
  <2>4. CASE ~ok
    <3>1. icon' = [icon EXCEPT !.fetch = FALSE]
      BY <2>1, <2>4
    <3>2. /\ icon' \in Picture!Icon /\ icon'.mounted /\ icon'.polling = icon.polling /\ icon'.url = icon.url
          /\ icon'.timer = icon.timer /\ icon'.poll = icon.poll
      BY <1>a, <2>2, <3>1 DEF Picture!Icon
    <3>3. Fits(icon', row)
      BY <1>a, <2>2, <3>2 DEF Fits
    <3> QED
      BY <1>a, <1>b, <2>1, <3>2, <3>3
  <2> QED
    BY <2>3, <2>4
<1>9. CASE Picture!Elsewhere
  <2>1. UNCHANGED <<row, icon, changes>> /\ stage' \in 0..2 /\ cached' \in BOOLEAN
    <3>1. /\ UNCHANGED <<row, icon, changes>>
          /\ \/ stage < 2 /\ stage' = stage + 1 /\ cached' = cached
             \/ cached' = ~cached /\ stage' = stage
      BY <1>9 DEF Picture!Elsewhere
    <3>2. stage \in Int /\ 0 <= stage /\ stage <= 2
      BY <1>a
    <3>3. stage' \in 0..2
      BY <3>1, <3>2
    <3>4. cached' \in BOOLEAN
      BY <1>a, <3>1
    <3> QED
      BY <3>1, <3>3, <3>4
  <2> QED
    BY <1>a, <1>b, <2>1
<1>10. CASE UNCHANGED Picture!vars
  BY <1>10, <1>a, <1>b DEF Picture!vars
<1> QED
  BY <1>1, <1>2, <1>4, <1>5, <1>6, <1>7, <1>8, <1>9, <1>10 DEF Picture!Next

LEMMA PictureHolds == Spec => [](Picture!TypeOK /\ Picture!PollingFits)
<1>1. Init => PictureInv
  BY PictureInit DEF Init
<1>2. ASSUME [Next]_vars PROVE [Picture!Next]_(Picture!vars)
  <2>1. CASE UNCHANGED vars
    BY <2>1 DEF vars, smallVars, iconVars, Picture!vars
  <2>2. CASE Next
    BY <2>2 DEF Next, smallVars, iconVars, Picture!vars
  <2> QED
    BY <1>2, <2>1, <2>2
<1>3. PictureInv => Picture!TypeOK /\ Picture!PollingFits
  BY DEF PictureInv, Picture!PollingFits, Picture!RoundGoesOn, Picture!NoIdlePolls
<1> QED
  BY <1>1, <1>2, <1>3, PictureStep, PTL DEF Spec

-----------------------------------------------------------------------------
\* Dashboard.

\* The number of those that come before i in a listing, newest first.
Before(S, i) == Cardinality({j \in S : j > i})

Ranks(S, n, k) == {i \in S : n <= Before(S, i) /\ Before(S, i) < n + k}

\* Each place of a list is taken by one: of the k places from n on all are, if one comes
\* after them.
LEMMA Ranked ==
  ASSUME NEW S, S \subseteq Int, IsFiniteSet(S), NEW n \in Nat, NEW k \in Nat
  PROVE  /\ IsFiniteSet(Ranks(S, n, k)) /\ Cardinality(Ranks(S, n, k)) \in Nat /\ Cardinality(Ranks(S, n, k)) <= k
         /\ (\E i \in S : Before(S, i) >= n + k) => Cardinality(Ranks(S, n, k)) = k
<1> DEFINE L == {i \in S : n <= Before(S, i) /\ Before(S, i) < n + k}
<1> DEFINE N == Cardinality(S)
<1> DEFINE r == [i \in S |-> Before(S, i)]
<1> DEFINE q == [i \in L |-> Before(S, i)]
<1>1. N \in Nat
  BY FS_CardinalityType
<1>2. ASSUME NEW i \in S
      PROVE  Before(S, i) \in Nat /\ Before(S, i) < N
  <2>1. IsFiniteSet({j \in S : j > i}) /\ Before(S, i) \in Nat
    BY FS_Subset, FS_CardinalityType DEF Before
  <2>2. i \notin {j \in S : j > i}
    OBVIOUS
  <2> QED
    BY <1>1, <2>1, <2>2, FS_Subset DEF Before
<1>a. \A i \in S : Before(S, i) \in Nat /\ Before(S, i) < N
  BY <1>2
<1>3. ASSUME NEW i \in S, NEW j \in S, i < j
      PROVE  Before(S, j) < Before(S, i)
  <2> DEFINE A == {l \in S : l > i}
  <2> DEFINE B == {l \in S : l > j}
  <2>a. i \in Int /\ j \in Int /\ \A l \in S : l \in Int
    OBVIOUS
  <2>1. B \subseteq A /\ j \in A /\ j \notin B
    <3>1. \A l \in S : l > j => l > i
      BY <1>3, <2>a
    <3>2. j > i /\ ~(j > j)
      BY <1>3, <2>a
    <3> QED
      BY <3>1, <3>2
  <2>2. IsFiniteSet(A) /\ Cardinality(A) \in Nat /\ Cardinality(B) \in Nat
    BY <1>a, FS_Subset DEF Before
  <2> HIDE DEF A, B
  <2>3. Cardinality(B) < Cardinality(A)
    <3>1. Cardinality(B) <= Cardinality(A) /\ (Cardinality(A) = Cardinality(B) => A = B)
      BY <2>1, <2>2, FS_Subset
    <3>2. A # B
      BY <2>1
    <3> QED
      BY <2>2, <3>1, <3>2
  <2> QED
    BY <2>3 DEF Before, A, B
<1>b. \A i, j \in S : i < j => Before(S, j) < Before(S, i)
  BY <1>3
<1>4. \A i, j \in S : Before(S, i) = Before(S, j) => i = j
  <2> SUFFICES ASSUME NEW i \in S, NEW j \in S, Before(S, i) = Before(S, j), i # j
               PROVE  FALSE
    OBVIOUS
  <2>a. i \in Int /\ j \in Int
    OBVIOUS
  <2>1. i < j \/ j < i
    BY <2>a
  <2> QED
    BY <1>a, <1>b, <2>1
<1>5. r \in Injection(S, 0 .. N - 1)
  <2>1. \A i \in S : Before(S, i) \in 0 .. N - 1
    <3> HIDE DEF N
    <3> QED
      BY <1>1, <1>a
  <2>2. r \in [S -> 0 .. N - 1]
    BY <2>1
  <2> QED
    BY <1>4, <2>2 DEF Injection, IsInjective
<1>6. IsFiniteSet(0 .. N - 1) /\ Cardinality(0 .. N - 1) = N
  BY <1>1, FS_Interval
<1>7. r \in Surjection(S, 0 .. N - 1)
  BY <1>5, <1>6, FS_Injection
<1>8. \A t \in 0 .. N - 1 : \E i \in S : Before(S, i) = t
  BY <1>7 DEF Surjection
<1>9. q \in Injection(L, n .. n + k - 1)
  <2>1. \A i \in L : Before(S, i) \in n .. n + k - 1 /\ i \in S
    BY <1>a
  <2>2. q \in [L -> n .. n + k - 1]
    BY <2>1
  <2> QED
    BY <1>4, <2>1, <2>2 DEF Injection, IsInjective
<1>10. IsFiniteSet(n .. n + k - 1) /\ Cardinality(n .. n + k - 1) = k
  BY FS_Interval
<1>11. /\ IsFiniteSet(L) /\ Cardinality(L) <= k
       /\ Cardinality(L) = k <=> q \in Surjection(L, n .. n + k - 1)
  BY <1>9, <1>10, FS_Injection
<1>12. ASSUME NEW x \in S, Before(S, x) >= n + k
       PROVE  Cardinality(L) = k
  <2>1. ASSUME NEW t \in n .. n + k - 1
        PROVE  \E i \in L : q[i] = t
    <3>1. t \in 0 .. N - 1
      <4> HIDE DEF N
      <4> QED
        BY <1>1, <1>a, <1>12
    <3>2. PICK i \in S : Before(S, i) = t
      BY <1>8, <3>1
    <3>3. i \in L /\ q[i] = t
      BY <3>2
    <3> QED
      BY <3>3
  <2>2. q \in [L -> n .. n + k - 1]
    BY <1>9 DEF Injection
  <2>3. q \in Surjection(L, n .. n + k - 1)
    BY <2>1, <2>2 DEF Surjection
  <2> QED
    BY <1>11, <2>3
<1>13. Cardinality(L) \in Nat
  BY <1>11, FS_CardinalityType
<1>14. Ranks(S, n, k) = L
  BY DEF Ranks
<1> HIDE DEF L
<1> QED
  BY <1>11, <1>12, <1>13, <1>14

\* The items of the page; those it lists in its folder.
Entries == 1..Newest
Drawn(p) == {i \in Entries : p.rows[i] = p.cur}

\* A listing that rests on what came alone and still holds: it lists items of its folder;
\* the first of the folder, as many as there are rows, are not hidden; what is asked for
\* next goes on after the rows; and if there is no more, nothing is hidden.
SureFits(s, p, asking) ==
    LET S == {i \in Entries : s.at[i] = p.cur}
        n == Cardinality(Drawn(p))
    IN  p.sure =>
            /\ Drawn(p) \subseteq S
            /\ \A i \in S : Before(S, i) < n \/ ~p.hasMore => p.rows[i] # Gone
            /\ \A c \in asking : c.to = "files" /\ c.parent = p.cur => c.offset \in {0, n}

\* A star that is as it was asked for, or will be once the request under way has turned
\* it over; there is one such request at most.
Turning(asking, i) == {c \in asking : c.to = "star" /\ i \in c.left}

WishFits(s, p, asking) ==
    \A i \in Entries : p.wish[i] # "none" =>
        /\ (p.wish[i] = "add" <=> i \in s.stars) <=> Turning(asking, i) = {}
        /\ \A c, d \in Turning(asking, i) : c = d

DataInv == Data!TypeOK /\ SureFits(srv, dashboard, loads) /\ WishFits(srv, dashboard, loads)

\* The instance has the same cardinality.
LEMMA SameCardinality == \A S : Data!Cardinality(S) = Cardinality(S)
BY DEF Data!Cardinality, Cardinality

LEMMA ActsBound == MaxActs \in Nat
BY BoundsAssumption

LEMMA EntriesFinite == PageSize \in Nat /\ Newest \in Nat /\ IsFiniteSet(Entries) /\ Entries \subseteq Nat
                       /\ Cardinality(Entries) = Newest
<1>1. PageSize \in Nat /\ Newest \in Nat
  BY BoundsAssumption
<1> QED
  BY <1>1, FS_Interval DEF Entries

LEMMA DataSets ==
  /\ Data!Item = Entries
  /\ Data!Page = [cur : {root, sub}, rows : [Entries -> Data!Place], stars : SUBSET Entries,
                  favorites : SUBSET Entries, hasMore : BOOLEAN, loading : BOOLEAN, loadingMore : BOOLEAN,
                  sure : BOOLEAN, wish : [Entries -> {"add", "remove", "none"}]]
  /\ Data!TypeOK <=>
        /\ srv \in [at : [Entries -> Data!Place], stars : SUBSET Entries]
        /\ dashboard \in Data!Page /\ loads \subseteq Data!Calls /\ acts \in 0..MaxActs
  /\ {root, sub} \subseteq Data!Place /\ Gone \in Data!Place /\ Data!Place \subseteq {root, sub, Gone}
BY DEF Data!Item, Data!Page, Data!TypeOK, Data!Place, Entries

LEMMA DataAnswers == Data!Answers = [ids : SUBSET Entries, stars : SUBSET Entries, done : BOOLEAN]
BY DEF Data!Answers, Data!Item, Entries

FileCalls == [to : {"files"}, parent : {root, sub}, offset : 0..Newest, silent : BOOLEAN, got : Data!Answers]
FavoriteCalls == [to : {"favorites"}, got : Data!Answers]
StarCalls == [to : {"star"}, left : SUBSET Entries, ok : BOOLEAN, at : {root, sub}]
MoveCalls == [to : {"move"}, item : Entries, dest : Data!Place, at : {root, sub}]

\* Which request a record is tells its field "to".
LEMMA DataCalls ==
  /\ FileCalls \subseteq Data!Calls /\ FavoriteCalls \subseteq Data!Calls
  /\ StarCalls \subseteq Data!Calls /\ MoveCalls \subseteq Data!Calls
  /\ \A c \in Data!Calls : /\ c.to = "files" => c \in FileCalls
                           /\ c.to = "favorites" => c \in FavoriteCalls
                           /\ c.to = "star" => c \in StarCalls
                           /\ c.to = "move" => c \in MoveCalls
<1>1. Data!Calls = FileCalls \cup FavoriteCalls \cup StarCalls \cup MoveCalls
  BY DEF Data!Calls, FileCalls, FavoriteCalls, StarCalls, MoveCalls, Data!Item, Entries
<1>2. \A c \in FileCalls : c.to = "files"
  BY DEF FileCalls
<1>3. \A c \in FavoriteCalls : c.to = "favorites"
  BY DEF FavoriteCalls
<1>4. \A c \in StarCalls : c.to = "star"
  BY DEF StarCalls
<1>5. \A c \in MoveCalls : c.to = "move"
  BY DEF MoveCalls
<1> QED
  BY <1>1, <1>2, <1>3, <1>4, <1>5

LEMMA DataAsked ==
  /\ \A f \in {root, sub}, n \in 0..Newest, b \in BOOLEAN :
        /\ Data!Files(f, n, b) \in FileCalls /\ Data!Files(f, n, b).to = "files"
        /\ Data!Files(f, n, b).parent = f /\ Data!Files(f, n, b).offset = n
  /\ Data!Favorites \in FavoriteCalls /\ Data!Favorites.to = "favorites"
<1>1. Data!NoAnswer \in Data!Answers
  BY DataAnswers DEF Data!NoAnswer
<1> QED
  BY <1>1 DEF Data!Files, Data!Favorites, FileCalls, FavoriteCalls

\* An answer of the server.
LEMMA DataServed ==
  ASSUME NEW c \in Data!Calls, c.to \in {"files", "favorites"}, NEW a \in Data!Answers
  PROVE  /\ [c EXCEPT !.got = a] \in Data!Calls /\ [c EXCEPT !.got = a].to = c.to
         /\ c.to = "files" => [c EXCEPT !.got = a].parent = c.parent /\ [c EXCEPT !.got = a].offset = c.offset
<1>1. CASE c.to = "files"
  <2>1. c \in FileCalls
    BY <1>1, DataCalls
  <2>2. /\ [c EXCEPT !.got = a] \in FileCalls /\ [c EXCEPT !.got = a].to = c.to
        /\ [c EXCEPT !.got = a].parent = c.parent /\ [c EXCEPT !.got = a].offset = c.offset
    BY <2>1 DEF FileCalls
  <2> QED
    BY <2>2, DataCalls
<1>2. CASE c.to = "favorites"
  <2>1. c \in FavoriteCalls
    BY <1>2, DataCalls
  <2>2. [c EXCEPT !.got = a] \in FavoriteCalls /\ [c EXCEPT !.got = a].to = c.to
    BY <2>1 DEF FavoriteCalls
  <2> QED
    BY <1>2, <2>2, DataCalls
<1> QED
  BY <1>1, <1>2

\* What the listing rests on does not change while its rows, its folder and the places of
\* the items do not, and requests for more rows go on after those there are.
LEMMA SureKept ==
  ASSUME NEW s, NEW t, NEW p, NEW q, NEW asking, NEW now, SureFits(s, p, asking),
         q.sure => p.sure /\ t.at = s.at /\ q.rows = p.rows /\ q.cur = p.cur /\ q.hasMore = p.hasMore,
         \A c \in now : c.to = "files" =>
            \/ c.offset \in {0, Cardinality(Drawn(p))}
            \/ \E d \in asking : d.to = "files" /\ d.parent = c.parent /\ d.offset = c.offset
  PROVE  SureFits(t, q, now)
<1> SUFFICES ASSUME q.sure PROVE SureFits(t, q, now)
  BY DEF SureFits
<1>1. Drawn(q) = Drawn(p)
  BY DEF Drawn
<1> QED
  BY <1>1 DEF SureFits

LEMMA WishKept ==
  ASSUME NEW s, NEW t, NEW p, NEW q, NEW asking, NEW now, WishFits(s, p, asking), t.stars = s.stars,
         \A i \in Entries : q.wish[i] # "none" => q.wish[i] = p.wish[i],
         \A i \in Entries : q.wish[i] # "none" => Turning(now, i) = Turning(asking, i)
  PROVE  WishFits(t, q, now)
BY DEF WishFits

LEMMA DataTyped ==
  ASSUME DataInv
  PROVE  /\ srv \in [at : [Entries -> Data!Place], stars : SUBSET Entries] /\ dashboard \in Data!Page
         /\ loads \subseteq Data!Calls /\ acts \in 0..MaxActs
         /\ SureFits(srv, dashboard, loads) /\ WishFits(srv, dashboard, loads)
         /\ dashboard.cur \in {root, sub} /\ dashboard.rows \in [Entries -> Data!Place]
         /\ srv.at \in [Entries -> Data!Place] /\ srv.stars \subseteq Entries
<1>1. /\ srv \in [at : [Entries -> Data!Place], stars : SUBSET Entries] /\ dashboard \in Data!Page
      /\ loads \subseteq Data!Calls /\ acts \in 0..MaxActs
      /\ SureFits(srv, dashboard, loads) /\ WishFits(srv, dashboard, loads)
  BY DataSets DEF DataInv
<1>2. dashboard.cur \in {root, sub} /\ dashboard.rows \in [Entries -> Data!Place]
  BY <1>1, DataSets
<1>3. srv.at \in [Entries -> Data!Place] /\ srv.stars \subseteq Entries
  BY <1>1
<1> QED
  BY <1>1, <1>2, <1>3

LEMMA DataDone ==
  ASSUME srv' \in [at : [Entries -> Data!Place], stars : SUBSET Entries], dashboard' \in Data!Page,
         loads' \subseteq Data!Calls, acts' \in 0..MaxActs,
         SureFits(srv', dashboard', loads'), WishFits(srv', dashboard', loads')
  PROVE  DataInv'
<1>1. Data!TypeOK'
  BY DEF Data!TypeOK, Data!Item, Entries
<1> QED
  BY <1>1 DEF DataInv, SureFits, WishFits, Drawn, Turning, Before

LEMMA DataInit == Data!Init => DataInv
<1> SUFFICES ASSUME Data!Init PROVE DataInv
  OBVIOUS
<1>1. PICK f \in {root, sub} :
        /\ dashboard = [cur |-> f, rows |-> [i \in Entries |-> Gone], stars |-> {}, favorites |-> {},
                        hasMore |-> TRUE, loading |-> TRUE, loadingMore |-> FALSE,
                        sure |-> FALSE, wish |-> [i \in Entries |-> "none"]]
        /\ loads = {Data!Files(f, 0, FALSE), Data!Favorites}
  BY DEF Data!Init, Data!Item, Entries
<1>2. /\ srv = [at |-> [i \in Entries |-> IF i = Newest THEN sub ELSE root], stars |-> {}] /\ acts = 0
  BY DEF Data!Init, Entries
<1>3. srv \in [at : [Entries -> Data!Place], stars : SUBSET Entries]
  <2>1. [i \in Entries |-> IF i = Newest THEN sub ELSE root] \in [Entries -> Data!Place]
    BY DataSets
  <2> QED
    BY <1>2, <2>1
<1>4. dashboard \in Data!Page
  <2>1. /\ [i \in Entries |-> Gone] \in [Entries -> Data!Place]
        /\ [i \in Entries |-> "none"] \in [Entries -> {"add", "remove", "none"}]
    BY DataSets
  <2> QED
    BY <1>1, <2>1, DataSets
<1>5. loads \subseteq Data!Calls
  <2>1. 0 \in 0..Newest
    BY EntriesFinite
  <2> QED
    <3>1. Data!Files(f, 0, FALSE) \in FileCalls /\ Data!Favorites \in FavoriteCalls
      BY <2>1, DataAsked
    <3> QED
      BY <1>1, <3>1, DataCalls
<1>6. SureFits(srv, dashboard, loads)
  BY <1>1 DEF SureFits
<1>7. WishFits(srv, dashboard, loads)
  BY <1>1 DEF WishFits
<1>8. acts \in 0..MaxActs
  BY <1>2, ActsBound
<1> QED
  BY <1>3, <1>4, <1>5, <1>6, <1>7, <1>8, DataSets DEF DataInv

\* The server answers; the page does not know yet.
LEMMA DataServe ==
  ASSUME DataInv, NEW c \in loads, Data!Serve(c)
  PROVE  DataInv'
<1>1. /\ c.to \in {"files", "favorites"} /\ UNCHANGED <<srv, dashboard, acts>>
  BY DEF Data!Serve
<1> DEFINE ids == IF c.to = "files" THEN Data!Listing(c.parent, c.offset) ELSE Data!FirstStars
<1> DEFINE a == [ids |-> ids, stars |-> ids \cap srv.stars, done |-> TRUE]
<1>2. ids \subseteq Entries
  BY DataTyped DEF Data!Listing, Data!FirstStars, Data!In, Data!Item, Entries
<1>3. loads' = (loads \ {c}) \cup {[c EXCEPT !.got = a]}
  BY DEF Data!Serve
<1> HIDE DEF ids
<1>4. a \in Data!Answers
  BY <1>2, DataAnswers
<1> HIDE DEF a
<1> DEFINE d == [c EXCEPT !.got = a]
<1>5. c \in Data!Calls
  BY DataTyped
<1>6. /\ d \in Data!Calls /\ d.to = c.to
      /\ c.to = "files" => d.parent = c.parent /\ d.offset = c.offset
  BY <1>1, <1>4, <1>5, DataServed
<1>7. loads' = (loads \ {c}) \cup {d}
  BY <1>3
<1> HIDE DEF d
<1>8. loads' \subseteq Data!Calls
  BY <1>6, <1>7, DataTyped
<1>9. SureFits(srv', dashboard', loads')
  <2>1. \A e \in loads' : e.to = "files" =>
           \E b \in loads : b.to = "files" /\ b.parent = e.parent /\ b.offset = e.offset
    BY <1>6, <1>7
  <2> QED
    BY <1>1, <2>1, DataTyped, SureKept
<1>10. WishFits(srv', dashboard', loads')
  <2>1. \A i : Turning(loads', i) = Turning(loads, i)
    BY <1>1, <1>6, <1>7 DEF Turning
  <2> QED
    BY <1>1, <2>1, DataTyped, WishKept
<1> QED
  BY <1>1, <1>8, <1>9, <1>10, DataTyped, DataDone

\* The rows when a page of a listing has come: those of its folder are replaced by a first
\* page; what it names and has no row yet gets one.
NewRows(c) ==
    LET kept == [i \in Entries |-> IF c.offset = 0 /\ (dashboard.rows[i] = c.parent \/ i \in c.got.ids)
                                   THEN Gone ELSE dashboard.rows[i]]
    IN  [i \in Entries |-> IF i \in c.got.ids /\ kept[i] = Gone THEN c.parent ELSE kept[i]]

LEMMA NewRowsAre ==
  ASSUME DataInv, NEW c \in FileCalls
  PROVE  /\ NewRows(c) \in [Entries -> Data!Place]
         /\ c.offset = 0 =>
              \A i \in Entries : NewRows(c)[i] = IF i \in c.got.ids THEN c.parent
                                                 ELSE IF dashboard.rows[i] = c.parent THEN Gone ELSE dashboard.rows[i]
         /\ c.offset # 0 =>
              \A i \in Entries : NewRows(c)[i] = IF i \in c.got.ids /\ dashboard.rows[i] = Gone THEN c.parent
                                                 ELSE dashboard.rows[i]
<1> DEFINE kept == [i \in Entries |-> IF c.offset = 0 /\ (dashboard.rows[i] = c.parent \/ i \in c.got.ids)
                                      THEN Gone ELSE dashboard.rows[i]]
<1>1. NewRows(c) = [i \in Entries |-> IF i \in c.got.ids /\ kept[i] = Gone THEN c.parent ELSE kept[i]]
  BY DEF NewRows
<1>2. c.parent \in {root, sub}
  BY DEF FileCalls
<1>3. kept \in [Entries -> Data!Place]
  BY DataTyped, DataSets
<1>4. c.offset = 0 => \A i \in Entries : kept[i] = IF dashboard.rows[i] = c.parent \/ i \in c.got.ids
                                                  THEN Gone ELSE dashboard.rows[i]
  OBVIOUS
<1>5. c.offset # 0 => \A i \in Entries : kept[i] = dashboard.rows[i]
  OBVIOUS
<1> HIDE DEF kept
<1> QED
  BY <1>1, <1>2, <1>3, <1>4, <1>5, DataSets

LEMMA DataMerged ==
  ASSUME DataInv, NEW c \in loads, Data!FilesAnswered(c)
  PROVE  /\ c \in FileCalls /\ dashboard' \in Data!Page /\ loads' = loads \ {c} /\ UNCHANGED <<srv, acts>>
         /\ dashboard'.cur = dashboard.cur /\ dashboard'.wish = dashboard.wish /\ dashboard'.rows = NewRows(c)
         /\ dashboard'.hasMore = (Cardinality(c.got.ids) = PageSize)
         /\ dashboard'.sure <=>
              /\ ~Data!OtherFiles(c) /\ c.parent = dashboard.cur /\ c.got.ids = Data!Listing(c.parent, c.offset)
              /\ c.offset > 0 => dashboard.sure
<1>1. c \in FileCalls /\ c.to = "files"
  BY DataTyped, DataCalls DEF Data!FilesAnswered
<1>2. c.got.ids \subseteq Entries /\ c.got.stars \subseteq Entries /\ c.parent \in {root, sub} /\ c.silent \in BOOLEAN
  BY <1>1, DataAnswers DEF FileCalls
<1> DEFINE st == (dashboard.stars \ {i \in c.got.ids :
                    [j \in Entries |-> IF c.offset = 0 /\ (dashboard.rows[j] = c.parent \/ j \in c.got.ids)
                                       THEN Gone ELSE dashboard.rows[j]][i] = Gone})
                 \cup (c.got.stars \cap {i \in c.got.ids :
                    [j \in Entries |-> IF c.offset = 0 /\ (dashboard.rows[j] = c.parent \/ j \in c.got.ids)
                                       THEN Gone ELSE dashboard.rows[j]][i] = Gone})
<1> DEFINE rw == [i \in Entries |->
                    IF i \in {k \in c.got.ids :
                        [j \in Entries |-> IF c.offset = 0 /\ (dashboard.rows[j] = c.parent \/ j \in c.got.ids)
                                           THEN Gone ELSE dashboard.rows[j]][k] = Gone}
                    THEN c.parent
                    ELSE [j \in Entries |-> IF c.offset = 0 /\ (dashboard.rows[j] = c.parent \/ j \in c.got.ids)
                                            THEN Gone ELSE dashboard.rows[j]][i]]
<1>3. Data!Merged(c) = [dashboard EXCEPT !.rows = rw, !.stars = st]
  BY DEF Data!Merged, Data!Item, Entries
<1>4. rw = NewRows(c)
  BY DEF NewRows
<1>5. dashboard \in Data!Page /\ dashboard.stars \subseteq Entries /\ dashboard.loading \in BOOLEAN
  BY DataTyped, DataSets
<1>6. st \subseteq Entries
  BY <1>2, <1>5
<1>7. rw \in [Entries -> Data!Place]
  BY <1>1, <1>4, NewRowsAre
<1> HIDE DEF rw, st
<1> DEFINE more == (Cardinality(c.got.ids) = PageSize)
<1> DEFINE sr == /\ ~Data!OtherFiles(c) /\ c.parent = dashboard.cur /\ c.got.ids = Data!Listing(c.parent, c.offset)
                 /\ c.offset > 0 => dashboard.sure
<1>a. loads' = loads \ {c} /\ UNCHANGED <<srv, acts>>
  BY DEF Data!FilesAnswered
<1>8. dashboard' = Data!Ended(c, [Data!Merged(c) EXCEPT !.hasMore = more, !.sure = sr])
  BY SameCardinality DEF Data!FilesAnswered
<1>9. more \in BOOLEAN /\ sr \in BOOLEAN
  BY <1>5, DataSets
<1> HIDE DEF more, sr
<1> DEFINE p == [Data!Merged(c) EXCEPT !.hasMore = more, !.sure = sr]
<1>10. /\ p \in Data!Page /\ p.cur = dashboard.cur /\ p.wish = dashboard.wish /\ p.rows = rw
       /\ p.hasMore = more /\ p.sure = sr /\ p.loading = dashboard.loading
  BY <1>3, <1>5, <1>6, <1>7, <1>9, DataSets
<1> HIDE DEF p
<1> DEFINE ld == p.loading /\ c.silent
<1>11. ld \in BOOLEAN
  OBVIOUS
<1>12. dashboard' = [p EXCEPT !.loading = ld, !.loadingMore = FALSE]
  BY <1>8 DEF Data!Ended, p
<1> HIDE DEF ld
<1>13. /\ dashboard' \in Data!Page /\ dashboard'.cur = p.cur /\ dashboard'.wish = p.wish /\ dashboard'.rows = p.rows
       /\ dashboard'.hasMore = p.hasMore /\ dashboard'.sure = p.sure
  BY <1>10, <1>11, <1>12, DataSets
<1> QED
  BY <1>1, <1>4, <1>a, <1>10, <1>13 DEF more, sr

LEMMA DataListing ==
  ASSUME NEW f, NEW n
  PROVE  LET S == {i \in Entries : srv.at[i] = f}
         IN  /\ Data!In(f) = S
             /\ Data!Listing(f, n) = {i \in S : n <= Before(S, i) /\ Before(S, i) < n + PageSize}
<1>1. Data!In(f) = {i \in Entries : srv.at[i] = f}
  BY DEF Data!In, Data!Item, Entries
<1> QED
  BY <1>1, SameCardinality DEF Data!Listing, Before

LEMMA DrawnCount == ASSUME NEW p PROVE Cardinality(Drawn(p)) \in 0..Newest /\ IsFiniteSet(Drawn(p))
<1>1. Drawn(p) \subseteq Entries
  BY DEF Drawn
<1>2. Cardinality(Drawn(p)) <= Newest /\ IsFiniteSet(Drawn(p)) /\ Cardinality(Drawn(p)) \in Nat
  BY <1>1, EntriesFinite, FS_Subset, FS_CardinalityType
<1> QED
  BY <1>2, EntriesFinite

\* A page of a listing has come.
LEMMA DataAnswered ==
  ASSUME DataInv, NEW c \in loads, Data!FilesAnswered(c)
  PROVE  DataInv'
<1>1. /\ c \in FileCalls /\ dashboard' \in Data!Page /\ loads' = loads \ {c} /\ UNCHANGED <<srv, acts>>
      /\ dashboard'.cur = dashboard.cur /\ dashboard'.wish = dashboard.wish /\ dashboard'.rows = NewRows(c)
      /\ dashboard'.hasMore = (Cardinality(c.got.ids) = PageSize)
      /\ dashboard'.sure =>
              /\ ~Data!OtherFiles(c) /\ c.parent = dashboard.cur /\ c.got.ids = Data!Listing(c.parent, c.offset)
              /\ c.offset > 0 => dashboard.sure
  BY DataMerged
<1>2. c.to = "files" /\ c.offset \in Nat /\ c.parent \in {root, sub}
  BY <1>1, EntriesFinite DEF FileCalls
<1>3. WishFits(srv', dashboard', loads')
  <2>1. \A i : Turning(loads', i) = Turning(loads, i)
    BY <1>1, <1>2 DEF Turning
  <2> QED
    BY <1>1, <2>1, DataTyped, WishKept
<1>4. ASSUME dashboard'.sure PROVE SureFits(srv', dashboard', loads')
  <2> DEFINE cur == dashboard.cur
  <2> DEFINE ids == c.got.ids
  <2> DEFINE S == {i \in Entries : srv.at[i] = cur}
  <2> DEFINE n == c.offset
  <2> DEFINE R == Drawn(dashboard)
  <2> DEFINE Q == Drawn(dashboard')
  <2>1. \A d \in loads' : d.to # "files"
    BY <1>1, <1>4 DEF Data!OtherFiles
  <2>2. ids = {i \in S : n <= Before(S, i) /\ Before(S, i) < n + PageSize} /\ c.parent = cur
    BY <1>1, <1>4, DataListing
  <2>3. Q = {i \in Entries : NewRows(c)[i] = cur}
    BY <1>1 DEF Drawn
  <2>4. S \subseteq Int /\ IsFiniteSet(S)
    <3>1. S \subseteq Entries
      OBVIOUS
    <3> HIDE DEF S
    <3>2. IsFiniteSet(S)
      BY <3>1, EntriesFinite, FS_Subset
    <3>3. S \subseteq Int
      BY <3>1, EntriesFinite
    <3> QED
      BY <3>2, <3>3
  <2>5. \A i \in S : Before(S, i) \in Nat
    <3> SUFFICES ASSUME NEW i \in S PROVE Before(S, i) \in Nat
      OBVIOUS
    <3> QED
      BY <2>4, FS_Subset, FS_CardinalityType DEF Before
  <2>6. /\ Cardinality(ids) \in Nat /\ Cardinality(ids) <= PageSize /\ IsFiniteSet(ids)
        /\ (\E i \in S : Before(S, i) >= n + PageSize) => Cardinality(ids) = PageSize
    <3>1. ids = Ranks(S, n, PageSize)
      <4> HIDE DEF S, ids, n
      <4> QED
        BY <2>2 DEF Ranks
    <3> HIDE DEF S, ids, n
    <3> QED
      BY <1>2, <2>4, <3>1, EntriesFinite, Ranked DEF n
  <2>7. Cardinality(Q) \in Nat
    BY DrawnCount
  <2>8. /\ Q \subseteq S /\ Cardinality(Q) <= n + PageSize
        /\ \A i \in S : Before(S, i) < n + PageSize => NewRows(c)[i] # Gone
    <3>1. CASE n = 0
      <4>1. Q = ids
        <5>1. \A i \in Entries : NewRows(c)[i] = IF i \in ids THEN cur
                                                ELSE IF dashboard.rows[i] = cur THEN Gone ELSE dashboard.rows[i]
          BY <1>1, <2>2, <3>1, NewRowsAre
        <5>2. cur # Gone /\ ids \subseteq Entries
          BY <2>2, DataTyped, PlacesAssumption
        <5> HIDE DEF ids, cur
        <5> QED
          BY <2>3, <5>1, <5>2
      <4>2. Q \subseteq S /\ Cardinality(Q) <= n + PageSize
        <5>1. ids \subseteq S
          BY <2>2
        <5> HIDE DEF ids, Q, S, n
        <5> QED
          BY <2>6, <3>1, <4>1, <5>1, EntriesFinite
      <4>3. ASSUME NEW i \in S, Before(S, i) < n + PageSize PROVE NewRows(c)[i] # Gone
        <5>1. i \in ids
          BY <2>2, <2>5, <3>1, <4>3
        <5> QED
          BY <1>1, <1>2, <3>1, <5>1, NewRowsAre, PlacesAssumption
      <4> QED
        BY <4>2, <4>3
    <3>2. CASE n # 0
      <4>1. dashboard.sure /\ R \subseteq S /\ n = Cardinality(R)
            /\ \A i \in S : Before(S, i) < n => dashboard.rows[i] # Gone
        <5>1. dashboard.sure
          BY <1>1, <1>2, <1>4, <3>2
        <5> QED
          BY <1>2, <2>2, <3>2, <5>1, DataTyped DEF SureFits
      <4>2. Q \subseteq R \cup ids
        <5>1. \A i \in Entries : NewRows(c)[i] = IF i \in ids /\ dashboard.rows[i] = Gone THEN cur
                                                ELSE dashboard.rows[i]
          BY <1>1, <2>2, <3>2, NewRowsAre
        <5>2. R = {i \in Entries : dashboard.rows[i] = cur}
          BY DEF Drawn
        <5> HIDE DEF ids, cur, R
        <5> QED
          BY <2>3, <5>1, <5>2
      <4>3. Q \subseteq S
        BY <2>2, <4>1, <4>2
      <4>4. IsFiniteSet(R) /\ Cardinality(R) \in Nat
        BY DrawnCount
      <4>5. Cardinality(Q) <= n + PageSize
        <5> HIDE DEF Q, R, ids, n
        <5>1. IsFiniteSet(R \cup ids) /\ Cardinality(R \cap ids) \in Nat
              /\ Cardinality(R \cup ids) = Cardinality(R) + Cardinality(ids) - Cardinality(R \cap ids)
          <6>1. IsFiniteSet(R \cap ids)
            BY <4>4, FS_Intersection
          <6> QED
            BY <2>6, <4>4, <6>1, FS_Union, FS_CardinalityType
        <5>2. Cardinality(Q) <= Cardinality(R \cup ids)
          BY <4>2, <5>1, FS_Subset
        <5> QED
          BY <2>6, <2>7, <4>1, <4>4, <5>1, <5>2, EntriesFinite
      <4>6. ASSUME NEW i \in S, Before(S, i) < n + PageSize PROVE NewRows(c)[i] # Gone
        <5>1. CASE Before(S, i) < n
          BY <1>1, <1>2, <3>2, <4>1, <5>1, NewRowsAre, PlacesAssumption
        <5>2. CASE ~(Before(S, i) < n)
          <6>1. i \in ids
            BY <1>2, <2>2, <2>5, <4>6, <5>2
          <6> QED
            BY <1>1, <1>2, <3>2, <6>1, NewRowsAre, PlacesAssumption
        <5> QED
          BY <5>1, <5>2
      <4> QED
        BY <4>3, <4>5, <4>6
    <3> QED
      BY <3>1, <3>2
  <2>9. ASSUME NEW i \in S, Before(S, i) < Cardinality(Q) \/ ~dashboard'.hasMore
        PROVE  dashboard'.rows[i] # Gone
    <3>1. Before(S, i) < n + PageSize
      <4>1. CASE Before(S, i) < Cardinality(Q)
        <5> HIDE DEF Q
        <5> QED
          BY <1>2, <2>5, <2>7, <2>8, <4>1, EntriesFinite
      <4>2. CASE ~dashboard'.hasMore
        <5>1. Cardinality(ids) # PageSize
          BY <1>1, <4>2
        <5>2. ~(Before(S, i) >= n + PageSize)
          BY <2>6, <5>1
        <5>3. n + PageSize \in Nat /\ Before(S, i) \in Nat
          BY <1>2, <2>5, EntriesFinite
        <5> HIDE DEF n
        <5> QED
          BY <5>2, <5>3
      <4> QED
        BY <2>9, <4>1, <4>2
    <3> QED
      BY <1>1, <2>8, <3>1
  <2>10. S = {i \in Entries : srv'.at[i] = dashboard'.cur}
    BY <1>1
  <2> HIDE DEF S, Q
  <2>11. Drawn(dashboard') = Q
    BY DEF Q
  <2> QED
    BY <2>1, <2>8, <2>9, <2>10, <2>11 DEF SureFits
<1>5. SureFits(srv', dashboard', loads')
  BY <1>4 DEF SureFits
<1>6. loads' \subseteq Data!Calls
  BY <1>1, DataTyped
<1> QED
  BY <1>1, <1>3, <1>5, <1>6, DataTyped, DataDone

\* A step that leaves the server, the rows and the stars as they are.
LEMMA DataSame ==
  ASSUME DataInv, srv' = srv, dashboard' \in Data!Page, loads' \subseteq Data!Calls, acts' \in 0..MaxActs,
         dashboard'.sure => /\ dashboard.sure /\ dashboard'.rows = dashboard.rows /\ dashboard'.cur = dashboard.cur
                            /\ dashboard'.hasMore = dashboard.hasMore,
         dashboard'.wish = dashboard.wish,
         \A c \in loads' \ loads : c.to = "files" => c.offset \in {0, Cardinality(Drawn(dashboard))},
         \A c \in (loads' \ loads) \cup (loads \ loads') : c.to = "star" => c.left = {}
  PROVE  DataInv'
<1>1. SureFits(srv', dashboard', loads')
  BY DataTyped, SureKept
<1>2. \A i : Turning(loads', i) = Turning(loads, i)
  BY DEF Turning
<1>3. WishFits(srv', dashboard', loads')
  BY <1>2, DataTyped, WishKept
<1> QED
  BY <1>1, <1>3, DataTyped, DataDone

LEMMA DataAct ==
  ASSUME DataInv, NEW new, NEW more, Data!Act(new, more)
  PROVE  dashboard' = new /\ loads' = loads \cup more /\ srv' = srv /\ acts' \in 0..MaxActs
BY DataTyped, ActsBound DEF Data!Act

LEMMA DataAnsweredElse ==
  ASSUME DataInv, NEW c \in loads, Data!FavoritesAnswered(c) \/ Data!Failed(c)
  PROVE  DataInv'
<1>1. c \in Data!Calls /\ dashboard \in Data!Page
  BY DataTyped
<1>2. /\ c.to \in {"files", "favorites"} /\ loads' = loads \ {c} /\ srv' = srv /\ acts' = acts
      /\ \/ c.to = "favorites" /\ dashboard' = [dashboard EXCEPT !.favorites = c.got.ids]
         \/ dashboard' = Data!Ended(c, dashboard) /\ c.to = "files"
         \/ dashboard' = dashboard
  BY DEF Data!FavoritesAnswered, Data!Failed
<1>3. /\ dashboard' \in Data!Page /\ dashboard'.rows = dashboard.rows /\ dashboard'.cur = dashboard.cur
      /\ dashboard'.hasMore = dashboard.hasMore /\ dashboard'.sure = dashboard.sure /\ dashboard'.wish = dashboard.wish
  <2>1. CASE c.to = "favorites" /\ dashboard' = [dashboard EXCEPT !.favorites = c.got.ids]
    <3>1. c.got.ids \in SUBSET Entries
      BY <1>1, <2>1, DataCalls, DataAnswers DEF FavoriteCalls
    <3> QED
      BY <1>1, <2>1, <3>1, DataSets
  <2>2. CASE dashboard' = Data!Ended(c, dashboard) /\ c.to = "files"
    <3> DEFINE ld == dashboard.loading /\ c.silent
    <3>1. ld \in BOOLEAN
      OBVIOUS
    <3>2. dashboard' = [dashboard EXCEPT !.loading = ld, !.loadingMore = FALSE]
      BY <2>2 DEF Data!Ended
    <3> HIDE DEF ld
    <3> QED
      BY <1>1, <3>1, <3>2, DataSets
  <2>3. CASE dashboard' = dashboard
    BY <1>1, <2>3
  <2> QED
    BY <1>2, <2>1, <2>2, <2>3
<1>4. loads' \subseteq Data!Calls
  BY <1>2, DataTyped
<1> QED
  BY <1>2, <1>3, <1>4, DataTyped, DataSame

\* The user goes to a folder, scrolls on, or waits; a move is asked for.
LEMMA DataAsks ==
  ASSUME DataInv,
         \/ \E f \in {root, sub} : Data!Navigate(f)
         \/ Data!OnLoadMore \/ Data!Poll
         \/ \E i \in Entries, p \in Data!Place : Data!OnMove(i, p)
  PROVE  DataInv'
<1>a. dashboard \in Data!Page /\ loads \subseteq Data!Calls /\ dashboard.cur \in {root, sub} /\ 0 \in 0..Newest
  BY DataTyped, EntriesFinite
<1>1. ASSUME NEW f \in {root, sub}, Data!Navigate(f) PROVE DataInv'
  <2> DEFINE c == Data!Files(f, 0, FALSE)
  <2> DEFINE p == [dashboard EXCEPT !.cur = f, !.loading = TRUE, !.sure = FALSE]
  <2>1. Data!Act(p, {c})
    BY <1>1 DEF Data!Navigate
  <2>2. c \in FileCalls /\ c.to = "files" /\ c.offset = 0
    BY <1>a, DataAsked
  <2>3. p \in Data!Page /\ ~p.sure /\ p.wish = dashboard.wish
    BY <1>a, DataSets
  <2> HIDE DEF c, p
  <2>4. dashboard' = p /\ loads' = loads \cup {c} /\ srv' = srv /\ acts' \in 0..MaxActs
    BY <2>1, DataAct
  <2> QED
    BY <1>a, <2>2, <2>3, <2>4, DataSame, DataCalls
<1>2. CASE Data!OnLoadMore
  <2> DEFINE n == Cardinality(Drawn(dashboard))
  <2> DEFINE c == Data!Files(dashboard.cur, n, TRUE)
  <2> DEFINE p == [dashboard EXCEPT !.loadingMore = n > 0]
  <2>a. n = Data!Cardinality({i \in Data!Item : dashboard.rows[i] = dashboard.cur})
    BY SameCardinality DEF Drawn, Data!Item, Entries
  <2>1. Data!Act(p, {c})
    BY <1>2, <2>a DEF Data!OnLoadMore
  <2>2. c \in FileCalls /\ c.to = "files" /\ c.offset = n
    <3>1. n \in 0..Newest /\ TRUE \in BOOLEAN
      BY DrawnCount
    <3> HIDE DEF n
    <3> QED
      BY <1>a, <3>1, DataAsked
  <2>3. /\ p \in Data!Page /\ p.rows = dashboard.rows /\ p.cur = dashboard.cur
        /\ p.hasMore = dashboard.hasMore /\ p.sure = dashboard.sure /\ p.wish = dashboard.wish
    <3>1. (n > 0) \in BOOLEAN
      OBVIOUS
    <3> QED
      BY <1>a, <3>1, DataSets
  <2> HIDE DEF c, p
  <2>4. dashboard' = p /\ loads' = loads \cup {c} /\ srv' = srv /\ acts' \in 0..MaxActs
    BY <2>1, DataAct
  <2> QED
    BY <1>a, <2>2, <2>3, <2>4, DataSame, DataCalls
<1>3. CASE Data!Poll
  <2> DEFINE c == Data!Files(dashboard.cur, 0, TRUE)
  <2>1. loads' = loads \cup {c} /\ UNCHANGED <<srv, dashboard, acts>>
    BY <1>3 DEF Data!Poll
  <2>2. c \in FileCalls /\ c.to = "files" /\ c.offset = 0
    BY <1>a, DataAsked
  <2> HIDE DEF c
  <2> QED
    BY <1>a, <2>1, <2>2, DataSame, DataCalls, DataTyped
<1>4. ASSUME NEW i \in Entries, NEW dest \in Data!Place, Data!OnMove(i, dest) PROVE DataInv'
  <2> DEFINE c == [to |-> "move", item |-> i, dest |-> dest, at |-> dashboard.cur]
  <2>1. Data!Act(dashboard, {c})
    BY <1>4 DEF Data!OnMove
  <2>2. c \in MoveCalls /\ c.to = "move"
    BY <1>a DEF MoveCalls
  <2> HIDE DEF c
  <2>3. dashboard' = dashboard /\ loads' = loads \cup {c} /\ srv' = srv /\ acts' \in 0..MaxActs
    BY <2>1, DataAct
  <2> QED
    BY <1>a, <2>2, <2>3, DataSame, DataCalls
<1> QED
  BY <1>1, <1>2, <1>3, <1>4

\* A move is done or refused.
LEMMA DataMoved ==
  ASSUME DataInv, NEW c \in loads, NEW ok \in BOOLEAN, Data!Moved(c, ok)
  PROVE  DataInv'
<1> DEFINE again == IF ok THEN {Data!Files(c.at, 0, FALSE), Data!Favorites} ELSE {}
<1>1. /\ c.to = "move" /\ acts' = acts /\ loads' = (loads \ {c}) \cup again
      /\ srv' = IF ok THEN [srv EXCEPT !.at[c.item] = IF @ = Gone THEN Gone ELSE c.dest] ELSE srv
      /\ dashboard' = IF ok THEN [dashboard EXCEPT !.sure = FALSE, !.loading = TRUE] ELSE dashboard
  BY DEF Data!Moved
<1>2. /\ dashboard \in Data!Page /\ srv \in [at : [Entries -> Data!Place], stars : SUBSET Entries]
      /\ loads \subseteq Data!Calls /\ acts \in 0..MaxActs
  BY DataTyped
<1>3. c \in MoveCalls
  BY <1>1, <1>2, DataCalls
<1>4. c.item \in Entries /\ c.dest \in Data!Place /\ c.at \in {root, sub}
  BY <1>3 DEF MoveCalls
<1>5. /\ again \subseteq Data!Calls /\ \A d \in again : d.to # "star" /\ (d.to = "files" => d.offset = 0)
  <2>1. 0 \in 0..Newest /\ FALSE \in BOOLEAN
    BY EntriesFinite
  <2>2. /\ Data!Files(c.at, 0, FALSE) \in FileCalls /\ Data!Files(c.at, 0, FALSE).to = "files"
        /\ Data!Files(c.at, 0, FALSE).offset = 0
        /\ Data!Favorites \in FavoriteCalls /\ Data!Favorites.to = "favorites"
    BY <1>4, <2>1, DataAsked
  <2> QED
    BY <2>2, DataCalls
<1> HIDE DEF again
<1>6. loads' \subseteq Data!Calls
  BY <1>1, <1>2, <1>5
<1>7. CASE ok
  <2>1. /\ srv' \in [at : [Entries -> Data!Place], stars : SUBSET Entries] /\ srv'.stars = srv.stars
    <3> DEFINE a == [srv.at EXCEPT ![c.item] = IF @ = Gone THEN Gone ELSE c.dest]
    <3>1. srv.at \in [Entries -> Data!Place] /\ Gone \in Data!Place
      BY <1>2, DataSets
    <3>2. a \in [Entries -> Data!Place]
      BY <1>4, <3>1
    <3>3. srv' = [srv EXCEPT !.at = a]
      BY <1>1, <1>2, <1>7
    <3> HIDE DEF a
    <3> QED
      BY <1>2, <3>2, <3>3
  <2>2. dashboard' \in Data!Page /\ ~dashboard'.sure /\ dashboard'.wish = dashboard.wish
    BY <1>1, <1>2, <1>7, DataSets
  <2>3. \A i : Turning(loads', i) = Turning(loads, i)
    BY <1>1, <1>5 DEF Turning
  <2>4. WishFits(srv', dashboard', loads')
    BY <2>1, <2>2, <2>3, DataTyped, WishKept
  <2>5. SureFits(srv', dashboard', loads')
    BY <2>2 DEF SureFits
  <2> QED
    BY <1>1, <1>2, <1>6, <2>1, <2>2, <2>4, <2>5, DataDone
<1>8. CASE ~ok
  <2>1. loads' = loads \ {c} /\ srv' = srv /\ dashboard' = dashboard
    BY <1>1, <1>8 DEF again
  <2> QED
    BY <1>1, <1>2, <1>6, <2>1, DataSame
<1> QED
  BY <1>7, <1>8

\* Another session moves an item or turns its star over.
LEMMA DataElsewhere ==
  ASSUME DataInv, NEW i \in Entries, Data!Elsewhere(i)
  PROVE  DataInv'
<1>1. /\ dashboard \in Data!Page /\ srv \in [at : [Entries -> Data!Place], stars : SUBSET Entries]
      /\ loads \subseteq Data!Calls /\ acts \in 0..MaxActs /\ dashboard.wish \in [Entries -> {"add", "remove", "none"}]
      /\ srv.at \in [Entries -> Data!Place] /\ srv.stars \subseteq Entries
  BY DataTyped, DataSets
<1> DEFINE w == [dashboard.wish EXCEPT ![i] = "none"]
<1>2. /\ loads' = loads /\ acts' \in 0..MaxActs
      /\ \/ /\ \E p \in Data!Place : srv' = [srv EXCEPT !.at[i] = p]
            /\ dashboard' = [dashboard EXCEPT !.sure = FALSE, !.wish[i] = "none"]
         \/ /\ srv' = [srv EXCEPT !.stars = IF i \in @ THEN @ \ {i} ELSE @ \cup {i}]
            /\ dashboard' = [dashboard EXCEPT !.wish[i] = "none"]
  BY <1>1, ActsBound DEF Data!Elsewhere
<1>3. w \in [Entries -> {"add", "remove", "none"}] /\ w[i] = "none" /\ \A j \in Entries \ {i} : w[j] = dashboard.wish[j]
  BY <1>1
<1>4. CASE /\ \E p \in Data!Place : srv' = [srv EXCEPT !.at[i] = p]
           /\ dashboard' = [dashboard EXCEPT !.sure = FALSE, !.wish[i] = "none"]
  <2>1. PICK p \in Data!Place : srv' = [srv EXCEPT !.at[i] = p]
    BY <1>4
  <2> DEFINE a == [srv.at EXCEPT ![i] = p]
  <2>2. a \in [Entries -> Data!Place]
    BY <1>1, <2>1
  <2>3. srv' = [srv EXCEPT !.at = a]
    BY <1>1, <2>1
  <2>4. dashboard' = [dashboard EXCEPT !.sure = FALSE, !.wish = w]
    BY <1>1, <1>4, DataSets
  <2> HIDE DEF a, w
  <2>5. srv' \in [at : [Entries -> Data!Place], stars : SUBSET Entries] /\ srv'.stars = srv.stars
    BY <1>1, <2>2, <2>3
  <2>6. dashboard' \in Data!Page /\ ~dashboard'.sure /\ dashboard'.wish = w
    BY <1>1, <1>3, <2>4, DataSets
  <2>7. WishFits(srv', dashboard', loads')
    <3>1. \A j \in Entries : dashboard'.wish[j] # "none" => dashboard'.wish[j] = dashboard.wish[j]
      BY <1>3, <2>6
    <3> QED
      BY <1>2, <2>5, <3>1, DataTyped, WishKept
  <2>8. SureFits(srv', dashboard', loads')
    BY <2>6 DEF SureFits
  <2> QED
    BY <1>1, <1>2, <2>5, <2>6, <2>7, <2>8, DataDone
<1>5. CASE /\ srv' = [srv EXCEPT !.stars = IF i \in @ THEN @ \ {i} ELSE @ \cup {i}]
           /\ dashboard' = [dashboard EXCEPT !.wish[i] = "none"]
  <2> DEFINE st == IF i \in srv.stars THEN srv.stars \ {i} ELSE srv.stars \cup {i}
  <2>1. srv' = [srv EXCEPT !.stars = st]
    BY <1>1, <1>5
  <2>2. st \subseteq Entries /\ \A j \in Entries \ {i} : j \in st <=> j \in srv.stars
    BY <1>1
  <2>3. dashboard' = [dashboard EXCEPT !.wish = w]
    BY <1>1, <1>5, DataSets
  <2> HIDE DEF st, w
  <2>4. srv' \in [at : [Entries -> Data!Place], stars : SUBSET Entries] /\ srv'.stars = st /\ srv'.at = srv.at
    BY <1>1, <2>1, <2>2
  <2>5. /\ dashboard' \in Data!Page /\ dashboard'.wish = w /\ dashboard'.sure = dashboard.sure
        /\ dashboard'.rows = dashboard.rows /\ dashboard'.cur = dashboard.cur /\ dashboard'.hasMore = dashboard.hasMore
    BY <1>1, <1>3, <2>3, DataSets
  <2>6. WishFits(srv', dashboard', loads')
    <3>1. WishFits(srv, dashboard, loads)
      BY DataTyped
    <3> QED
      BY <1>2, <1>3, <2>2, <2>4, <2>5, <3>1 DEF WishFits
  <2>7. SureFits(srv', dashboard', loads')
    BY <1>2, <2>4, <2>5, DataTyped, SureKept
  <2> QED
    BY <1>1, <1>2, <2>4, <2>5, <2>6, <2>7, DataDone
<1> QED
  BY <1>2, <1>4, <1>5

\* A click on the star of some items.
LEMMA DataToggle ==
  ASSUME DataInv, NEW targets \in SUBSET Entries, Data!OnToggleFavorite(targets)
  PROVE  DataInv'
<1>1. /\ dashboard \in Data!Page /\ loads \subseteq Data!Calls /\ dashboard.cur \in {root, sub}
      /\ dashboard.wish \in [Entries -> {"add", "remove", "none"}] /\ dashboard.stars \subseteq Entries
      /\ WishFits(srv, dashboard, loads) /\ srv.stars \subseteq Entries
      /\ srv \in [at : [Entries -> Data!Place], stars : SUBSET Entries]
  BY DataTyped, DataSets
<1> DEFINE free == Data!Known /\ \A d \in loads : d.to # "star"
<1> DEFINE w == [i \in Entries |-> IF i \notin targets THEN dashboard.wish[i]
                                   ELSE IF free THEN Data!Wanted(targets) ELSE "none"]
<1> DEFINE T == Data!Toggled(targets)
<1> DEFINE c == [to |-> "star", left |-> T, ok |-> TRUE, at |-> dashboard.cur]
<1>2. Data!Wanted(targets) = (IF targets \subseteq dashboard.favorites THEN "remove" ELSE "add")
  BY DEF Data!Wanted
<1>3. /\ targets \subseteq dashboard.stars => T = targets
      /\ ~(targets \subseteq dashboard.stars) => T = targets \ dashboard.stars
      /\ T \subseteq targets
  BY DEF Data!Toggled
<1>4. \A i \in targets : dashboard.rows[i] # Gone
  BY <1>1, PlacesAssumption DEF Data!OnToggleFavorite
<1>5. free => /\ targets \subseteq dashboard.stars <=> targets \subseteq srv.stars
              /\ targets \subseteq dashboard.favorites <=> targets \subseteq srv.stars
              /\ targets \cap dashboard.stars = targets \cap srv.stars
  BY <1>1, <1>4 DEF Data!Known, Data!Item, Entries
<1>6. /\ dashboard' = [dashboard EXCEPT !.wish = w] /\ loads' = loads \cup {c} /\ srv' = srv /\ acts' \in 0..MaxActs
  <2>1. Data!Act([dashboard EXCEPT !.wish = w], {c})
    BY <1>1 DEF Data!OnToggleFavorite, Data!Item, Entries
  <2> HIDE DEF w, c
  <2> QED
    BY <2>1, DataAct
<1>7. /\ w \in [Entries -> {"add", "remove", "none"}]
      /\ \A i \in Entries \ targets : w[i] = dashboard.wish[i]
      /\ \A i \in targets : w[i] # "none" => free /\ w[i] = (IF targets \subseteq dashboard.favorites THEN "remove" ELSE "add")
  BY <1>1, <1>2
<1>8. c \in StarCalls /\ c.to = "star" /\ c.left = T
  BY <1>1, <1>3 DEF StarCalls
<1> HIDE DEF w, c, T
<1>9. /\ dashboard' \in Data!Page /\ dashboard'.wish = w /\ dashboard'.sure = dashboard.sure
      /\ dashboard'.rows = dashboard.rows /\ dashboard'.cur = dashboard.cur /\ dashboard'.hasMore = dashboard.hasMore
  BY <1>1, <1>6, <1>7, DataSets
<1>10. ASSUME NEW i \in Entries, w[i] # "none"
       PROVE  /\ (w[i] = "add" <=> i \in srv.stars) <=> Turning(loads', i) = {}
              /\ \A d, e \in Turning(loads', i) : d = e
  <2>1. CASE i \notin targets
    <3>1. i \notin c.left
      BY <1>3, <1>8, <2>1
    <3>2. Turning(loads', i) = Turning(loads, i)
      BY <1>6, <3>1 DEF Turning
    <3>3. w[i] = dashboard.wish[i]
      BY <1>7, <2>1
    <3> QED
      BY <1>1, <1>10, <3>2, <3>3 DEF WishFits
  <2>2. CASE i \in targets
    <3>1. free /\ w[i] = (IF targets \subseteq srv.stars THEN "remove" ELSE "add")
      BY <1>5, <1>7, <1>10, <2>2
    <3>2. Turning(loads', i) = IF i \in T THEN {c} ELSE {}
      BY <1>6, <1>8, <3>1 DEF Turning
    <3>3. CASE targets \subseteq srv.stars
      <4>1. i \in T /\ i \in srv.stars /\ w[i] # "add"
        BY <1>3, <1>5, <2>2, <3>1, <3>3
      <4> QED
        BY <3>2, <4>1
    <3>4. CASE ~(targets \subseteq srv.stars)
      <4>1. (i \in T <=> i \notin srv.stars) /\ w[i] = "add"
        BY <1>3, <1>5, <2>2, <3>1, <3>4
      <4> QED
        BY <3>2, <4>1
    <3> QED
      BY <3>3, <3>4
  <2> QED
    BY <2>1, <2>2
<1>11. WishFits(srv', dashboard', loads')
  BY <1>6, <1>9, <1>10 DEF WishFits
<1>12. SureFits(srv', dashboard', loads')
  <2>1. \A d \in loads' : d.to = "files" => d \in loads
    BY <1>6, <1>8
  <2> QED
    BY <1>6, <1>9, <2>1, DataTyped, SureKept
<1>13. loads' \subseteq Data!Calls
  BY <1>1, <1>6, <1>8, DataCalls
<1> QED
  BY <1>1, <1>6, <1>9, <1>11, <1>12, <1>13, DataDone

\* One of the requests of a click is done or refused.
LEMMA DataStarred ==
  ASSUME DataInv, NEW c \in loads, NEW i \in Entries, NEW ok \in BOOLEAN, Data!Starred(c, i, ok)
  PROVE  DataInv'
<1>1. /\ dashboard \in Data!Page /\ loads \subseteq Data!Calls
      /\ dashboard.wish \in [Entries -> {"add", "remove", "none"}]
      /\ WishFits(srv, dashboard, loads) /\ srv.stars \subseteq Entries /\ acts \in 0..MaxActs
      /\ srv \in [at : [Entries -> Data!Place], stars : SUBSET Entries]
  BY DataTyped, DataSets
<1> DEFINE good == ok /\ srv.at[i] # Gone
<1> DEFINE st == IF i \in srv.stars THEN srv.stars \ {i} ELSE srv.stars \cup {i}
<1> DEFINE w == [dashboard.wish EXCEPT ![i] = "none"]
<1> DEFINE o == c.ok /\ good
<1> DEFINE d == [c EXCEPT !.left = c.left \ {i}, !.ok = o]
<1>2. /\ c.to = "star" /\ i \in c.left /\ acts' = acts /\ loads' = (loads \ {c}) \cup {d}
      /\ srv' = IF good THEN [srv EXCEPT !.stars = st] ELSE srv
      /\ dashboard' = IF good THEN dashboard ELSE [dashboard EXCEPT !.wish = w]
  <2>1. c.to = "star" /\ i \in c.left /\ acts' = acts
    BY DEF Data!Starred
  <2>2. c \in StarCalls
    BY <1>1, <2>1, DataCalls
  <2>3. loads' = (loads \ {c}) \cup {d}
    BY <2>2 DEF Data!Starred, StarCalls
  <2>4. srv' = IF good THEN [srv EXCEPT !.stars = st] ELSE srv
    BY <1>1 DEF Data!Starred
  <2>5. dashboard' = IF good THEN dashboard ELSE [dashboard EXCEPT !.wish = w]
    BY <1>1, DataSets DEF Data!Starred
  <2> QED
    BY <2>1, <2>3, <2>4, <2>5
<1>3. c \in StarCalls
  BY <1>1, <1>2, DataCalls
<1>4. o \in BOOLEAN
  OBVIOUS
<1> HIDE DEF o
<1>5. d \in StarCalls /\ d.to = "star" /\ d.left = c.left \ {i}
  BY <1>3, <1>4 DEF StarCalls
<1>6. /\ w \in [Entries -> {"add", "remove", "none"}] /\ w[i] = "none"
      /\ \A j \in Entries \ {i} : w[j] = dashboard.wish[j]
  BY <1>1
<1>7. st \subseteq Entries /\ (i \in st <=> i \notin srv.stars) /\ \A j \in Entries \ {i} : j \in st <=> j \in srv.stars
  BY <1>1
<1> HIDE DEF d, w, st
<1>8. /\ loads' \subseteq Data!Calls /\ \A e \in loads' : e.to = "files" => e \in loads
  BY <1>1, <1>2, <1>5, DataCalls
<1>9. ASSUME NEW j \in Entries, j # i, \A a, b \in Turning(loads, j) : a = b
      PROVE  /\ Turning(loads', j) = {} <=> Turning(loads, j) = {}
             /\ \A a, b \in Turning(loads', j) : a = b
  <2>1. j \in d.left <=> j \in c.left
    BY <1>5, <1>9
  <2>2. CASE j \in c.left
    <3>1. c \in Turning(loads, j) /\ Turning(loads, j) = {c}
      BY <1>2, <1>9, <2>2 DEF Turning
    <3>2. Turning(loads', j) = {d}
      BY <1>2, <1>5, <2>1, <2>2, <3>1 DEF Turning
    <3> QED
      BY <3>1, <3>2
  <2>3. CASE j \notin c.left
    <3>1. Turning(loads', j) = Turning(loads, j)
      BY <1>2, <2>1, <2>3 DEF Turning
    <3> QED
      BY <1>9, <3>1
  <2> QED
    BY <2>2, <2>3
<1>10. CASE good
  <2>1. dashboard' = dashboard /\ srv' = [srv EXCEPT !.stars = st]
    BY <1>2, <1>10
  <2>2. srv' \in [at : [Entries -> Data!Place], stars : SUBSET Entries] /\ srv'.stars = st /\ srv'.at = srv.at
    BY <1>1, <1>7, <2>1
  <2>3. ASSUME NEW j \in Entries, dashboard.wish[j] # "none"
        PROVE  /\ (dashboard.wish[j] = "add" <=> j \in st) <=> Turning(loads', j) = {}
               /\ \A a, b \in Turning(loads', j) : a = b
    <3>1. /\ (dashboard.wish[j] = "add" <=> j \in srv.stars) <=> Turning(loads, j) = {}
          /\ \A a, b \in Turning(loads, j) : a = b
      BY <1>1, <2>3 DEF WishFits
    <3>2. CASE j = i
      <4>1. Turning(loads, j) = {c}
        BY <1>2, <3>1, <3>2 DEF Turning
      <4>2. Turning(loads', j) = {}
        BY <1>2, <1>5, <3>2, <4>1 DEF Turning
      <4> QED
        BY <1>7, <3>1, <3>2, <4>1, <4>2
    <3>3. CASE j # i
      BY <1>7, <1>9, <3>1, <3>3
    <3> QED
      BY <3>2, <3>3
  <2>4. WishFits(srv', dashboard', loads')
    BY <2>1, <2>2, <2>3 DEF WishFits
  <2>5. SureFits(srv', dashboard', loads')
    <3>1. SureFits(srv, dashboard, loads)
      BY DataTyped
    <3>2. /\ srv'.at = srv.at /\ dashboard'.sure = dashboard.sure /\ dashboard'.rows = dashboard.rows
          /\ dashboard'.cur = dashboard.cur /\ dashboard'.hasMore = dashboard.hasMore
      BY <2>1, <2>2
    <3> QED
      BY <1>8, <3>1, <3>2, SureKept
  <2> QED
    BY <1>1, <1>2, <1>8, <2>1, <2>2, <2>4, <2>5, DataDone
<1>11. CASE ~good
  <2>1. srv' = srv /\ dashboard' = [dashboard EXCEPT !.wish = w]
    BY <1>2, <1>11
  <2>2. /\ dashboard' \in Data!Page /\ dashboard'.wish = w /\ dashboard'.sure = dashboard.sure
        /\ dashboard'.rows = dashboard.rows /\ dashboard'.cur = dashboard.cur /\ dashboard'.hasMore = dashboard.hasMore
    BY <1>1, <1>6, <2>1, DataSets
  <2>3. ASSUME NEW j \in Entries, w[j] # "none"
        PROVE  /\ (w[j] = "add" <=> j \in srv.stars) <=> Turning(loads', j) = {}
               /\ \A a, b \in Turning(loads', j) : a = b
    <3>1. j # i /\ w[j] = dashboard.wish[j]
      BY <1>6, <2>3
    <3> QED
      BY <1>1, <1>9, <2>3, <3>1 DEF WishFits
  <2>4. WishFits(srv', dashboard', loads')
    BY <2>1, <2>2, <2>3 DEF WishFits
  <2>5. SureFits(srv', dashboard', loads')
    <3>1. SureFits(srv, dashboard, loads)
      BY DataTyped
    <3>2. /\ srv'.at = srv.at /\ dashboard'.sure = dashboard.sure /\ dashboard'.rows = dashboard.rows
          /\ dashboard'.cur = dashboard.cur /\ dashboard'.hasMore = dashboard.hasMore
      BY <2>1, <2>2
    <3> QED
      BY <1>8, <3>1, <3>2, SureKept
  <2> QED
    BY <1>1, <1>2, <1>8, <2>1, <2>2, <2>4, <2>5, DataDone
<1> QED
  BY <1>10, <1>11

\* All of them are.
LEMMA DataAllStarred ==
  ASSUME DataInv, NEW c \in loads, Data!AllStarred(c)
  PROVE  DataInv'
<1> DEFINE again == IF c.ok THEN {Data!Files(c.at, 0, TRUE), Data!Favorites} ELSE {}
<1>1. /\ c.to = "star" /\ c.left = {} /\ UNCHANGED <<srv, dashboard, acts>> /\ loads' = (loads \ {c}) \cup again
  BY DEF Data!AllStarred
<1>2. c \in StarCalls /\ loads \subseteq Data!Calls
  BY <1>1, DataTyped, DataCalls
<1>3. c.at \in {root, sub} /\ 0 \in 0..Newest /\ TRUE \in BOOLEAN
  BY <1>2, EntriesFinite DEF StarCalls
<1>4. /\ Data!Files(c.at, 0, TRUE) \in FileCalls /\ Data!Files(c.at, 0, TRUE).to = "files"
      /\ Data!Files(c.at, 0, TRUE).offset = 0
      /\ Data!Favorites \in FavoriteCalls /\ Data!Favorites.to = "favorites"
  BY <1>3, DataAsked
<1>5. /\ again \subseteq Data!Calls /\ \A d \in again : d.to # "star" /\ (d.to = "files" => d.offset = 0)
  BY <1>4, DataCalls
<1> HIDE DEF again
<1>6. loads' \subseteq Data!Calls
  BY <1>1, <1>2, <1>5
<1>7. \A d \in loads' \ loads : d.to # "star" /\ (d.to = "files" => d.offset = 0)
  BY <1>1, <1>5
<1>8. \A d \in loads \ loads' : d = c
  BY <1>1
<1> QED
  BY <1>1, <1>6, <1>7, <1>8, DataTyped, DataSame

LEMMA DataStep == DataInv /\ [Data!Next]_(Data!vars) => DataInv'
<1> SUFFICES ASSUME DataInv, [Data!Next]_(Data!vars) PROVE DataInv'
  OBVIOUS
<1>1. CASE UNCHANGED Data!vars
  BY <1>1, DataTyped, DataSame DEF Data!vars
<1>2. CASE Data!Next
  BY <1>2, DataServe, DataAnswered, DataAnsweredElse, DataAsks, DataMoved, DataElsewhere, DataToggle, DataStarred,
     DataAllStarred
     DEF Data!Next, Data!Item, Entries
<1> QED
  BY <1>1, <1>2

LEMMA DataHolds == Spec => [](part = "data" => Data!TypeOK /\ Data!NothingHidden /\ Data!FavoriteAsAsked)
<1>1. Init => (part = "data" => DataInv)
  BY DataInit DEF Init
<1>2. ASSUME part = "data" => DataInv, [Next]_vars PROVE (part = "data" => DataInv)'
  <2>1. part' = part /\ (part = "data" => [Data!Next]_(Data!vars))
    BY <1>2 DEF Next, vars, dataVars, Data!vars
  <2> QED
    BY <1>2, <2>1, DataStep
<1>3. DataInv => Data!TypeOK /\ Data!NothingHidden /\ Data!FavoriteAsAsked
  <2> SUFFICES ASSUME DataInv PROVE Data!TypeOK /\ Data!NothingHidden /\ Data!FavoriteAsAsked
    OBVIOUS
  <2>1. Data!TypeOK
    BY DEF DataInv
  <2>2. Data!NothingHidden
    BY DataTyped DEF SureFits, Data!NothingHidden, Data!In, Data!Item, Entries
  <2>3. ASSUME \A c \in loads : c.to # "star", NEW i \in Entries, dashboard.wish[i] # "none"
        PROVE  dashboard.wish[i] = "add" <=> i \in srv.stars
    <3>1. Turning(loads, i) = {}
      BY <2>3 DEF Turning
    <3> QED
      BY <2>3, <3>1, DataTyped DEF WishFits
  <2>4. Data!FavoriteAsAsked
    BY <2>3 DEF Data!FavoriteAsAsked, Data!Item, Entries
  <2> QED
    BY <2>1, <2>2, <2>4
<1> QED
  BY <1>1, <1>2, <1>3, PTL DEF Spec

-----------------------------------------------------------------------------
\* The walk up a tree, which FileManager writes as a recursive function.

\* A finite set of numbers has a least one: the places of its list are all taken, the
\* last one, too.
LEMMA Least ==
  ASSUME NEW S, S \subseteq Int, IsFiniteSet(S), S # {}
  PROVE  \E i \in S : \A j \in S : i <= j
<1> DEFINE N == Cardinality(S)
<1>1. N \in Nat /\ N # 0
  BY FS_CardinalityType, FS_EmptySet
<1>2. ASSUME NEW i \in S
      PROVE  Before(S, i) \in Nat /\ Before(S, i) <= N - 1 /\ (Before(S, i) = N - 1 => \A j \in S : i <= j)
  <2> DEFINE A == {j \in S : j > i}
  <2>1. A \subseteq S \ {i}
    BY <1>2
  <2>2. IsFiniteSet(S \ {i}) /\ Cardinality(S \ {i}) = N - 1
    BY FS_RemoveElement
  <2>3. Before(S, i) = Cardinality(A)
    BY DEF Before
  <2> HIDE DEF A
  <2> HIDE DEF N
  <2>4. Cardinality(A) \in Nat /\ Cardinality(A) <= N - 1 /\ (Cardinality(A) = N - 1 => A = S \ {i})
    <3> DEFINE B == S \ {i}
    <3>1. A \subseteq B /\ IsFiniteSet(B) /\ Cardinality(B) = N - 1
      BY <2>1, <2>2
    <3> HIDE DEF B
    <3>2. IsFiniteSet(A) /\ Cardinality(A) <= Cardinality(B) /\ (Cardinality(A) = Cardinality(B) => A = B)
      BY <3>1, FS_Subset
    <3>3. Cardinality(A) \in Nat
      BY <3>2, FS_CardinalityType
    <3> QED
      BY <3>1, <3>2, <3>3 DEF B
  <2>5. ASSUME A = S \ {i}, NEW j \in S PROVE i <= j
    <3>1. i \in Int /\ j \in Int
      OBVIOUS
    <3>2. j = i \/ j > i
      BY <2>5 DEF A
    <3> QED
      BY <3>1, <3>2
  <2> QED
    BY <2>3, <2>4, <2>5
<1> DEFINE L == {i \in S : 0 <= Before(S, i) /\ Before(S, i) < 0 + (N - 1)}
<1>3. IsFiniteSet(L) /\ Cardinality(L) <= N - 1
  <2> HIDE DEF N
  <2>1. PICK k, z : k = N - 1 /\ z = 0
    OBVIOUS
  <2>2. k \in Nat /\ z \in Nat
    BY <1>1, <2>1
  <2>3. IsFiniteSet(Ranks(S, z, k)) /\ Cardinality(Ranks(S, z, k)) <= k
    BY <2>2, Ranked
  <2>4. Ranks(S, z, k) = L
    BY <2>1 DEF Ranks
  <2> HIDE DEF L
  <2> QED
    BY <2>1, <2>3, <2>4
<1>4. L # S
  <2>1. N = Cardinality(S)
    OBVIOUS
  <2> HIDE DEF L, N
  <2>2. Cardinality(L) <= N - 1 /\ N \in Nat
    BY <1>1, <1>3
  <2>3. ~(N <= N - 1)
    BY <2>2
  <2> QED
    BY <2>1, <2>2, <2>3
<1>5. PICK i \in S : i \notin L
  BY <1>4
<1>6. Before(S, i) = N - 1
  <2> HIDE DEF N
  <2> QED
    BY <1>1, <1>2, <1>5
<1> QED
  BY <1>2, <1>6

Above(parent, x) == IF x \in DOMAIN parent THEN parent[x] ELSE x
IsWalk(up, parent, t, n) == up = [k \in 0..n |-> IF k = 0 THEN t ELSE Above(parent, up[k - 1])]

\* What is not so for all steps of a walk is not so for the first of some.
LEMMA FirstOf ==
  ASSUME NEW n \in Nat, NEW T, T \subseteq 0..n, T # {}, 0 \notin T
  PROVE  \E k \in 1..n : k \in T /\ k - 1 \in 0..n /\ k - 1 \notin T
<1>1. T \subseteq Int /\ IsFiniteSet(T)
  <2> DEFINE I == 0..n
  <2>1. 0 \in Int /\ n \in Int
    OBVIOUS
  <2>2. IsFiniteSet(I)
    BY <2>1, FS_Interval
  <2>3. T \subseteq I /\ I \subseteq Int
    OBVIOUS
  <2> HIDE DEF I
  <2>4. IsFiniteSet(T)
    BY <2>2, <2>3, FS_Subset
  <2> QED
    BY <2>3, <2>4
<1>2. PICK k \in T : \A j \in T : k <= j
  BY <1>1, Least
<1>3. k \in 0..n /\ k # 0
  BY <1>2
<1>4. k \in 1..n /\ k - 1 \in 0..n /\ ~(k <= k - 1)
  BY <1>3
<1> QED
  BY <1>2, <1>4

LEMMA WalkStep ==
  ASSUME NEW n \in Nat, NEW up, NEW parent, NEW t, IsWalk(up, parent, t, n)
  PROVE  /\ DOMAIN up = 0..n /\ up[0] = t
         /\ \A k \in 1..n : up[k] = Above(parent, up[k - 1])
<1> DEFINE F == [k \in 0..n |-> IF k = 0 THEN t ELSE Above(parent, up[k - 1])]
<1>1. up = F
  BY DEF IsWalk
<1>2. F[0] = t /\ DOMAIN F = 0..n
  OBVIOUS
<1>3. \A k \in 1..n : k \in 0..n /\ k # 0
  OBVIOUS
<1>4. \A k \in 1..n : F[k] = Above(parent, up[k - 1])
  BY <1>3
<1> HIDE DEF F
<1> QED
  BY <1>1, <1>2, <1>4

LEMMA WalkExists ==
  ASSUME NEW n \in Nat, NEW parent, NEW t
  PROVE  \E up : IsWalk(up, parent, t, n)
<1> DEFINE T == {m \in 0..n : ~\E up : IsWalk(up, parent, t, m)}
<1>1. 0 \notin T
  <2> DEFINE up == [k \in 0..0 |-> t]
  <2>1. up = [k \in 0..0 |-> IF k = 0 THEN t ELSE Above(parent, up[k - 1])]
    <3>1. \A k \in 0..0 : k = 0
      OBVIOUS
    <3> QED
      BY <3>1
  <2> HIDE DEF up
  <2> QED
    BY <2>1 DEF IsWalk
<1>2. ASSUME T # {} PROVE FALSE
  <2>1. T \subseteq 0..n
    OBVIOUS
  <2>2. PICK m \in 1..n : m \in T /\ m - 1 \in 0..n /\ m - 1 \notin T
    <3> HIDE DEF T
    <3> QED
      BY <1>1, <1>2, <2>1, FirstOf
  <2>3. PICK u : IsWalk(u, parent, t, m - 1)
    BY <2>2
  <2> DEFINE up == [k \in 0..m |-> IF k = m THEN Above(parent, u[m - 1]) ELSE u[k]]
  <2>4. m - 1 \in Nat /\ m \in Nat /\ m # 0
    BY <2>2
  <2>5. u[0] = t /\ \A k \in 1..(m - 1) : u[k] = Above(parent, u[k - 1])
    BY <2>3, <2>4, WalkStep
  <2>6. \A k \in 0..m : k # m => k \in 0..(m - 1) /\ up[k] = u[k]
    BY <2>4
  <2>7. ASSUME NEW k \in 0..m PROVE up[k] = IF k = 0 THEN t ELSE Above(parent, up[k - 1])
    <3>1. CASE k = 0
      BY <2>4, <2>5, <2>6, <3>1
    <3>2. CASE k # 0
      <4>1. k - 1 \in 0..m /\ k - 1 # m
        BY <2>4, <3>2
      <4>2. up[k - 1] = u[k - 1]
        BY <2>6, <4>1
      <4>3. CASE k = m
        BY <4>2, <4>3, <3>2
      <4>4. CASE k # m
        <5>1. k \in 1..(m - 1)
          BY <2>4, <3>2, <4>4
        <5> HIDE DEF up
        <5> QED
          BY <2>5, <2>6, <3>2, <4>2, <4>4, <5>1
      <4> QED
        BY <4>3, <4>4
    <3> QED
      BY <3>1, <3>2
  <2>8. up = [k \in 0..m |-> up[k]]
    OBVIOUS
  <2> HIDE DEF up
  <2>9. up = [k \in 0..m |-> IF k = 0 THEN t ELSE Above(parent, up[k - 1])]
    BY <2>7, <2>8
  <2> QED
    BY <2>2, <2>9 DEF IsWalk
<1>3. n \in 0..n
  OBVIOUS
<1> QED
  BY <1>2, <1>3

\* Two walks are the same if they would go on the same everywhere on the first.
LEMMA WalksAgree ==
  ASSUME NEW n \in Nat, NEW t, NEW u, NEW p, NEW v, NEW q, IsWalk(u, p, t, n), IsWalk(v, q, t, n),
         \A k \in 0..n : Above(q, u[k]) = Above(p, u[k])
  PROVE  \A k \in 0..n : v[k] = u[k]
<1> DEFINE T == {k \in 0..n : v[k] # u[k]}
<1>a. /\ u[0] = t /\ v[0] = t
      /\ \A k \in 1..n : u[k] = Above(p, u[k - 1]) /\ v[k] = Above(q, v[k - 1])
  BY WalkStep
<1>1. 0 \notin T /\ T \subseteq 0..n
  BY <1>a
<1>2. ASSUME T # {} PROVE FALSE
  <2>1. PICK k \in 1..n : k \in T /\ k - 1 \in 0..n /\ k - 1 \notin T
    <3> HIDE DEF T
    <3> QED
      BY <1>1, <1>2, FirstOf
  <2>2. v[k - 1] = u[k - 1] /\ v[k] # u[k]
    BY <2>1
  <2> QED
    BY <1>a, <2>1, <2>2
<1> QED
  BY <1>2

\* A walk does not leave a set that is closed.
LEMMA WalkIn ==
  ASSUME NEW n \in Nat, NEW t, NEW u, NEW p, IsWalk(u, p, t, n), NEW S, t \in S, \A x \in S : Above(p, x) \in S
  PROVE  \A k \in 0..n : u[k] \in S
<1> DEFINE T == {k \in 0..n : u[k] \notin S}
<1>a. u[0] = t /\ \A k \in 1..n : u[k] = Above(p, u[k - 1])
  BY WalkStep
<1>1. 0 \notin T /\ T \subseteq 0..n
  BY <1>a
<1>2. ASSUME T # {} PROVE FALSE
  <2>1. PICK k \in 1..n : k \in T /\ k - 1 \in 0..n /\ k - 1 \notin T
    <3> HIDE DEF T
    <3> QED
      BY <1>1, <1>2, FirstOf
  <2>2. u[k - 1] \in S /\ u[k] \notin S
    BY <2>1
  <2> QED
    BY <1>a, <2>1, <2>2
<1> QED
  BY <1>2

LEMMA FilesCardinality == \A S : Files!Cardinality(S) = Cardinality(S)
BY DEF Files!Cardinality, Cardinality

LEMMA DirsCount == Cardinality(Dirs) \in Nat
<1>1. IsFiniteSet({outer}) /\ IsFiniteSet({inner}) /\ IsFiniteSet({deep})
  BY FS_Singleton
<1>2. IsFiniteSet({outer} \cup {inner})
  BY <1>1, FS_Union
<1>3. IsFiniteSet(({outer} \cup {inner}) \cup {deep})
  BY <1>1, <1>2, FS_Union
<1>4. Dirs = ({outer} \cup {inner}) \cup {deep}
  BY DEF Dirs
<1> QED
  BY <1>3, <1>4, FS_CardinalityType

LEMMA UpwardWalk ==
  ASSUME NEW parent, NEW t
  PROVE  LET n == Cardinality(Dirs)
         IN  \E up : IsWalk(up, parent, t, n) /\ Files!Upward(parent, t) = {up[k] : k \in 0..n}
<1> DEFINE n == Cardinality(Dirs)
<1> DEFINE u == CHOOSE up : up = [k \in 0..n |-> IF k = 0 THEN t
                                  ELSE IF up[k - 1] \in DOMAIN parent THEN parent[up[k - 1]] ELSE up[k - 1]]
<1>1. \E up : up = [k \in 0..n |-> IF k = 0 THEN t
                     ELSE IF up[k - 1] \in DOMAIN parent THEN parent[up[k - 1]] ELSE up[k - 1]]
  <2>1. n \in Nat
    BY DirsCount
  <2> HIDE DEF n
  <2>2. PICK up : IsWalk(up, parent, t, n)
    BY <2>1, WalkExists
  <2> QED
    BY <2>2 DEF IsWalk, Above
<1>2. u = [k \in 0..n |-> IF k = 0 THEN t ELSE IF u[k - 1] \in DOMAIN parent THEN parent[u[k - 1]] ELSE u[k - 1]]
  BY <1>1
<1>3. n = Files!Cardinality(Dirs)
  BY FilesCardinality
<1> HIDE DEF n
<1>4. Files!Upward(parent, t) = {u[k] : k \in 0..n}
  BY <1>3, Zenon DEF Files!Upward, Dirs
<1> HIDE DEF u
<1>5. IsWalk(u, parent, t, n)
  BY <1>2 DEF IsWalk, Above
<1>6. \E up : IsWalk(up, parent, t, n) /\ Files!Upward(parent, t) = {up[k] : k \in 0..n}
  BY <1>4, <1>5
<1> QED
  BY <1>6 DEF n

LEMMA UpwardAgrees ==
  ASSUME NEW p, NEW q, NEW t, \A x \in Files!Upward(p, t) : Above(q, x) = Above(p, x)
  PROVE  Files!Upward(q, t) = Files!Upward(p, t)
<1> DEFINE n == Cardinality(Dirs)
<1>1. PICK u : IsWalk(u, p, t, n) /\ Files!Upward(p, t) = {u[k] : k \in 0..n}
  BY UpwardWalk
<1>2. PICK v : IsWalk(v, q, t, n) /\ Files!Upward(q, t) = {v[k] : k \in 0..n}
  BY UpwardWalk
<1>3. n \in Nat
  BY DirsCount
<1> HIDE DEF n
<1>4. \A k \in 0..n : Above(q, u[k]) = Above(p, u[k])
  BY <1>1
<1>5. \A k \in 0..n : v[k] = u[k]
  BY <1>1, <1>2, <1>3, <1>4, WalksAgree
<1> QED
  BY <1>1, <1>2, <1>5

LEMMA UpwardIn ==
  ASSUME NEW p, NEW t, NEW S, t \in S, \A x \in S : Above(p, x) \in S
  PROVE  Files!Upward(p, t) \subseteq S
<1> DEFINE n == Cardinality(Dirs)
<1>1. PICK u : IsWalk(u, p, t, n) /\ Files!Upward(p, t) = {u[k] : k \in 0..n}
  BY UpwardWalk
<1>3. n \in Nat
  BY DirsCount
<1> HIDE DEF n
<1>4. \A k \in 0..n : u[k] \in S
  BY <1>1, <1>3, WalkIn
<1> QED
  BY <1>1, <1>4

\* What a page knows of the way up from a folder, it sees as the server does.
LEMMA KnownRows ==
  ASSUME Files!TypeOK, NEW to, Files!Known(rows, to)
  PROVE  Files!Upward(rows, to) = Files!Upward(disk, to)
<1>1. DOMAIN rows = DOMAIN disk
  BY FilesSets
<1>2. \A d \in Files!Upward(disk, to) \cap DOMAIN rows : rows[d] = disk[d]
  BY DEF Files!Known
<1>3. \A x \in Files!Upward(disk, to) : Above(rows, x) = Above(disk, x)
  BY <1>1, <1>2 DEF Above
<1> QED
  BY <1>3, UpwardAgrees

\* The side bar has folders only, and a way up leads over nothing else.
LEMMA KnownTree ==
  ASSUME Files!TypeOK, NEW to \in Dirs, Files!Known(tree, to)
  PROVE  Files!Upward(tree, to) = Files!Upward(disk, to)
<1>1. disk \in [Items -> Files!Places] /\ DOMAIN tree = Dirs
  BY FilesSets
<1>2. to \in Files!Places /\ Items \cap Files!Places \subseteq Dirs
  BY PlacesAssumption DEF Items, Dirs, Files!Places, Files!Folders
<1>3. \A x \in Files!Places : Above(disk, x) \in Files!Places
  BY <1>1 DEF Above
<1>4. Files!Upward(disk, to) \subseteq Files!Places
  BY <1>2, <1>3, UpwardIn
<1>5. \A d \in Files!Upward(disk, to) \cap Dirs : tree[d] = disk[d]
  BY <1>1 DEF Files!Known
<1>6. \A x \in Files!Upward(disk, to) : Above(tree, x) = Above(disk, x)
  BY <1>1, <1>2, <1>4, <1>5, FilesSets DEF Above
<1> QED
  BY <1>6, UpwardAgrees

LEMMA AboveRoot ==
  ASSUME Files!TypeOK
  PROVE  Files!Upward(disk, Root) \subseteq {Root}
<1>1. DOMAIN disk = Items /\ Root \notin Items
  BY FilesSets, PlacesAssumption DEF Items
<1>2. \A x \in {Root} : Above(disk, x) \in {Root}
  BY <1>1 DEF Above
<1> QED
  BY <1>2, UpwardIn

\* What the handlers of a drop have looked at before they ask for a move.
Looked(op) ==
    \/ op.kind # "move" \/ op.via \in Files!Pastes
    \/ op.via = "row" /\ \A i \in op.ids : i \notin Files!Upward(rows, op.to)
    \/ op.via = "side" /\ op.to = Root
    \/ /\ op.via = "side" /\ op.to \in Dirs
       /\ \A i \in ui.sel : i \notin Files!Upward(tree, op.to)
       /\ \E i \in op.ids : i \notin Files!Upward(tree, op.to)

Asked == \A op \in ops' \ ops : Looked(op)

LEMMA AskedQuiet ==
  ASSUME \/ \E i \in Items : \/ Files!ItemClick(i) \/ Files!DoubleClick(i) \/ Files!ContextMenuOn(i) \/ Files!DragStart(i)
                              \/ \E f \in Files!Folders : Files!SelectListed(i, f)
         \/ \E d \in Dirs : Files!SideClick(d) \/ Files!SideMenu(d) \/ Files!SideDragStart(d)
         \/ \E f \in Files!Folders : Files!CrumbClick(f)
         \/ \E b \in BOOLEAN : Files!MarqueeStart(b) \/ Files!SelectionCopyCut(b)
         \/ Files!ContextMenuOnNothing \/ Files!BackgroundClick \/ Files!DragEnd \/ Files!MarqueeMove \/ Files!MarqueeEnd
         \/ Files!SelectionPill \/ Files!SelectionMore
         \/ Files!CloseMenu \/ Files!MenuCopy \/ Files!MenuCut \/ Files!MenuDelete \/ Files!DelayedAction
         \/ Files!RootClick \/ Files!RootMenu \/ Files!Highlighted \/ Files!HighlightOver
         \/ Files!DialogCancel \/ Files!Alert
         \/ \E op \in ops : Files!Settle(op)
         \/ Files!RowsLoaded \/ Files!TreeLoaded
  PROVE  Asked
<1>1. CASE \E i \in Items : \/ Files!ItemClick(i) \/ Files!DoubleClick(i) \/ Files!ContextMenuOn(i) \/ Files!DragStart(i)
                            \/ \E f \in Files!Folders : Files!SelectListed(i, f)
  <2>1. ops' = ops
    BY <1>1 DEF Files!ItemClick, Files!DoubleClick, Files!ContextMenuOn, Files!DragStart, Files!SelectListed, Files!Input
  <2> QED
    BY <2>1 DEF Asked
<1>2. CASE \/ \E d \in Dirs : Files!SideClick(d) \/ Files!SideMenu(d) \/ Files!SideDragStart(d)
           \/ \E f \in Files!Folders : Files!CrumbClick(f)
           \/ \E b \in BOOLEAN : Files!MarqueeStart(b) \/ Files!SelectionCopyCut(b)
  <2>1. ops' = ops
    BY <1>2 DEF Files!SideClick, Files!SideMenu, Files!SideDragStart, Files!CrumbClick, Files!MarqueeStart,
                Files!SelectionCopyCut, Files!Input
  <2> QED
    BY <2>1 DEF Asked
<1>3. CASE \/ Files!ContextMenuOnNothing \/ Files!BackgroundClick \/ Files!DragEnd \/ Files!MarqueeMove \/ Files!MarqueeEnd
           \/ Files!SelectionPill \/ Files!SelectionMore
           \/ Files!CloseMenu \/ Files!MenuCopy \/ Files!MenuCut \/ Files!MenuDelete \/ Files!DelayedAction
  <2>1. ops' = ops
    BY <1>3 DEF Files!ContextMenuOnNothing, Files!BackgroundClick, Files!DragEnd, Files!MarqueeMove, Files!MarqueeEnd,
                Files!SelectionPill, Files!SelectionMore, Files!CloseMenu, Files!MenuCopy, Files!MenuCut,
                Files!MenuDelete, Files!DelayedAction, Files!Input
  <2> QED
    BY <2>1 DEF Asked
<1>4. CASE \/ Files!RootClick \/ Files!RootMenu \/ Files!Highlighted \/ Files!HighlightOver
           \/ Files!DialogCancel \/ Files!Alert \/ Files!RowsLoaded \/ Files!TreeLoaded
  <2>1. ops' = ops
    BY <1>4 DEF Files!RootClick, Files!RootMenu, Files!Highlighted, Files!HighlightOver, Files!DialogCancel,
                Files!Alert, Files!RowsLoaded, Files!TreeLoaded, Files!Input
  <2> QED
    BY <2>1 DEF Asked
<1>5. CASE \E op \in ops : Files!Settle(op)
  <2>1. ops' \subseteq ops
    BY <1>5 DEF Files!Settle
  <2> QED
    BY <2>1 DEF Asked
<1> QED
  BY <1>1, <1>2, <1>3, <1>4, <1>5

LEMMA AskedPaste ==
  ASSUME Files!KeyDown \/ Files!FloatingPaste \/ Files!MenuPaste
  PROVE  Asked
<1>1. ASSUME NEW v \in Files!Pastes, Files!HandlePaste(v) PROVE Asked
  <2> DEFINE op == [kind |-> IF ui.clip.cut THEN "move" ELSE "copy", ids |-> ui.clip.ids, to |-> ui.cur, via |-> v]
  <2>1. ops' = ops \cup {op}
    BY <1>1 DEF Files!HandlePaste, Files!Request
  <2>2. op.via \in Files!Pastes
    BY <1>1
  <2> QED
    BY <2>1, <2>2 DEF Asked, Looked
<1>2. "paste" \in Files!Pastes /\ "menu_paste" \in Files!Pastes
  BY FilesVias
<1>3. CASE Files!KeyDown
  <2>1. ops' = ops \/ Files!HandlePaste("paste")
    BY <1>3 DEF Files!KeyDown, Files!Input
  <2> QED
    BY <1>1, <1>2, <2>1 DEF Asked
<1> QED
  BY <1>1, <1>2, <1>3 DEF Files!FloatingPaste, Files!MenuPaste

LEMMA AskedDrop ==
  ASSUME \/ \E i \in Items : Files!DropOnFolder(i)
         \/ \E d \in Dirs : Files!SideDrop(d)
         \/ Files!RootDrop \/ Files!DialogConfirm
  PROVE  Asked
<1>1. CASE \E i \in Items : Files!DropOnFolder(i)
  <2>1. PICK f \in Items : Files!DropOnFolder(f)
    BY <1>1
  <2>2. PICK ids \in ui.drag :
          IF \E i \in ids : Files!IsDescendantOrSelf(rows, i, f)
          THEN Files!Input([ui EXCEPT !.drag = {}])
          ELSE Files!Request([kind |-> "move", ids |-> ids, to |-> f, via |-> "row"], [ui EXCEPT !.drag = {}])
    BY <2>1 DEF Files!DropOnFolder
  <2> DEFINE op == [kind |-> "move", ids |-> ids, to |-> f, via |-> "row"]
  <2>3. ops' = ops \/ (ops' = ops \cup {op} /\ ~\E i \in ids : Files!IsDescendantOrSelf(rows, i, f))
    BY <2>2 DEF Files!Input, Files!Request
  <2>4. op.via = "row" /\ op.ids = ids /\ op.to = f
    OBVIOUS
  <2> HIDE DEF op
  <2>5. ops' = ops \/ (ops' = ops \cup {op} /\ Looked(op))
    BY <2>3, <2>4 DEF Looked, Files!IsDescendantOrSelf
  <2> QED
    BY <2>5 DEF Asked
<1>2. CASE \E d \in Dirs : Files!SideDrop(d)
  <2>1. PICK d \in Dirs : Files!SideDrop(d)
    BY <1>2
  <2>2. PICK ids \in ui.drag :
          IF {i \in ids : ~Files!IsDescendantOrSelf(tree, i, d)} # {}
          THEN Files!Request([kind |-> "move", ids |-> ids, to |-> d, via |-> "side"],
                             [ui EXCEPT !.drag = {}, !.moving = TRUE])
          ELSE Files!Input([ui EXCEPT !.drag = {}])
    BY <2>1 DEF Files!SideDrop
  <2> DEFINE op == [kind |-> "move", ids |-> ids, to |-> d, via |-> "side"]
  <2>3. ops' = ops \/ (ops' = ops \cup {op} /\ \E i \in ids : ~Files!IsDescendantOrSelf(tree, i, d))
    BY <2>2 DEF Files!Input, Files!Request
  <2>4. op.via = "side" /\ op.ids = ids /\ op.to = d
    OBVIOUS
  <2>a. \A i \in ui.sel : ~Files!IsDescendantOrSelf(tree, i, d)
    BY <2>1 DEF Files!SideDrop, Files!CanDrop
  <2> HIDE DEF op
  <2>5. ops' = ops \/ (ops' = ops \cup {op} /\ Looked(op))
    BY <2>3, <2>4, <2>a DEF Looked, Files!IsDescendantOrSelf
  <2> QED
    BY <2>5 DEF Asked
<1>3. CASE Files!RootDrop
  <2>1. PICK ids \in ui.drag : Files!Request([kind |-> "move", ids |-> ids, to |-> Root, via |-> "side"],
                                             [ui EXCEPT !.drag = {}, !.moving = TRUE])
    BY <1>3 DEF Files!RootDrop
  <2> DEFINE op == [kind |-> "move", ids |-> ids, to |-> Root, via |-> "side"]
  <2>2. ops' = ops \cup {op}
    BY <2>1 DEF Files!Request
  <2>3. op.via = "side" /\ op.to = Root
    OBVIOUS
  <2> HIDE DEF op
  <2> QED
    BY <2>2, <2>3 DEF Asked, Looked
<1>4. CASE Files!DialogConfirm
  <2> DEFINE op == [kind |-> "delete", ids |-> ui.dialog.ids, to |-> None, via |-> ui.dialog.via]
  <2>1. ops' = ops \/ ops' = ops \cup {op}
    BY <1>4 DEF Files!DialogConfirm, Files!Input, Files!Request
  <2>2. op.kind # "move"
    OBVIOUS
  <2> HIDE DEF op
  <2> QED
    BY <2>1, <2>2 DEF Asked, Looked
<1> QED
  BY <1>1, <1>2, <1>3, <1>4

LEMMA FilesMoves == Files!TypeOK /\ [Files!Next]_(Files!vars) => [Files!MovesConfined]_(Files!vars)
<1> SUFFICES ASSUME Files!TypeOK, Files!Next PROVE Files!MovesConfined
  OBVIOUS
<1>1. Asked
  BY AskedQuiet, AskedPaste, AskedDrop DEF Files!Next, Items, Dirs
<1> SUFFICES ASSUME NEW op \in ops' \ ops, Files!Circular(op)
             PROVE  \/ op.via \in Files!Pastes
                    \/ op.via = "row" /\ ~Files!Known(rows, op.to)
                    \/ op.via = "side" /\ ~Files!Known(tree, op.to)
                    \/ /\ op.via = "side" /\ ui.sel # op.ids
                       /\ \E i \in op.ids : i \notin Files!Upward(disk, op.to)
  BY DEF Files!MovesConfined
<1>2. Looked(op)
  BY <1>1 DEF Asked
<1>3. PICK below \in op.ids \ {op.to} : below \in Files!Upward(disk, op.to)
  BY DEF Files!Circular
<1>4. op.kind = "move"
  BY DEF Files!Circular
<1>5. CASE op.via = "row" /\ \A i \in op.ids : i \notin Files!Upward(rows, op.to)
  BY <1>3, <1>5, KnownRows
<1>6. CASE op.via = "side" /\ op.to = Root
  BY <1>3, <1>6, AboveRoot
<1>7. CASE /\ op.via = "side" /\ op.to \in Dirs
           /\ \A i \in ui.sel : i \notin Files!Upward(tree, op.to)
           /\ \E i \in op.ids : i \notin Files!Upward(tree, op.to)
  BY <1>3, <1>7, KnownTree
<1> QED
  BY <1>2, <1>4, <1>5, <1>6, <1>7 DEF Looked

\* The page asks for a move that puts a folder below itself only where it could not have
\* known, and where what is dragged is not what was looked at (isDescendantOrSelf and its callers).
THEOREM WebCircularConfined == Spec => CircularConfined
<1>1. FilesInv => Files!TypeOK
  BY DEF FilesInv
<1>2. [Next]_vars => [Files!Next]_(Files!vars)
  <2> SUFFICES ASSUME [Next]_vars PROVE [Files!Next]_(Files!vars)
    OBVIOUS
  <2>1. CASE UNCHANGED vars
    BY <2>1 DEF vars, fileVars, Files!vars
  <2>2. CASE Next
    BY <2>2 DEF Next, fileVars, Files!vars
  <2> QED
    BY <2>1, <2>2
<1>3. Spec => [][Files!MovesConfined]_(Files!vars)
  BY <1>1, <1>2, FilesMoves, FilesHolds, PTL DEF Spec
<1> QED
  BY <1>3 DEF CircularConfined, Files!CircularConfined

\* The windows, the list of links and the search show what belongs to their title
\* and their text (ShareModal, ShareAccessLogModal, PreviewModal, refreshShares, useSearch).
THEOREM WebShownFits == Spec => []ShownFits
<1>1. (part = "modals" => Modals!TypeOK /\ Modals!TokenFits /\ Modals!ShownFits)
        /\ (part = "sharing" => Sharing!TypeOK /\ Sharing!ListedFits)
        /\ (Search!TypeOK /\ Search!SearchFits)
      => ShownFits
  BY DEF ShownFits
<1> QED
  BY <1>1, ModalsHold, ListHolds, SearchHolds, PTL

\* A listing that has no more to load has every item of its folder, a click on a star does
\* what the menu said, and an icon does not lose a round of polls, nor poll for what is
\* there or scanned (useDashboardData, handleToggleFavorite, FileIcon).
THEOREM WebRowsFit == Spec => []RowsFit
<1>1. (part = "data" => Data!TypeOK /\ Data!NothingHidden /\ Data!FavoriteAsAsked)
        /\ (Picture!TypeOK /\ Picture!PollingFits)
      => RowsFit
  BY DEF RowsFit
<1> QED
  BY <1>1, DataHolds, PictureHolds, PTL
=============================================================================
