---------------------------- MODULE SharesProofs ----------------------------
(***************************************************************************)
(* Share links and tickets, for any numbers of files, links, visitors and  *)
(* tabs: nothing that was gone is given out, nobody is refused what was on *)
(* offer all along, every visit is logged, and deletions leave no links.   *)
(***************************************************************************)
EXTENDS Shares, TLAPS

\* A token that is out is not given out again: who has it has that link or ticket.
LinksIssued == DOMAIN link \subseteq issued

\* Folders are marked, only files are purged.
FoldersStay == \A i \in Folders : status[i] # "purged"

\* A log has requests that were answered.
LogsAnswered == \A l \in DOMAIN link : \A r \in log[l] : rq[r].at = "done"

\* Which statements the handlers of a visitor run, and with what.
VisitFits(q) ==
    /\ q.at \in {"idle", "done"} <=> q.op = "none"
    /\ q.at \in {"idle", "done", "link", "child", "item", "storage", "folder", "children", "log", "ticket"}
    /\ q.op \in ViaLink \cup {"ticket", "owner", "none"}
    /\ q.via \in issued \cup {None}
    /\ q.op \in ViaLink => q.via \in Links
    /\ q.op = "ticket" => q.via \in Tickets
    /\ q.op = "owner" => q.via = None
    /\ q.at \in {"link", "log"} => q.op \in ViaLink
    /\ q.at = "child" => q.op = "download"
    /\ q.at = "item" => q.op \in {"info"} \cup Fetches
    /\ q.at = "storage" => q.op \in Fetches /\ q.item \in Files
    /\ q.at \in {"folder", "children"} => q.op = "list"
    /\ q.at = "ticket" => q.op = "ticket"
    /\ q.at \in {"child", "item", "storage", "folder", "children"} \/ q.op = "download" => q.item \in Items
    /\ q.at \notin {"storage", "log"} => q.keeps \cap Contents = {}

\* Which the owner's tabs run; the links they will insert are new, and a deletion has
\* found the links of all that it deletes.
CommandFits(c) ==
    LET q == rq[c]
    IN  /\ q.at \in {"idle", "item", "issue", "tell", "insert", "commit", "overwrite", "remove", "replace", "release"}
        /\ q.op = "create" => /\ q.via \in Links \ issued
                              /\ \A x \in Commands \ {c} : rq[x].op = "create" => rq[x].via # q.via
        /\ q.at = "item" => q.op \in {"mint", "create"}
        /\ q.at = "insert" => q.op = "create"
        /\ q.at = "tell" => q.via \in Tickets
        /\ q.at = "issue" => q.op = "mint"
        /\ q.op = "mint" => q.item \in Files
        /\ q.at \in {"item", "insert", "overwrite", "remove"} => q.item \in Items
        /\ q.at = "commit" => \A l \in DOMAIN link \ stray : link[l].item \in q.keeps => l \in q.keeps

\* What has been gone all along, G, is gone now, and nothing that has been read is of it.
GoneFits(q, G) ==
    q.op # "none" =>
        /\ G \subseteq Items \cup Contents \cup ({q.via} \ {None})
        /\ \A i \in G \cap Items : ~ Live(i) \/ (q.op \in {"ticket", "owner"} /\ i \in Files /\ Expired(i))
        /\ G \cap Contents \subseteq infected
        /\ q.via \in G => ~ Usable(q.via) /\ ~ Valid(q.via)
        /\ q.at \notin {"link", "ticket"} => q.via \notin G
        /\ q.at = "storage" => q.item \notin G
        /\ q.at = "log" => (q.shown \cup (q.keeps \cap Contents)) \cap G = {}
        /\ q.at # "log" => q.shown = {}

\* While all that is asked for is on offer, what has been read of it is still so.
OfferFits(q) ==
    /\ q.at = "child" => q.keeps = {link[q.via].item} /\ q.item # link[q.via].item
    /\ q.at \in {"folder", "children"} => q.item = link[q.via].item
    /\ q.at = "item" /\ q.op = "info" => q.item = link[q.via].item
    /\ q.at \in {"item", "storage"} /\ q.op = "ticket" => q.item = ticket[q.via].file
    /\ q.at = "storage" => q.keeps = {content[q.item]}

IInv ==
    /\ TypeOK /\ LinksIssued /\ FoldersStay /\ LogsAnswered
    /\ VisitsAreLogged /\ DeletedHaveNoLinks
    /\ \A r \in Visits :
         /\ VisitFits(rq[r]) /\ GoneFits(rq[r], gone[r])
         /\ rq[r].op # "none" /\ whole[r] => OnOffer(r) /\ OfferFits(rq[r])
    /\ \A c \in Commands : CommandFits(c)

\* The answer of a visit that ends now.
EndsWell(r) ==
    Ends(r) => /\ rq'[r].reply \in {"served", "unlogged"} => gone[r] \cap Handed(r) = {}
               /\ rq'[r].reply = "refused" => ~ whole[r]

AllEndWell == \A r \in Visits : EndsWell(r)

-----------------------------------------------------------------------------
\* A request that has gone on.
With(q, at, item, keeps, shown) ==
    [op |-> q.op, at |-> at, via |-> q.via, item |-> item, keeps |-> keeps, until |-> q.until,
     shown |-> shown, reply |-> q.reply]

Kept == SUBSET (Items \cup Links \cup Contents)
Shown == SUBSET Items

LEMMA WithFacts ==
    ASSUME NEW q \in Asked, NEW at \in Steps, NEW item \in Items \cup {None}, NEW keeps \in Kept,
           NEW out \in Shown
    PROVE  With(q, at, item, keeps, out) \in Asked
  BY DEF With, Asked, Kept, Shown

\* How the handlers go on, as records.
LEMMA GoesOn ==
    ASSUME NEW q \in Asked, NEW at \in Steps
    PROVE  /\ [q EXCEPT !.at = at] = With(q, at, q.item, q.keeps, q.shown)
           /\ [q EXCEPT !.at = at] \in Asked
  <1>1. [q EXCEPT !.at = at] = With(q, at, q.item, q.keeps, q.shown)
    BY DEF With, Asked
  <1>2. [q EXCEPT !.at = at] \in Asked
    BY DEF Asked
  <1> QED
    BY <1>1, <1>2

LEMMA Sets ==
    ASSUME NEW q \in Asked, NEW item, NEW keeps, NEW out
    PROVE  /\ [q EXCEPT !.item = item] = With(q, q.at, item, q.keeps, q.shown)
           /\ [q EXCEPT !.keeps = keeps] = With(q, q.at, q.item, keeps, q.shown)
           /\ [q EXCEPT !.shown = out] = With(q, q.at, q.item, q.keeps, out)
  <1>1. [q EXCEPT !.item = item] = With(q, q.at, item, q.keeps, q.shown)
    BY DEF With, Asked
  <1>2. [q EXCEPT !.keeps = keeps] = With(q, q.at, q.item, keeps, q.shown)
    BY DEF With, Asked
  <1>3. [q EXCEPT !.shown = out] = With(q, q.at, q.item, q.keeps, out)
    BY DEF With, Asked
  <1> QED
    BY <1>1, <1>2, <1>3

LEMMA MovesOn ==
    ASSUME NEW q \in Asked, NEW at \in Steps, NEW item \in Items \cup {None}
    PROVE  [q EXCEPT !.at = at, !.item = item] = With(q, at, item, q.keeps, q.shown)
  <1> DEFINE a == [q EXCEPT !.at = at]
  <1>1. a = With(q, at, q.item, q.keeps, q.shown) /\ a \in Asked
    BY GoesOn
  <1> HIDE DEF a
  <1>2. [a EXCEPT !.item = item] = With(q, at, item, q.keeps, q.shown)
    BY <1>1, Sets DEF With
  <1> QED
    BY <1>2 DEF a

LEMMA HoldsOn ==
    ASSUME NEW q \in Asked, NEW at \in Steps, NEW keeps \in Kept
    PROVE  [q EXCEPT !.at = at, !.keeps = keeps] = With(q, at, q.item, keeps, q.shown)
  <1> DEFINE a == [q EXCEPT !.at = at]
  <1>1. a = With(q, at, q.item, q.keeps, q.shown) /\ a \in Asked
    BY GoesOn
  <1> HIDE DEF a
  <1>2. [a EXCEPT !.keeps = keeps] = With(q, at, q.item, keeps, q.shown)
    BY <1>1, Sets DEF With
  <1> QED
    BY <1>2 DEF a

LEMMA ShowsOn ==
    ASSUME NEW q \in Asked, NEW at \in Steps, NEW out \in Shown
    PROVE  [q EXCEPT !.at = at, !.shown = out] = With(q, at, q.item, q.keeps, out)
  <1> DEFINE a == [q EXCEPT !.at = at]
  <1>1. a = With(q, at, q.item, q.keeps, q.shown) /\ a \in Asked
    BY GoesOn
  <1> HIDE DEF a
  <1>2. [a EXCEPT !.shown = out] = With(q, at, q.item, q.keeps, out)
    BY <1>1, Sets DEF With
  <1> QED
    BY <1>2 DEF a

LEMMA ReadsOn ==
    ASSUME NEW q \in Asked, NEW at \in Steps, NEW item \in Items \cup {None}, NEW keeps \in Kept
    PROVE  [q EXCEPT !.at = at, !.keeps = keeps, !.item = item] = With(q, at, item, keeps, q.shown)
  <1> DEFINE b == [q EXCEPT !.at = at, !.keeps = keeps]
  <1>1. q.item \in Items \cup {None} /\ q.shown \in Shown
    BY DEF Asked, Shown
  <1>2. b = With(q, at, q.item, keeps, q.shown)
    BY HoldsOn
  <1> HIDE DEF b
  <1>3. b \in Asked
    BY <1>1, <1>2, WithFacts
  <1>4. [b EXCEPT !.item = item] = With(q, at, item, keeps, q.shown)
    BY <1>2, <1>3, Sets DEF With
  <1> QED
    BY <1>4 DEF b

LEMMA IdleFacts ==
    /\ Idle \in Asked /\ Idle.op = "none" /\ Idle.at = "idle" /\ Idle.via = None /\ Idle.item = None
    /\ Idle.keeps = {} /\ Idle.until = 0 /\ Idle.shown = {} /\ Idle.reply = "none"
  BY DEF Idle, Asked, Steps

\* A request that begins, and one that is answered.
Begun(op, first, via, item) == [Idle EXCEPT !.op = op, !.at = first, !.via = via, !.item = item]

LEMMA BegunFacts ==
    ASSUME NEW op \in Ops, NEW first \in Steps, NEW via \in Links \cup Tickets \cup {None},
           NEW item \in Items \cup {None}
    PROVE  /\ Begun(op, first, via, item) \in Asked
           /\ Begun(op, first, via, item).op = op /\ Begun(op, first, via, item).at = first
           /\ Begun(op, first, via, item).via = via /\ Begun(op, first, via, item).item = item
           /\ Begun(op, first, via, item).keeps = {} /\ Begun(op, first, via, item).shown = {}
           /\ Begun(op, first, via, item).reply = "none"
  <1> DEFINE a == [Idle EXCEPT !.op = op]
             b == [a EXCEPT !.at = first]
             c == [b EXCEPT !.via = via]
             q == [c EXCEPT !.item = item]
  <1>1. a \in Asked /\ a.op = op /\ a.keeps = {} /\ a.shown = {} /\ a.reply = "none"
    BY IdleFacts DEF Asked
  <1> HIDE DEF a
  <1>2. b \in Asked /\ b.op = op /\ b.at = first /\ b.keeps = {} /\ b.shown = {} /\ b.reply = "none"
    BY <1>1 DEF Asked
  <1> HIDE DEF b
  <1>3. /\ c \in Asked /\ c.op = op /\ c.at = first /\ c.via = via
        /\ c.keeps = {} /\ c.shown = {} /\ c.reply = "none"
    BY <1>2 DEF Asked
  <1> HIDE DEF c
  <1>4. /\ q \in Asked /\ q.op = op /\ q.at = first /\ q.via = via /\ q.item = item
        /\ q.keeps = {} /\ q.shown = {} /\ q.reply = "none"
    BY <1>3 DEF Asked
  <1> HIDE DEF q
  <1> QED
    BY <1>4 DEF Begun, a, b, c, q

Answered(via, reply) == [Idle EXCEPT !.at = "done", !.via = via, !.reply = reply]

LEMMA AnsweredFacts ==
    ASSUME NEW via \in Links \cup Tickets \cup {None}, NEW reply \in {"none", "served", "unlogged", "refused"}
    PROVE  /\ Answered(via, reply) \in Asked
           /\ Answered(via, reply).op = "none" /\ Answered(via, reply).at = "done"
           /\ Answered(via, reply).via = via /\ Answered(via, reply).reply = reply
           /\ Answered(via, reply).keeps = {} /\ Answered(via, reply).shown = {}
  <1> DEFINE a == [Idle EXCEPT !.at = "done"]
             b == [a EXCEPT !.via = via]
             q == [b EXCEPT !.reply = reply]
  <1>1. a \in Asked /\ a.op = "none" /\ a.at = "done" /\ a.keeps = {} /\ a.shown = {}
    BY IdleFacts DEF Asked, Steps
  <1> HIDE DEF a
  <1>2. b \in Asked /\ b.op = "none" /\ b.at = "done" /\ b.via = via /\ b.keeps = {} /\ b.shown = {}
    BY <1>1 DEF Asked
  <1> HIDE DEF b
  <1>3. /\ q \in Asked /\ q.op = "none" /\ q.at = "done" /\ q.via = via /\ q.reply = reply
        /\ q.keeps = {} /\ q.shown = {}
    BY <1>2 DEF Asked
  <1> HIDE DEF q
  <1> QED
    BY <1>3 DEF Answered, a, b, q

-----------------------------------------------------------------------------
\* What the variables hold, but for the links and the requests.
ThingsOK ==
    /\ now \in 0..MaxTime
    /\ status \in [Items -> {"live", "deleted", "purged"}] /\ place \in [Files -> Folders \cup {Root}]
    /\ content \in [Files -> Contents] /\ expires \in [Files -> Int]
    /\ stored \subseteq Contents /\ pending \subseteq Contents /\ infected \subseteq Contents
    /\ scan \in [Scanners -> [of : Contents \cup {None}, claimed : BOOLEAN]]
    /\ \A s \in Scanners : scan[s] # Free => scan[s].of \in Contents
    /\ batch \subseteq Files \cup Contents /\ swept \subseteq Files \cup Contents

LEMMA ThingsStay ==
    ASSUME IInv, UNCHANGED <<now, files, contents, cleanup>>
    PROVE  ThingsOK'
  BY DEF IInv, TypeOK, ThingsOK, files, contents, cleanup

\* A token is not given out twice.
Onward ==
    /\ issued \subseteq issued'
    /\ \A l \in DOMAIN link' \cap issued : l \in DOMAIN link /\ link'[l] = link[l]
    /\ \A t \in DOMAIN ticket' \cap issued : t \in DOMAIN ticket /\ ticket'[t] = ticket[t]

LEMMA RestIsOnward ==
    ASSUME UNCHANGED <<link, issued, ticket>>
    PROVE  Onward
  BY DEF Onward

\* The histories of a visit.
LEMMA TrackType ==
    ASSUME IInv, Track
    PROVE  /\ gone' \in [Visits -> SUBSET Things]
           /\ whole' \in [Visits -> BOOLEAN]
  <1>1. \A r \in Visits : gone[r] \subseteq Things
    BY DEF IInv, TypeOK
  <1>2. gone' \in [Visits -> SUBSET Things]
    BY <1>1 DEF Track
  <1>3. whole' \in [Visits -> BOOLEAN]
    BY DEF Track
  <1> QED
    BY <1>2, <1>3

LEMMA TrackFacts ==
    ASSUME Track, NEW r \in Visits
    PROVE  /\ UnderWay(r) => gone'[r] \subseteq GoneFor(rq[r].op, rq[r].via)'
           /\ UnderWay(r) /\ ~ Asks(r) => gone'[r] \subseteq gone[r]
           /\ whole'[r] /\ UnderWay(r) =>
                /\ Asks(r) \/ whole[r]
                /\ OnOffer(r)'
                /\ ~ Asks(r) /\ rq[r].op \in Fetches => content'[Wanted(rq[r])] = content[Wanted(rq[r])]
  BY DEF Track

\* What has been gone all along only gets less.
LEMMA GoneShrinks ==
    ASSUME NEW q, NEW G, NEW H \in SUBSET G, GoneFits(q, G)
    PROVE  GoneFits(q, H)
  BY DEF GoneFits

\* What is gone at the moment.
LEMMA GoneNow ==
    ASSUME NEW q \in Asked, NEW G, infected' \subseteq Contents, G \subseteq GoneFor(q.op, q.via)',
           q.op # "none" =>
             /\ q.at \notin {"link", "ticket"} => q.via \notin G
             /\ q.at = "storage" => q.item \notin G
             /\ q.at = "log" => (q.shown \cup (q.keeps \cap Contents)) \cap G = {}
             /\ q.at # "log" => q.shown = {}
    PROVE  GoneFits(q, G)'
  <1> DEFINE A == GoneFor(q.op, q.via)'
  <1>1. q.via \in Links \cup Tickets \cup {None}
    BY DEF Asked
  <1>2. q.via \notin Items \cup Contents /\ Items \cap Contents = {}
    BY <1>1, SharesAssumption
  <1>3. A \subseteq Items \cup Contents \cup ({q.via} \ {None})
    BY DEF GoneFor, Items
  <1>4. \A i \in A \cap Items : ~ Live(i)' \/ (q.op \in {"ticket", "owner"} /\ i \in Files /\ Expired(i)')
    BY <1>2 DEF GoneFor
  <1>5. A \cap Contents \subseteq infected'
    BY <1>2 DEF GoneFor, Items
  <1>6. q.via \in A => ~ Usable(q.via)' /\ ~ Valid(q.via)'
    BY <1>2 DEF GoneFor, Items
  <1> HIDE DEF A
  <1> QED
    BY <1>3, <1>4, <1>5, <1>6 DEF GoneFits, A

\* What others do leaves a visit as it is.
LEMMA OthersFit ==
    ASSUME IInv, Onward, Track, TypeOK', NEW r \in Visits, rq'[r] = rq[r]
    PROVE  /\ VisitFits(rq[r])' /\ GoneFits(rq[r], gone[r])'
           /\ rq'[r].op # "none" /\ whole'[r] => OnOffer(r)' /\ OfferFits(rq[r])'
           /\ EndsWell(r)
  <1>1. PICK q \in Asked : q = rq[r]
    BY DEF IInv, TypeOK, Requests
  <1>2. VisitFits(q) /\ GoneFits(q, gone[r]) /\ rq'[r] = q
    BY <1>1 DEF IInv
  <1>3. EndsWell(r)
    BY DEF EndsWell, Ends
  <1>4. VisitFits(q)'
    BY <1>2 DEF VisitFits, Onward
  <1>5. q.op # "none" => UnderWay(r) /\ ~ Asks(r)
    BY <1>1, <1>2 DEF VisitFits, UnderWay, Asks
  <1>6. GoneFits(q, gone[r])'
    <2>1. CASE q.op = "none"
      BY <2>1 DEF GoneFits
    <2>2. CASE q.op # "none"
      <3>1. gone'[r] \subseteq gone[r] /\ gone'[r] \subseteq GoneFor(rq[r].op, rq[r].via)'
        BY <1>5, <2>2, TrackFacts
      <3>2. PICK G : G = gone'[r]
        OBVIOUS
      <3>3. G \subseteq GoneFor(q.op, q.via)' /\ infected' \subseteq Contents
        BY <1>2, <3>1, <3>2 DEF TypeOK
      <3>4. GoneFits(q, G)
        BY <1>2, <3>1, <3>2, GoneShrinks
      <3>5. GoneFits(q, G)'
        BY <3>3, <3>4, GoneNow DEF GoneFits
      <3> QED
        BY <3>2, <3>5
    <2> QED
      BY <2>1, <2>2
  <1>10. ASSUME q.op # "none", whole'[r]
         PROVE  OnOffer(r)' /\ OfferFits(q)'
    <2>1. /\ whole[r] /\ OnOffer(r)'
          /\ q.op \in Fetches => content'[Wanted(q)] = content[Wanted(q)]
      BY <1>1, <1>5, <1>10, TrackFacts
    <2>2. OnOffer(r) /\ OfferFits(q)
      BY <1>1, <1>10, <2>1 DEF IInv
    <2>3. q.op \in ViaLink => link'[q.via] = link[q.via]
      <3>1. q.op \in ViaLink => q.via \in DOMAIN link'
        BY <1>2, <2>1 DEF OnOffer, Usable
      <3>2. q.op \in ViaLink => q.via \in issued
        BY <1>2, SharesAssumption DEF VisitFits
      <3> QED
        BY <3>1, <3>2 DEF Onward
    <2>4. q.op = "ticket" => ticket'[q.via] = ticket[q.via]
      <3>1. q.op = "ticket" => q.via \in DOMAIN ticket'
        BY <1>2, <2>1 DEF OnOffer, Valid
      <3>2. q.op = "ticket" => q.via \in issued
        BY <1>2, SharesAssumption DEF VisitFits
      <3> QED
        BY <3>1, <3>2 DEF Onward
    <2>5. q.at = "storage" => content'[q.item] = content[q.item]
      BY <1>2, <2>1, <2>2 DEF VisitFits, OfferFits, Wanted
    <2>6. q.at \in {"child", "folder", "children"} \/ (q.at = "item" /\ q.op = "info") => q.op \in ViaLink
      BY <1>2 DEF VisitFits, ViaLink
    <2>7. OfferFits(q)'
      BY <2>2, <2>3, <2>4, <2>5, <2>6 DEF OfferFits
    <2> QED
      BY <2>1, <2>7
  <1> QED
    BY <1>1, <1>2, <1>3, <1>4, <1>6, <1>10 DEF VisitFits, GoneFits, OfferFits

-----------------------------------------------------------------------------
\* What others do leaves a tab as it is, if they give out other tokens, and insert no
\* link to what it is deleting.
LEMMA OtherCommandsFit ==
    ASSUME IInv, NEW c \in Commands, rq'[c] = rq[c],
           rq[c].op = "create" =>
             /\ rq[c].via \notin issued'
             /\ \A x \in Commands \ {c} : rq'[x].op = "create" => rq'[x].via # rq[c].via,
           rq[c].at = "commit" =>
             \A l \in DOMAIN link' \ stray' :
               (l \in DOMAIN link \ stray /\ link'[l].item = link[l].item) \/ link'[l].item \notin rq[c].keeps
    PROVE  CommandFits(c)'
  <1>1. CommandFits(c)
    BY DEF IInv
  <1> QED
    BY <1>1 DEF CommandFits

\* A row of the log is left alone, or new.
LogsKept ==
    \A l \in DOMAIN link' : (l \in DOMAIN link /\ log'[l] = log[l]) \/ (l \notin issued /\ log'[l] = {})

\* A step of the world or of the owner's tabs, C, in which no visitor takes part.
LEMMA OwnersStep ==
    ASSUME IInv, TypeOK', Onward, Track, LogsKept, LinksIssued', FoldersStay', DeletedHaveNoLinks',
           \A r \in Visits : rq'[r] = rq[r], \A c \in Commands : CommandFits(c)'
    PROVE  IInv' /\ AllEndWell
  <1>2. ASSUME NEW r \in Visits
        PROVE  /\ VisitFits(rq[r])' /\ GoneFits(rq[r], gone[r])'
               /\ rq'[r].op # "none" /\ whole'[r] => OnOffer(r)' /\ OfferFits(rq[r])'
               /\ EndsWell(r)
    BY OthersFit
  <1>3. \A c \in Commands : rq[c].at # "done" /\ rq'[c].at # "done"
    BY DEF IInv, CommandFits
  <1>4. LogsAnswered'
    <2> SUFFICES ASSUME NEW l \in DOMAIN link', NEW r \in log'[l] PROVE rq'[r].at = "done"
      BY DEF LogsAnswered
    <2>1. l \in DOMAIN link /\ r \in log[l]
      BY DEF LogsKept
    <2>2. rq[r].at = "done" /\ r \in Requests
      BY <2>1 DEF IInv, TypeOK, LogsAnswered
    <2> QED
      BY <1>3, <2>2 DEF Requests
  <1>5. VisitsAreLogged'
    <2> SUFFICES ASSUME NEW r \in Requests, NEW l \in DOMAIN link', rq'[r].at = "done", rq'[r].via = l
                 PROVE  r \in log'[l] <=> rq'[r].reply = "served"
      BY DEF VisitsAreLogged
    <2>1. r \in Visits /\ rq'[r] = rq[r]
      BY <1>3 DEF Requests
    <2>2. l \in issued
      <3>1. l \in Links /\ None \notin Links
        BY SharesAssumption DEF TypeOK
      <3> QED
        BY <2>1, <3>1 DEF IInv, VisitFits
    <2>3. l \in DOMAIN link /\ log'[l] = log[l]
      BY <2>2 DEF LogsKept
    <2> QED
      BY <2>1, <2>3 DEF IInv, VisitsAreLogged
  <1> QED
    BY <1>2, <1>4, <1>5 DEF IInv, AllEndWell

\* A step of a visit.
VisitSteps(r, q) ==
    /\ rq' = [rq EXCEPT ![r] = q] /\ q \in Asked
    /\ UNCHANGED <<now, files, contents, link, issued, stray, ticket, cleanup, restarts, writes>>
    /\ Track

\* Its line in the log.
Logs(r, q) ==
    /\ log' \in [DOMAIN link -> SUBSET Requests]
    /\ \A l \in DOMAIN link :
         /\ \A u \in Requests \ {r} : u \in log'[l] <=> u \in log[l]
         /\ r \in log'[l] => q.at = "done"
         /\ q.at = "done" /\ q.via = l => (r \in log'[l] <=> q.reply = "served")

LEMMA VisitStep ==
    ASSUME IInv, NEW r \in Visits, NEW q, VisitSteps(r, q), Logs(r, q), rq[r].at # "done",
           VisitFits(q), GoneFits(q, gone'[r]), q.op # "none" /\ whole'[r] => OfferFits(q), EndsWell(r)
    PROVE  IInv' /\ AllEndWell
  <1>1. /\ rq' \in [Requests -> Asked] /\ rq'[r] = q /\ \A u \in Requests \ {r} : rq'[u] = rq[u]
        /\ Track /\ r \in Requests /\ r \notin Commands
    BY SharesAssumption DEF VisitSteps, Requests, IInv, TypeOK
  <1>2. UNCHANGED <<now, status, place, content, expires, stored, pending, infected, scan, link, issued, stray,
                    ticket, batch, swept, restarts, writes>>
    BY DEF VisitSteps, files, contents, cleanup
  <1>3. TypeOK'
    <2>1. /\ gone' \in [Visits -> SUBSET Things]
          /\ whole' \in [Visits -> BOOLEAN]
      BY <1>1, TrackType
    <2>2. log' \in [DOMAIN link -> SUBSET Requests]
      BY DEF Logs
    <2> QED
      BY <1>1, <1>2, <2>1, <2>2 DEF IInv, TypeOK
  <1>4. Onward
    BY <1>2, RestIsOnward
  <1>5. ASSUME NEW u \in Visits
        PROVE  /\ VisitFits(rq[u])' /\ GoneFits(rq[u], gone[u])'
               /\ rq'[u].op # "none" /\ whole'[u] => OnOffer(u)' /\ OfferFits(rq[u])'
               /\ EndsWell(u)
    <2>1. CASE u # r
      <3>1. rq'[u] = rq[u]
        BY <1>1, <2>1 DEF Requests
      <3> QED
        BY <1>1, <1>3, <1>4, <3>1, OthersFit
    <2>2. CASE u = r
      <3>1. q.op # "none" => UnderWay(r)
        BY <1>1 DEF VisitFits, UnderWay
      <3>2. q.op # "none" /\ whole'[r] => OnOffer(r)'
        BY <1>1, <3>1, TrackFacts
      <3>3. VisitFits(rq[r])'
        BY <1>1, <1>2 DEF VisitFits
      <3>4. GoneFits(rq[r], gone[r])'
        BY <1>1, <1>2 DEF GoneFits, Live, Expired, Usable, Valid
      <3>5. q.op # "none" /\ whole'[r] => OfferFits(rq[r])'
        BY <1>1, <1>2 DEF OfferFits
      <3> QED
        BY <1>1, <2>2, <3>2, <3>3, <3>4, <3>5
    <2> QED
      BY <2>1, <2>2
  <1>6. ASSUME NEW c \in Commands PROVE CommandFits(c)'
    <2>1. CommandFits(c) /\ rq'[c] = rq[c] /\ \A x \in Commands : rq'[x] = rq[x]
      BY <1>1 DEF IInv, Requests
    <2> QED
      BY <1>2, <2>1 DEF CommandFits
  <1>7. LogsAnswered'
    <2> SUFFICES ASSUME NEW l \in DOMAIN link, NEW u \in log'[l] PROVE rq'[u].at = "done"
      BY <1>2 DEF LogsAnswered
    <2>1. u \in Requests
      BY <1>2, <1>3 DEF TypeOK
    <2> QED
      BY <1>1, <2>1 DEF Logs, IInv, LogsAnswered
  <1>8. VisitsAreLogged'
    <2> SUFFICES ASSUME NEW u \in Requests, NEW l \in DOMAIN link, rq'[u].at = "done", rq'[u].via = l
                 PROVE  u \in log'[l] <=> rq'[u].reply = "served"
      BY <1>2 DEF VisitsAreLogged
    <2>1. CASE u # r
      <3>1. rq'[u] = rq[u] /\ (u \in log'[l] <=> u \in log[l])
        BY <1>1, <2>1 DEF Logs
      <3> QED
        BY <3>1 DEF IInv, VisitsAreLogged
    <2>2. CASE u = r
      BY <1>1, <2>2 DEF Logs
    <2> QED
      BY <2>1, <2>2
  <1>9. LinksIssued' /\ FoldersStay' /\ DeletedHaveNoLinks'
    BY <1>2 DEF IInv, LinksIssued, FoldersStay, DeletedHaveNoLinks
  <1> QED
    BY <1>3, <1>5, <1>6, <1>7, <1>8, <1>9 DEF IInv, AllEndWell

\* A visit that goes on, or begins, with no line in the log.
LEMMA Unlogged ==
    ASSUME IInv, NEW r \in Visits, NEW q, UNCHANGED log, rq[r].at # "done", q.at # "done"
    PROVE  Logs(r, q)
  <1>1. log \in [DOMAIN link -> SUBSET Requests]
    BY DEF IInv, TypeOK
  <1> QED
    BY <1>1 DEF Logs, IInv, LogsAnswered

\* A visit that is answered.
LEMMA AnsweredStep ==
    ASSUME IInv, NEW r \in Visits, rq[r].op # "none",
           NEW reply \in {"served", "unlogged", "refused"}, Answer(r, reply), Track,
           UNCHANGED <<now, files, contents, link, issued, stray, ticket, cleanup, restarts, writes>>,
           log' \in [DOMAIN link -> SUBSET Requests],
           \A l \in DOMAIN link :
             /\ \A u \in Requests \ {r} : u \in log'[l] <=> u \in log[l]
             /\ rq[r].via = l => (r \in log'[l] <=> reply = "served"),
           reply \in {"served", "unlogged"} => gone[r] \cap Handed(r) = {},
           reply = "refused" => ~ whole[r]
    PROVE  IInv' /\ AllEndWell
  <1> DEFINE q == Answered(rq[r].via, reply)
  <1>1. rq[r] \in Asked /\ VisitFits(rq[r]) /\ rq[r].via \in Links \cup Tickets \cup {None}
    BY DEF IInv, TypeOK, Requests, Asked
  <1>2. /\ q \in Asked /\ q.op = "none" /\ q.at = "done" /\ q.via = rq[r].via /\ q.reply = reply
        /\ q.keeps = {} /\ q.shown = {}
    <2>1. PICK via \in Links \cup Tickets \cup {None} : via = rq[r].via
      BY <1>1
    <2>2. reply \in {"none", "served", "unlogged", "refused"}
      OBVIOUS
    <2> QED
      BY <2>1, <2>2, AnsweredFacts
  <1>3. rq' = [rq EXCEPT ![r] = q]
    BY DEF Answer, Answered
  <1> HIDE DEF q
  <1>4. VisitSteps(r, q)
    BY <1>2, <1>3 DEF VisitSteps
  <1>5. Logs(r, q)
    BY <1>2 DEF Logs
  <1>6. VisitFits(q)
    BY <1>1, <1>2, SharesAssumption DEF VisitFits, ViaLink
  <1>7. GoneFits(q, gone'[r])
    BY <1>2 DEF GoneFits
  <1>8. EndsWell(r)
    <2>1. rq'[r] = q
      BY <1>3 DEF IInv, TypeOK, Requests
    <2> QED
      BY <1>2, <2>1 DEF EndsWell
  <1>9. rq[r].at # "done"
    BY <1>1 DEF VisitFits
  <1> QED
    BY <1>2, <1>4, <1>5, <1>6, <1>7, <1>8, <1>9, VisitStep

\* Visits write nothing but the log.
VisitOnly == UNCHANGED <<world, writes>> /\ Track

LEMMA GoesOnStep ==
    ASSUME IInv, NEW r \in Visits, rq[r].op # "none", NEW at \in Steps \ {"idle", "done"},
           NEW item \in Items \cup {None}, NEW keeps \in Kept, NEW out \in Shown,
           rq' = [rq EXCEPT ![r] = With(rq[r], at, item, keeps, out)], VisitOnly,
           VisitFits(With(rq[r], at, item, keeps, out)),
           GoneFits(With(rq[r], at, item, keeps, out), gone[r]),
           OnOffer(r) /\ OfferFits(rq[r]) => OfferFits(With(rq[r], at, item, keeps, out))
    PROVE  IInv' /\ AllEndWell
  <1>1. PICK p \in Asked : p = rq[r]
    BY DEF IInv, TypeOK, Requests
  <1> DEFINE q == With(p, at, item, keeps, out)
  <1>2. q \in Asked /\ q.op = p.op /\ q.at = at
    BY WithFacts DEF With
  <1>3. rq' = [rq EXCEPT ![r] = q] /\ VisitFits(q) /\ GoneFits(q, gone[r])
    BY <1>1
  <1>4. OnOffer(r) /\ OfferFits(p) => OfferFits(q)
    BY <1>1
  <1> HIDE DEF q
  <1>5. VisitSteps(r, q) /\ UNCHANGED log
    BY <1>2, <1>3 DEF VisitSteps, VisitOnly, world, shares
  <1>6. rq'[r] = q
    BY <1>3 DEF IInv, TypeOK, Requests
  <1>7. p.at \notin {"idle", "done"}
    BY <1>1 DEF IInv, VisitFits
  <1>8. UnderWay(r) /\ ~ Asks(r)
    BY <1>1, <1>2, <1>6, <1>7 DEF UnderWay, Asks
  <1>9. gone'[r] \subseteq gone[r] /\ (whole'[r] => whole[r])
    BY <1>8, TrackFacts DEF VisitOnly
  <1>10. whole'[r] => OfferFits(q)
    BY <1>1, <1>4, <1>9 DEF IInv
  <1>11. EndsWell(r)
    BY <1>2, <1>6 DEF EndsWell, Ends
  <1>12. Logs(r, q)
    BY <1>1, <1>2, <1>5, <1>7, Unlogged
  <1>13. GoneFits(q, gone'[r])
    BY <1>3, <1>9, GoneShrinks
  <1> QED
    BY <1>1, <1>3, <1>5, <1>7, <1>10, <1>11, <1>12, <1>13, VisitStep

LEMMA RefusedStep ==
    ASSUME IInv, NEW r \in Visits, rq[r].op # "none", Refuse(r), VisitOnly,
           ~ (OnOffer(r) /\ OfferFits(rq[r]))
    PROVE  IInv' /\ AllEndWell
  <1>1. Answer(r, "refused")
    BY SharesAssumption DEF Refuse
  <1>2. ~ whole[r] /\ rq[r].at # "done"
    BY DEF IInv, VisitFits
  <1>3. log \in [DOMAIN link -> SUBSET Requests] /\ \A l \in DOMAIN link : r \notin log[l]
    BY <1>2 DEF IInv, TypeOK, LogsAnswered
  <1>4. /\ UNCHANGED <<now, files, contents, link, issued, stray, ticket, cleanup, restarts, writes>>
        /\ log' = log /\ Track
    BY DEF VisitOnly, world, shares
  <1> QED
    BY <1>1, <1>2, <1>3, <1>4, AnsweredStep

LEMMA BeginsStep ==
    ASSUME IInv, NEW r \in Visits, NEW op \in ViaLink \cup {"ticket", "owner"},
           NEW first \in {"link", "item", "ticket"}, NEW via \in issued \cup {None},
           NEW item \in Items \cup {None}, Begin(r, op, first, via, item), VisitOnly,
           VisitFits(Begun(op, first, via, item)), OfferFits(Begun(op, first, via, item)),
           first = "item" => via = None
    PROVE  IInv' /\ AllEndWell
  <1> DEFINE q == Begun(op, first, via, item)
             G == GoneFor(op, via)
  <1>1. op \in Ops /\ op # "none" /\ first \in Steps /\ via \in Links \cup Tickets \cup {None}
    BY DEF Ops, ViaLink, Fetches, Steps, IInv, TypeOK
  <1>2. /\ q \in Asked /\ q.op = op /\ q.at = first /\ q.via = via /\ q.item = item
        /\ q.keeps = {} /\ q.shown = {}
    BY <1>1, BegunFacts
  <1>3. rq' = [rq EXCEPT ![r] = q] /\ rq[r].at = "idle"
    BY DEF Begin, Begun
  <1>4. VisitFits(q) /\ OfferFits(q)
    OBVIOUS
  <1> HIDE DEF q
  <1>5. VisitSteps(r, q) /\ UNCHANGED log
    BY <1>2, <1>3 DEF VisitSteps, VisitOnly, world, shares
  <1>6. rq'[r] = q
    BY <1>3 DEF IInv, TypeOK, Requests
  <1>7. UnderWay(r) /\ Asks(r)
    BY <1>2, <1>3, <1>6 DEF UnderWay, Asks
  <1>8. gone'[r] \subseteq G
    <2>1. gone'[r] \subseteq GoneFor(op, via)'
      BY <1>2, <1>6, <1>7, TrackFacts DEF VisitOnly
    <2>2. UNCHANGED <<now, status, expires, infected, link, ticket>>
      BY DEF VisitOnly, world, files, contents, shares
    <2> QED
      BY <2>1, <2>2 DEF GoneFor, Live, Expired, Usable, Valid
  <1>9. GoneFits(q, G)
    <2>1. infected \subseteq Contents
      BY DEF IInv, TypeOK
    <2>2. G \subseteq Items \cup Contents \cup ({via} \ {None})
      BY <2>1 DEF GoneFor, Items
    <2>3. via \notin Items \cup Contents /\ Items \cap Contents = {}
      BY <1>1, SharesAssumption
    <2>4. \A i \in G \cap Items : ~ Live(i) \/ (op \in {"ticket", "owner"} /\ i \in Files /\ Expired(i))
      BY <2>1, <2>3 DEF GoneFor
    <2>5. G \cap Contents \subseteq infected
      BY <2>3 DEF GoneFor, Items
    <2>6. via \in G => ~ Usable(via) /\ ~ Valid(via) /\ via # None
      BY <2>1, <2>3 DEF GoneFor, Items
    <2> HIDE DEF G
    <2> QED
      BY <1>2, <2>2, <2>4, <2>5, <2>6 DEF GoneFits
  <1> HIDE DEF G
  <1>10. EndsWell(r)
    BY <1>3 DEF EndsWell, Ends
  <1>11. Logs(r, q)
    BY <1>2, <1>3, <1>5, Unlogged
  <1>12. GoneFits(q, gone'[r])
    BY <1>8, <1>9, GoneShrinks
  <1> QED
    BY <1>3, <1>4, <1>5, <1>10, <1>11, <1>12, VisitStep

\* How the handlers write the request down.
LEMMA HandlerGoesOn ==
    ASSUME rq \in [Requests -> Asked], NEW r \in Requests, NEW next \in Steps
    PROVE  [rq EXCEPT ![r].at = next] =
             [rq EXCEPT ![r] = With(rq[r], next, rq[r].item, rq[r].keeps, rq[r].shown)]
  <1>1. PICK q \in Asked : q = rq[r]
    OBVIOUS
  <1>2. [q EXCEPT !.at = next] = With(q, next, q.item, q.keeps, q.shown)
    BY GoesOn
  <1>3. [rq EXCEPT ![r].at = next] = [rq EXCEPT ![r] = [q EXCEPT !.at = next]]
    BY <1>1
  <1> QED
    BY <1>1, <1>2, <1>3

LEMMA HandlerMoves ==
    ASSUME rq \in [Requests -> Asked], NEW r \in Requests, NEW next \in Steps, NEW item \in Items \cup {None}
    PROVE  [rq EXCEPT ![r].at = next, ![r].item = item] =
             [rq EXCEPT ![r] = With(rq[r], next, item, rq[r].keeps, rq[r].shown)]
  <1>1. PICK q \in Asked : q = rq[r]
    OBVIOUS
  <1>2. [q EXCEPT !.at = next, !.item = item] = With(q, next, item, q.keeps, q.shown)
    BY MovesOn
  <1>3. [rq EXCEPT ![r].at = next, ![r].item = item] = [rq EXCEPT ![r] = [q EXCEPT !.at = next, !.item = item]]
    BY <1>1
  <1> QED
    BY <1>1, <1>2, <1>3

LEMMA VisitAsks ==
    ASSUME IInv, NEW r \in Visits, AskByLink(r) \/ AskByOwner(r) \/ AskByTicket(r)
    PROVE  IInv' /\ AllEndWell
  <1>1. VisitOnly /\ issued \subseteq Links \cup Tickets
    BY DEF AskByLink, AskByOwner, AskByTicket, Follows, VisitOnly, IInv, TypeOK
  <1>2. CASE AskByLink(r)
    <2>1. PICK l \in Links \cap issued, op \in ViaLink, i \in Items \cup {None} :
             Begin(r, op, "link", l, i) /\ (op = "download" => i # None)
      BY <1>2 DEF AskByLink
    <2>2. /\ Begun(op, "link", l, i).op = op /\ Begun(op, "link", l, i).at = "link"
          /\ Begun(op, "link", l, i).via = l /\ Begun(op, "link", l, i).item = i
          /\ Begun(op, "link", l, i).keeps = {}
      BY <2>1, BegunFacts DEF Ops, Steps
    <2>3. VisitFits(Begun(op, "link", l, i)) /\ OfferFits(Begun(op, "link", l, i))
      BY <2>1, <2>2 DEF VisitFits, OfferFits, ViaLink
    <2> QED
      BY <1>1, <2>1, <2>3, BeginsStep
  <1>3. CASE AskByOwner(r)
    <2>1. PICK f \in Files : Begin(r, "owner", "item", None, f)
      BY <1>3 DEF AskByOwner
    <2>2. f \in Items /\ "owner" \in Ops /\ "item" \in Steps
      BY DEF Items, Ops, Fetches, Steps
    <2>3. /\ Begun("owner", "item", None, f).op = "owner" /\ Begun("owner", "item", None, f).at = "item"
          /\ Begun("owner", "item", None, f).via = None /\ Begun("owner", "item", None, f).item = f
          /\ Begun("owner", "item", None, f).keeps = {}
      BY <2>2, BegunFacts
    <2>4. VisitFits(Begun("owner", "item", None, f)) /\ OfferFits(Begun("owner", "item", None, f))
      BY <2>2, <2>3 DEF VisitFits, OfferFits, ViaLink, Fetches
    <2> QED
      BY <1>1, <2>1, <2>2, <2>4, BeginsStep
  <1>4. CASE AskByTicket(r)
    <2>1. PICK t \in issued \cap Tickets : Begin(r, "ticket", "ticket", t, None)
      BY <1>4 DEF AskByTicket
    <2>2. "ticket" \in Ops /\ "ticket" \in Steps
      BY DEF Ops, Fetches, Steps
    <2>3. /\ Begun("ticket", "ticket", t, None).op = "ticket" /\ Begun("ticket", "ticket", t, None).at = "ticket"
          /\ Begun("ticket", "ticket", t, None).via = t /\ Begun("ticket", "ticket", t, None).keeps = {}
      BY <2>1, <2>2, BegunFacts
    <2>4. VisitFits(Begun("ticket", "ticket", t, None)) /\ OfferFits(Begun("ticket", "ticket", t, None))
      BY <2>1, <2>3 DEF VisitFits, OfferFits, ViaLink
    <2> QED
      BY <1>1, <2>1, <2>4, BeginsStep
  <1> QED
    BY <1>2, <1>3, <1>4

\* A visit under way.
LEMMA UnderWayFacts ==
    ASSUME IInv, NEW r \in Visits, rq[r].at \notin {"idle", "done"}
    PROVE  /\ r \in Requests /\ r \notin Commands /\ rq \in [Requests -> Asked] /\ rq[r] \in Asked
           /\ VisitFits(rq[r]) /\ GoneFits(rq[r], gone[r]) /\ rq[r].op # "none"
           /\ rq[r].item \in Items \cup {None} /\ rq[r].keeps \in Kept /\ rq[r].shown \in Shown
           /\ rq[r].via \notin Items \cup Contents /\ Items \cap Contents = {}
           /\ Files \subseteq Items /\ gone[r] \cap Contents \subseteq infected
           /\ \A i \in gone[r] \cap Items :
                ~ Live(i) \/ (rq[r].op \in {"ticket", "owner"} /\ i \in Files /\ Expired(i))
  <1>1. r \in Requests /\ r \notin Commands /\ rq \in [Requests -> Asked] /\ rq[r] \in Asked
    BY SharesAssumption DEF IInv, TypeOK, Requests
  <1>2. VisitFits(rq[r]) /\ GoneFits(rq[r], gone[r]) /\ rq[r].op # "none"
    BY DEF IInv, VisitFits
  <1>3. /\ rq[r].item \in Items \cup {None} /\ rq[r].keeps \in Kept /\ rq[r].shown \in Shown
        /\ rq[r].via \in Links \cup Tickets \cup {None}
    BY <1>1 DEF Asked, Kept, Shown
  <1>4. rq[r].via \notin Items \cup Contents /\ Items \cap Contents = {} /\ Files \subseteq Items
    BY <1>3, SharesAssumption DEF Items
  <1> QED
    BY <1>1, <1>2, <1>3, <1>4 DEF GoneFits

LEMMA VisitReadsLink ==
    ASSUME IInv, NEW r \in Visits, ReadLink(r)
    PROVE  IInv' /\ AllEndWell
  <1>1. PICK p \in Asked : p = rq[r]
    BY DEF IInv, TypeOK, Requests
  <1>2. p.at = "link" /\ VisitOnly
    BY <1>1 DEF ReadLink, At, Follows, VisitOnly
  <1>3. /\ r \in Requests /\ rq \in [Requests -> Asked] /\ VisitFits(p) /\ GoneFits(p, gone[r])
        /\ p.op # "none" /\ p.item \in Items \cup {None} /\ p.shown \in Shown
        /\ p.via \notin Items \cup Contents /\ Items \cap Contents = {}
    BY <1>1, <1>2, UnderWayFacts
  <1>4. p.op \in ViaLink /\ p.via \in Links /\ p.shown = {}
    BY <1>2, <1>3 DEF VisitFits, GoneFits
  <1>5. CASE ~ Usable(p.via)
    <2>1. Refuse(r) /\ ~ OnOffer(r)
      BY <1>1, <1>4, <1>5 DEF ReadLink, OnOffer
    <2> QED
      BY <1>1, <1>2, <1>3, <2>1, RefusedStep
  <1>6. CASE Usable(p.via)
    <2> DEFINE i == link[p.via].item
               at == NextAfterLink(p)
               item == IF p.op = "download" THEN p.item ELSE i
               q == With(p, at, item, {i}, p.shown)
    <2>1. i \in Items
      BY <1>6 DEF Usable, IInv, TypeOK
    <2>2. /\ p.op = "verify" => at = "log"
          /\ p.op = "list" => at = "folder"
          /\ p.op = "download" => at \in {"child", "item"} /\ (at = "child" => p.item # i)
          /\ p.op = "info" => at = "item"
      BY DEF NextAfterLink
    <2>3. item \in Items \cup {None} /\ {i} \in Kept /\ (p.op = "download" => item = p.item /\ item \in Items)
          /\ (p.op # "download" => item = i)
      BY <1>3, <2>1 DEF Kept, VisitFits
    <2>4. rq' = [rq EXCEPT ![r] = [p EXCEPT !.at = at, !.keeps = {i}, !.item = item]]
      BY <1>1, <1>3, <1>6 DEF ReadLink
    <2> HIDE DEF i, at, item
    <2>5. at \in Steps \ {"idle", "done"} /\ at \in {"log", "folder", "child", "item"}
      BY <1>4, <2>2 DEF ViaLink, Steps
    <2>6. rq' = [rq EXCEPT ![r] = q]
      BY <2>3, <2>4, <2>5, ReadsOn
    <2>7. /\ q.op = p.op /\ q.at = at /\ q.via = p.via /\ q.item = item /\ q.keeps = {i} /\ q.shown = {}
      BY <1>4 DEF With
    <2> HIDE DEF q
    <2>8. VisitFits(q)
      BY <1>3, <1>4, <2>1, <2>2, <2>3, <2>5, <2>7 DEF VisitFits, ViaLink, Fetches
    <2>9. p.via \notin gone[r]
      BY <1>3, <1>6 DEF GoneFits
    <2>10. GoneFits(q, gone[r])
      BY <1>3, <2>1, <2>5, <2>7, <2>9 DEF GoneFits
    <2>11. OfferFits(q)
      BY <1>4, <2>2, <2>3, <2>5, <2>7 DEF OfferFits, i, ViaLink
    <2> QED
      BY <1>1, <1>2, <1>3, <2>3, <2>5, <2>6, <2>8, <2>10, <2>11, GoesOnStep DEF q
  <1> QED
    BY <1>5, <1>6

LEMMA VisitReadsTicket ==
    ASSUME IInv, NEW r \in Visits, ReadTicket(r)
    PROVE  IInv' /\ AllEndWell
  <1>1. PICK p \in Asked : p = rq[r]
    BY DEF IInv, TypeOK, Requests
  <1>2. p.at = "ticket" /\ VisitOnly
    BY <1>1 DEF ReadTicket, At, Follows, VisitOnly
  <1>3. /\ r \in Requests /\ rq \in [Requests -> Asked] /\ VisitFits(p) /\ GoneFits(p, gone[r])
        /\ p.op # "none" /\ p.keeps \in Kept /\ p.shown \in Shown /\ Files \subseteq Items
    BY <1>1, <1>2, UnderWayFacts
  <1>4. p.op = "ticket" /\ p.via \in Tickets /\ p.shown = {}
    BY <1>2, <1>3 DEF VisitFits, GoneFits
  <1>5. CASE ~ Valid(p.via)
    <2>1. Refuse(r) /\ ~ OnOffer(r)
      BY <1>1, <1>4, <1>5 DEF ReadTicket, OnOffer
    <2> QED
      BY <1>1, <1>2, <1>3, <2>1, RefusedStep
  <1>6. CASE Valid(p.via)
    <2> DEFINE f == ticket[p.via].file
               q == With(p, "item", f, p.keeps, p.shown)
    <2>1. f \in Files /\ f \in Items
      BY <1>3, <1>6 DEF Valid, IInv, TypeOK
    <2>2. "item" \in Steps
      BY DEF Steps
    <2>3. rq' = [rq EXCEPT ![r].at = "item", ![r].item = f]
      BY <1>1, <1>6 DEF ReadTicket
    <2>4. rq' = [rq EXCEPT ![r] = q]
      <3> HIDE DEF f
      <3>1. f \in Items \cup {None}
        BY <2>1
      <3>2. rq' = [rq EXCEPT ![r] = With(rq[r], "item", f, rq[r].keeps, rq[r].shown)]
        BY <1>3, <2>2, <2>3, <3>1, HandlerMoves
      <3> QED
        BY <1>1, <3>2
    <2> HIDE DEF f
    <2>5. /\ q.op = p.op /\ q.at = "item" /\ q.via = p.via /\ q.item = f /\ q.keeps = p.keeps /\ q.shown = {}
      BY <1>4 DEF With
    <2> HIDE DEF q
    <2>6. VisitFits(q)
      BY <1>2, <1>3, <1>4, <2>1, <2>5 DEF VisitFits, ViaLink, Fetches
    <2>7. GoneFits(q, gone[r])
      BY <1>3, <1>4, <1>6, <2>5 DEF GoneFits
    <2>8. OfferFits(q)
      BY <1>4, <2>5 DEF OfferFits, f
    <2> QED
      BY <1>1, <1>2, <1>3, <2>1, <2>2, <2>4, <2>6, <2>7, <2>8, GoesOnStep DEF q
  <1> QED
    BY <1>5, <1>6

LEMMA VisitReadsChild ==
    ASSUME IInv, NEW r \in Visits, ReadChild(r)
    PROVE  IInv' /\ AllEndWell
  <1>1. PICK p \in Asked : p = rq[r]
    BY DEF IInv, TypeOK, Requests
  <1>2. p.at = "child" /\ VisitOnly
    BY <1>1 DEF ReadChild, At, Follows, VisitOnly
  <1>3. /\ r \in Requests /\ rq \in [Requests -> Asked] /\ VisitFits(p) /\ GoneFits(p, gone[r])
        /\ p.op # "none" /\ p.item \in Items \cup {None} /\ p.keeps \in Kept /\ p.shown \in Shown
    BY <1>1, <1>2, UnderWayFacts
  <1>4. p.op = "download" /\ p.item \in Items
    BY <1>2, <1>3 DEF VisitFits
  <1> DEFINE Below == status[p.item] # "purged" /\ p.item \in Files /\ place[p.item] \in p.keeps
  <1>5. CASE ~ Below
    <2>1. Refuse(r)
      BY <1>1, <1>5 DEF ReadChild
    <2>2. ASSUME OnOffer(r), OfferFits(p) PROVE FALSE
      <3>1. /\ Within(p.item, link[p.via].item) /\ Live(p.item) /\ p.item \in Files
        BY <1>1, <1>4, <2>2 DEF OnOffer, ViaLink, Fetches, Wanted
      <3>2. p.keeps = {link[p.via].item} /\ p.item # link[p.via].item
        BY <1>2, <2>2 DEF OfferFits
      <3> QED
        BY <1>5, <3>1, <3>2 DEF Within, Live
    <2> QED
      BY <1>1, <1>2, <1>3, <2>1, <2>2, RefusedStep
  <1>6. CASE Below
    <2> DEFINE q == With(p, "item", p.item, p.keeps, p.shown)
    <2>1. rq' = [rq EXCEPT ![r].at = "item"] /\ "item" \in Steps \ {"idle", "done"}
      BY <1>1, <1>6 DEF ReadChild, GoOn, Steps
    <2>2. rq' = [rq EXCEPT ![r] = q]
      BY <1>1, <1>3, <2>1, HandlerGoesOn
    <2>3. /\ q.op = p.op /\ q.at = "item" /\ q.via = p.via /\ q.item = p.item
          /\ q.keeps = p.keeps /\ q.shown = p.shown
      BY DEF With
    <2> HIDE DEF q
    <2>4. VisitFits(q) /\ GoneFits(q, gone[r])
      BY <1>2, <1>3, <1>4, <2>3 DEF VisitFits, GoneFits, ViaLink, Fetches
    <2>5. OfferFits(q)
      BY <1>4, <2>3 DEF OfferFits
    <2> QED
      BY <1>1, <1>2, <1>3, <2>1, <2>2, <2>4, <2>5, GoesOnStep DEF q
  <1> QED
    BY <1>5, <1>6

LEMMA VisitReadsFolder ==
    ASSUME IInv, NEW r \in Visits, ReadFolder(r)
    PROVE  IInv' /\ AllEndWell
  <1>1. PICK p \in Asked : p = rq[r]
    BY DEF IInv, TypeOK, Requests
  <1>2. p.at = "folder" /\ VisitOnly
    BY <1>1 DEF ReadFolder, At, Follows, VisitOnly
  <1>3. /\ r \in Requests /\ rq \in [Requests -> Asked] /\ VisitFits(p) /\ GoneFits(p, gone[r])
        /\ p.op # "none" /\ p.item \in Items \cup {None} /\ p.keeps \in Kept /\ p.shown \in Shown
    BY <1>1, <1>2, UnderWayFacts
  <1>4. p.op = "list" /\ p.item \in Items
    BY <1>2, <1>3 DEF VisitFits
  <1>5. CASE ~ (status[p.item] # "purged" /\ p.item \in Folders)
    <2>1. Refuse(r)
      BY <1>1, <1>5 DEF ReadFolder
    <2>2. ASSUME OnOffer(r), OfferFits(p) PROVE FALSE
      <3>1. p.item \in Folders
        BY <1>1, <1>2, <1>4, <2>2 DEF OnOffer, OfferFits
      <3> QED
        BY <1>5, <3>1 DEF IInv, FoldersStay
    <2> QED
      BY <1>1, <1>2, <1>3, <2>1, <2>2, RefusedStep
  <1>6. CASE status[p.item] # "purged" /\ p.item \in Folders
    <2> DEFINE q == With(p, "children", p.item, p.keeps, p.shown)
    <2>1. rq' = [rq EXCEPT ![r].at = "children"] /\ "children" \in Steps \ {"idle", "done"}
      BY <1>1, <1>6 DEF ReadFolder, GoOn, Steps
    <2>2. rq' = [rq EXCEPT ![r] = q]
      BY <1>1, <1>3, <2>1, HandlerGoesOn
    <2>3. /\ q.op = p.op /\ q.at = "children" /\ q.via = p.via /\ q.item = p.item
          /\ q.keeps = p.keeps /\ q.shown = p.shown
      BY DEF With
    <2> HIDE DEF q
    <2>4. VisitFits(q) /\ GoneFits(q, gone[r])
      BY <1>2, <1>3, <1>4, <2>3 DEF VisitFits, GoneFits, ViaLink, Fetches
    <2>5. OfferFits(p) => OfferFits(q)
      BY <1>2, <1>4, <2>3 DEF OfferFits
    <2> QED
      BY <1>1, <1>2, <1>3, <2>1, <2>2, <2>4, <2>5, GoesOnStep DEF q
  <1> QED
    BY <1>5, <1>6

LEMMA VisitReadsChildren ==
    ASSUME IInv, NEW r \in Visits, ReadChildren(r)
    PROVE  IInv' /\ AllEndWell
  <1>1. PICK p \in Asked : p = rq[r]
    BY DEF IInv, TypeOK, Requests
  <1>2. p.at = "children" /\ VisitOnly
    BY <1>1 DEF ReadChildren, At, Follows, VisitOnly
  <1>3. /\ r \in Requests /\ rq \in [Requests -> Asked] /\ VisitFits(p) /\ GoneFits(p, gone[r])
        /\ p.op # "none" /\ p.item \in Items \cup {None} /\ p.keeps \in Kept /\ Files \subseteq Items
    BY <1>1, <1>2, UnderWayFacts
  <1>4. p.op = "list"
    BY <1>2, <1>3 DEF VisitFits
  <1> DEFINE S == {f \in Files : place[f] = p.item /\ Live(f)}
             q == With(p, "log", p.item, p.keeps, S)
  <1>5. S \in Shown
    BY <1>3 DEF Shown
  <1>6. \A i \in S : i \notin gone[r]
    BY <1>3, <1>4 DEF GoneFits
  <1>7. rq' = [rq EXCEPT ![r].at = "log", ![r].shown = S] /\ "log" \in Steps \ {"idle", "done"}
    BY <1>1 DEF ReadChildren, Show, Steps
  <1> HIDE DEF S
  <1>8. rq' = [rq EXCEPT ![r] = q]
    <2>1. [p EXCEPT !.at = "log", !.shown = S] = q
      BY <1>5, <1>7, ShowsOn
    <2>2. [rq EXCEPT ![r].at = "log", ![r].shown = S] = [rq EXCEPT ![r] = [p EXCEPT !.at = "log", !.shown = S]]
      BY <1>1
    <2> QED
      BY <1>7, <2>1, <2>2
  <1>9. /\ q.op = p.op /\ q.at = "log" /\ q.via = p.via /\ q.item = p.item /\ q.keeps = p.keeps /\ q.shown = S
    BY DEF With
  <1> HIDE DEF q
  <1>10. VisitFits(q)
    BY <1>2, <1>3, <1>4, <1>9 DEF VisitFits, ViaLink
  <1>11. GoneFits(q, gone[r])
    <2>1. p.keeps \cap Contents = {}
      BY <1>2, <1>3 DEF VisitFits
    <2> QED
      BY <1>2, <1>3, <1>6, <1>9, <2>1 DEF GoneFits
  <1>12. OfferFits(q)
    BY <1>9 DEF OfferFits
  <1> QED
    BY <1>1, <1>2, <1>3, <1>5, <1>7, <1>8, <1>10, <1>11, <1>12, GoesOnStep DEF q

\* Nothing of the content read last is gone, if there is such content and it is clean.
LEMMA ReadContentKept ==
    ASSUME IInv, NEW r \in Visits, rq[r].at = "storage", rq[r].keeps \subseteq stored \ infected
    PROVE  (rq[r].keeps \cap Contents) \cap gone[r] = {}
  <1>1. gone[r] \cap Contents \subseteq infected
    BY UnderWayFacts
  <1> QED
    BY <1>1

LEMMA VisitReadsStorage ==
    ASSUME IInv, NEW r \in Visits, ReadStorage(r)
    PROVE  IInv' /\ AllEndWell
  <1>1. PICK p \in Asked : p = rq[r]
    BY DEF IInv, TypeOK, Requests
  <1>2. p.at = "storage" /\ VisitOnly
    BY <1>1 DEF ReadStorage, At, Follows, VisitOnly
  <1>3. /\ r \in Requests /\ rq \in [Requests -> Asked] /\ VisitFits(p) /\ GoneFits(p, gone[r])
        /\ p.op # "none" /\ p.item \in Items \cup {None} /\ p.keeps \in Kept /\ Files \subseteq Items
    BY <1>1, <1>2, UnderWayFacts
  <1>4. /\ p.op \in Fetches /\ p.item \in Files /\ p.item \notin gone[r] /\ p.via \notin gone[r]
        /\ p.shown = {} /\ p.item \in Items
    BY <1>2, <1>3 DEF VisitFits, GoneFits
  <1>5. CASE ~ (p.keeps \subseteq stored \ infected)
    <2>1. Refuse(r)
      BY <1>1, <1>5 DEF ReadStorage
    <2>2. ASSUME OnOffer(r), OfferFits(p) PROVE FALSE
      <3>1. Readable(Wanted(p)) /\ p.keeps = {content[p.item]}
        BY <1>1, <1>2, <1>4, <2>2 DEF OnOffer, OfferFits
      <3>2. Wanted(p) = p.item
        BY <1>2, <2>2 DEF OfferFits, Wanted
      <3> QED
        BY <1>5, <3>1, <3>2 DEF Readable
    <2> QED
      BY <1>1, <1>2, <1>3, <2>1, <2>2, RefusedStep
  <1>6. CASE p.keeps \subseteq stored \ infected /\ p.op = "download"
    <2> DEFINE q == With(p, "log", p.item, p.keeps, {p.item})
    <2>1. {p.item} \in Shown
      BY <1>4 DEF Shown
    <2>2. rq' = [rq EXCEPT ![r].at = "log", ![r].shown = {p.item}] /\ "log" \in Steps \ {"idle", "done"}
      BY <1>1, <1>6 DEF ReadStorage, Show, Steps
    <2>3. rq' = [rq EXCEPT ![r] = q]
      <3>1. [p EXCEPT !.at = "log", !.shown = {p.item}] = q
        BY <2>1, <2>2, ShowsOn
      <3>2. [rq EXCEPT ![r].at = "log", ![r].shown = {p.item}] =
              [rq EXCEPT ![r] = [p EXCEPT !.at = "log", !.shown = {p.item}]]
        BY <1>1
      <3> QED
        BY <2>2, <3>1, <3>2
    <2>4. /\ q.op = p.op /\ q.at = "log" /\ q.via = p.via /\ q.item = p.item /\ q.keeps = p.keeps
          /\ q.shown = {p.item}
      BY DEF With
    <2> HIDE DEF q
    <2>5. VisitFits(q)
      BY <1>3, <1>4, <1>6, <2>4 DEF VisitFits, ViaLink
    <2>6. GoneFits(q, gone[r])
      <3>1. (p.keeps \cap Contents) \cap gone[r] = {}
        BY <1>1, <1>2, <1>6, ReadContentKept
      <3> QED
        BY <1>3, <1>4, <2>4, <3>1 DEF GoneFits
    <2>7. OfferFits(q)
      BY <2>4 DEF OfferFits
    <2> QED
      BY <1>1, <1>2, <1>3, <2>1, <2>2, <2>3, <2>5, <2>6, <2>7, GoesOnStep DEF q
  <1>7. CASE p.keeps \subseteq stored \ infected /\ p.op # "download"
    <2>1. Answer(r, "served")
      BY <1>1, <1>7 DEF ReadStorage
    <2>2. gone[r] \cap Handed(r) = {}
      <3>1. (p.keeps \cap Contents) \cap gone[r] = {}
        BY <1>1, <1>2, <1>7, ReadContentKept
      <3> QED
        BY <1>1, <1>4, <3>1 DEF Handed
    <2>3. p.via \notin DOMAIN link
      BY <1>3, <1>4, <1>7, SharesAssumption DEF VisitFits, Fetches, IInv, TypeOK
    <2>4. log \in [DOMAIN link -> SUBSET Requests]
      BY DEF IInv, TypeOK
    <2>5. UNCHANGED <<now, files, contents, link, issued, stray, ticket, cleanup, restarts, writes>> /\ log' = log
      BY <1>2 DEF VisitOnly, world, shares
    <2>6. Track
      BY <1>2 DEF VisitOnly
    <2> QED
      BY <1>1, <1>3, <2>1, <2>2, <2>3, <2>4, <2>5, <2>6, AnsweredStep
  <1> QED
    BY <1>5, <1>6, <1>7

LEMMA VisitReadsItem ==
    ASSUME IInv, NEW r \in Visits, ReadItem(r)
    PROVE  IInv' /\ AllEndWell
  <1>1. PICK p \in Asked : p = rq[r]
    BY DEF IInv, TypeOK, Requests
  <1>2. p.at = "item" /\ VisitOnly
    BY <1>1 DEF ReadItem, At, Follows, VisitOnly
  <1>3. /\ r \in Requests /\ rq \in [Requests -> Asked] /\ VisitFits(p) /\ GoneFits(p, gone[r])
        /\ p.op # "none" /\ p.item \in Items \cup {None} /\ p.keeps \in Kept /\ Files \subseteq Items
        /\ p.shown \in Shown
    BY <1>1, <1>2, UnderWayFacts
  <1>4. p.op \in {"info"} \cup Fetches /\ p.item \in Items /\ p.shown = {}
    BY <1>2, <1>3 DEF VisitFits, GoneFits
  <1> DEFINE There == /\ Live(p.item)
                      /\ p.op \in Fetches => p.item \in Files
                      /\ p.op \in {"ticket", "owner"} => ~ Expired(p.item)
  <1>5. CASE ~ There
    <2>1. Refuse(r)
      BY <1>1, <1>5 DEF ReadItem
    <2>2. ASSUME OnOffer(r), OfferFits(p) PROVE FALSE
      <3>1. CASE p.op = "info"
        BY <1>1, <1>2, <1>5, <2>2, <3>1 DEF OnOffer, OfferFits, ViaLink, Fetches
      <3>2. CASE p.op \in Fetches
        <4>1. Wanted(p) = p.item
          BY <1>2, <2>2 DEF OfferFits, Wanted
        <4>2. Live(p.item) /\ p.item \in Files /\ (p.op \in {"ticket", "owner"} => ~ Expired(p.item))
          BY <1>1, <2>2, <3>2, <4>1 DEF OnOffer
        <4> QED
          BY <1>5, <4>2
      <3> QED
        BY <1>4, <3>1, <3>2
    <2> QED
      BY <1>1, <1>2, <1>3, <2>1, <2>2, RefusedStep
  <1>6. There => p.item \notin gone[r]
    BY <1>3, <1>4 DEF GoneFits
  <1>7. CASE There /\ p.op = "info"
    <2> DEFINE q == With(p, "log", p.item, p.keeps, {p.item})
    <2>1. {p.item} \in Shown /\ "log" \in Steps \ {"idle", "done"} /\ "log" \in Steps
      BY <1>4 DEF Shown, Steps
    <2>2. rq' = [rq EXCEPT ![r].at = "log", ![r].shown = {p.item}]
      BY <1>1, <1>7 DEF ReadItem, AfterItem, Show
    <2>3. rq' = [rq EXCEPT ![r] = q]
      <3>1. [p EXCEPT !.at = "log", !.shown = {p.item}] = q
        BY <2>1, ShowsOn
      <3>2. [rq EXCEPT ![r].at = "log", ![r].shown = {p.item}] =
              [rq EXCEPT ![r] = [p EXCEPT !.at = "log", !.shown = {p.item}]]
        BY <1>1
      <3> QED
        BY <2>2, <3>1, <3>2
    <2>4. /\ q.op = p.op /\ q.at = "log" /\ q.via = p.via /\ q.item = p.item /\ q.keeps = p.keeps
          /\ q.shown = {p.item}
      BY DEF With
    <2> HIDE DEF q
    <2>5. VisitFits(q)
      BY <1>3, <1>4, <1>7, <2>4 DEF VisitFits, ViaLink
    <2>6. GoneFits(q, gone[r])
      <3>1. p.keeps \cap Contents = {}
        BY <1>2, <1>3 DEF VisitFits
      <3> QED
        BY <1>2, <1>3, <1>6, <1>7, <2>4, <3>1 DEF GoneFits
    <2>7. OfferFits(q)
      BY <2>4 DEF OfferFits
    <2> QED
      BY <1>1, <1>2, <1>3, <2>1, <2>3, <2>5, <2>6, <2>7, GoesOnStep DEF q
  <1>8. CASE There /\ p.op \in Fetches
    <2> DEFINE K == {content[p.item]}
               q == With(p, "storage", p.item, K, p.shown)
    <2>1. K \in Kept /\ "storage" \in Steps \ {"idle", "done"} /\ "storage" \in Steps
      BY <1>8 DEF IInv, TypeOK, Kept, Steps
    <2>2. rq' = [rq EXCEPT ![r].at = "storage", ![r].keeps = K]
      BY <1>1, <1>8 DEF ReadItem, AfterItem, Hold, Fetches
    <2>3. rq' = [rq EXCEPT ![r] = q]
      <3> HIDE DEF K
      <3>1. [p EXCEPT !.at = "storage", !.keeps = K] = q
        BY <2>1, HoldsOn
      <3>2. [rq EXCEPT ![r].at = "storage", ![r].keeps = K] =
              [rq EXCEPT ![r] = [p EXCEPT !.at = "storage", !.keeps = K]]
        BY <1>1
      <3> QED
        BY <2>2, <3>1, <3>2
    <2>4. /\ q.op = p.op /\ q.at = "storage" /\ q.via = p.via /\ q.item = p.item /\ q.keeps = K
          /\ q.shown = p.shown
      BY DEF With
    <2> HIDE DEF q
    <2>5. VisitFits(q)
      BY <1>3, <1>8, <2>4 DEF VisitFits, ViaLink
    <2>6. GoneFits(q, gone[r])
      BY <1>2, <1>3, <1>6, <1>8, <2>4 DEF GoneFits
    <2>7. OfferFits(p) => OfferFits(q)
      BY <1>2, <2>4 DEF OfferFits
    <2> HIDE DEF K
    <2> QED
      BY <1>1, <1>2, <1>3, <2>1, <2>3, <2>5, <2>6, <2>7, GoesOnStep DEF q
  <1> QED
    BY <1>4, <1>5, <1>7, <1>8

LEMMA VisitLogs ==
    ASSUME IInv, NEW r \in Visits, LogAccess(r)
    PROVE  IInv' /\ AllEndWell
  <1>1. PICK p \in Asked : p = rq[r]
    BY DEF IInv, TypeOK, Requests
  <1>2. p.at = "log" /\ Track
    BY <1>1 DEF LogAccess, At, Follows
  <1>3. r \in Requests /\ VisitFits(p) /\ GoneFits(p, gone[r]) /\ p.op # "none"
    BY <1>1, <1>2, UnderWayFacts
  <1>4. UNCHANGED <<now, files, contents, link, issued, stray, ticket, cleanup, restarts, writes>>
    BY DEF LogAccess, Follows
  <1>5. log \in [DOMAIN link -> SUBSET Requests] /\ \A l \in DOMAIN link : r \notin log[l]
    BY <1>1, <1>2 DEF IInv, TypeOK, LogsAnswered
  <1>6. gone[r] \cap Handed(r) = {}
    BY <1>1, <1>2, <1>3 DEF GoneFits, Handed, VisitFits, ViaLink
  <1>7. CASE p.via \in DOMAIN link /\ log' = [log EXCEPT ![p.via] = @ \cup {r}] /\ Answer(r, "served")
    <2>1. log' \in [DOMAIN link -> SUBSET Requests]
      BY <1>3, <1>5, <1>7
    <2>2. \A l \in DOMAIN link : log'[l] = IF l = p.via THEN log[l] \cup {r} ELSE log[l]
      BY <1>5, <1>7
    <2>3. \A l \in DOMAIN link : /\ \A u \in Requests \ {r} : u \in log'[l] <=> u \in log[l]
                                 /\ p.via = l => (r \in log'[l] <=> "served" = "served")
      BY <2>2
    <2> QED
      BY <1>1, <1>2, <1>3, <1>4, <1>6, <1>7, <2>1, <2>3, AnsweredStep
  <1>8. CASE log' = log /\ Answer(r, "unlogged")
    BY <1>1, <1>2, <1>3, <1>4, <1>5, <1>6, <1>8, AnsweredStep
  <1> QED
    BY <1>1, <1>7, <1>8 DEF LogAccess

LEMMA VisitKeepsIInv ==
    ASSUME IInv, NEW r \in Visits, Visit(r)
    PROVE  IInv' /\ AllEndWell
  BY VisitAsks, VisitReadsLink, VisitReadsTicket, VisitReadsChild, VisitReadsFolder, VisitReadsChildren,
     VisitReadsStorage, VisitReadsItem, VisitLogs DEF Visit

-----------------------------------------------------------------------------
\* What the owner's tabs ask for.
Creating(l, i, until) == [Idle EXCEPT !.op = "create", !.at = "item", !.via = l, !.item = i, !.until = until]
Changing(op, at, item, keeps) == [Idle EXCEPT !.op = op, !.at = at, !.item = item, !.keeps = keeps]

LEMMA CreatingFacts ==
    ASSUME NEW l \in Links, NEW i \in Items, NEW until \in Int
    PROVE  /\ Creating(l, i, until) \in Asked
           /\ Creating(l, i, until).op = "create" /\ Creating(l, i, until).at = "item"
           /\ Creating(l, i, until).via = l /\ Creating(l, i, until).item = i
  <1> DEFINE a == [Idle EXCEPT !.op = "create"]
             b == [a EXCEPT !.at = "item"]
             c == [b EXCEPT !.via = l]
             d == [c EXCEPT !.item = i]
             e == [d EXCEPT !.until = until]
  <1>1. a \in Asked /\ a.op = "create"
    BY IdleFacts DEF Asked, Ops
  <1> HIDE DEF a
  <1>2. b \in Asked /\ b.op = "create" /\ b.at = "item"
    BY <1>1 DEF Asked, Steps
  <1> HIDE DEF b
  <1>3. c \in Asked /\ c.op = "create" /\ c.at = "item" /\ c.via = l
    BY <1>2 DEF Asked
  <1> HIDE DEF c
  <1>4. d \in Asked /\ d.op = "create" /\ d.at = "item" /\ d.via = l /\ d.item = i
    BY <1>3 DEF Asked
  <1> HIDE DEF d
  <1>5. e \in Asked /\ e.op = "create" /\ e.at = "item" /\ e.via = l /\ e.item = i
    BY <1>4 DEF Asked
  <1> HIDE DEF e
  <1> QED
    BY <1>5 DEF Creating, a, b, c, d, e

LEMMA ChangingFacts ==
    ASSUME NEW op \in {"delete", "merge"}, NEW at \in {"commit", "overwrite"}, NEW item \in Items, NEW keeps \in Kept
    PROVE  /\ Changing(op, at, item, keeps) \in Asked
           /\ Changing(op, at, item, keeps).op = op /\ Changing(op, at, item, keeps).at = at
           /\ Changing(op, at, item, keeps).item = item /\ Changing(op, at, item, keeps).keeps = keeps
  <1> DEFINE a == [Idle EXCEPT !.op = op]
             b == [a EXCEPT !.at = at]
             c == [b EXCEPT !.item = item]
             d == [c EXCEPT !.keeps = keeps]
  <1>1. a \in Asked /\ a.op = op
    BY IdleFacts DEF Asked, Ops
  <1> HIDE DEF a
  <1>2. b \in Asked /\ b.op = op /\ b.at = at
    BY <1>1 DEF Asked, Steps
  <1> HIDE DEF b
  <1>3. c \in Asked /\ c.op = op /\ c.at = at /\ c.item = item
    BY <1>2 DEF Asked
  <1> HIDE DEF c
  <1>4. d \in Asked /\ d.op = op /\ d.at = at /\ d.item = item /\ d.keeps = keeps
    BY <1>3 DEF Asked, Kept
  <1> HIDE DEF d
  <1> QED
    BY <1>4 DEF Changing, a, b, c, d

Overwriting(f, d, until) ==
    [Idle EXCEPT !.op = "upload", !.at = "replace", !.item = f, !.keeps = {d}, !.until = until]

LEMMA OverwritingFacts ==
    ASSUME NEW f \in Items, NEW d \in Contents, NEW until \in Int
    PROVE  /\ Overwriting(f, d, until) \in Asked
           /\ Overwriting(f, d, until).op = "upload" /\ Overwriting(f, d, until).at = "replace"
  <1> DEFINE a == [Idle EXCEPT !.op = "upload"]
             b == [a EXCEPT !.at = "replace"]
             i == [b EXCEPT !.item = f]
             k == [i EXCEPT !.keeps = {d}]
             q == [k EXCEPT !.until = until]
  <1>1. a \in Asked /\ a.op = "upload"
    BY IdleFacts DEF Asked, Ops
  <1> HIDE DEF a
  <1>2. b \in Asked /\ b.op = "upload" /\ b.at = "replace"
    BY <1>1 DEF Asked, Steps
  <1> HIDE DEF b
  <1>3. i \in Asked /\ i.op = "upload" /\ i.at = "replace"
    BY <1>2 DEF Asked
  <1> HIDE DEF i
  <1>4. k \in Asked /\ k.op = "upload" /\ k.at = "replace"
    BY <1>3 DEF Asked
  <1> HIDE DEF k
  <1>5. q \in Asked /\ q.op = "upload" /\ q.at = "replace"
    BY <1>4 DEF Asked
  <1> HIDE DEF q
  <1> QED
    BY <1>5 DEF Overwriting, a, b, i, k, q

\* A step of the tab c.
LEMMA TabsFit ==
    ASSUME IInv, NEW c \in Commands, NEW q \in Asked, rq' = [rq EXCEPT ![c] = q], CommandFits(c)',
           \A x \in Commands \ {c} : rq[x].op = "create" => rq[x].via \notin issued',
           \A x \in Commands \ {c} : rq[x].at = "commit" =>
             \A l \in DOMAIN link' \ stray' :
               (l \in DOMAIN link \ stray /\ link'[l].item = link[l].item) \/ link'[l].item \notin rq[x].keeps
    PROVE  /\ rq' \in [Requests -> Asked] /\ \A r \in Visits : rq'[r] = rq[r]
           /\ \A x \in Commands : CommandFits(x)'
  <1>1. /\ rq' \in [Requests -> Asked] /\ rq'[c] = q /\ \A x \in Requests \ {c} : rq'[x] = rq[x]
        /\ c \in Requests
    BY DEF Requests, IInv, TypeOK
  <1>2. \A r \in Visits : rq'[r] = rq[r]
    BY <1>1, SharesAssumption DEF Requests
  <1>3. ASSUME NEW x \in Commands \ {c} PROVE CommandFits(x)'
    <2>1. rq'[x] = rq[x] /\ CommandFits(x)
      BY <1>1 DEF Requests, IInv
    <2>2. ASSUME rq[x].op = "create", NEW y \in Commands \ {x}, rq'[y].op = "create"
          PROVE  rq'[y].via # rq[x].via
      <3>1. CASE y = c
        BY <1>1, <2>1, <2>2, <3>1 DEF CommandFits
      <3>2. CASE y # c
        BY <1>1, <2>1, <2>2, <3>2 DEF CommandFits, Requests
      <3> QED
        BY <3>1, <3>2
    <2> QED
      BY <2>1, <2>2, OtherCommandsFit
  <1> QED
    BY <1>1, <1>2, <1>3

\* One that writes nothing yet.
LEMMA TabStep ==
    ASSUME IInv, NEW c \in Commands, NEW q \in Asked, rq' = [rq EXCEPT ![c] = q], CommandFits(c)',
           UNCHANGED world, Track, writes' \in 0..MaxWrites
    PROVE  IInv' /\ AllEndWell
  <1>1. UNCHANGED <<now, status, place, content, expires, stored, pending, infected, scan, link, issued, log,
                    stray, ticket, batch, swept, restarts>>
    BY DEF world, files, contents, shares, cleanup
  <1>2. \A x \in Commands \ {c} : CommandFits(x)
    BY DEF IInv
  <1>3. /\ rq' \in [Requests -> Asked] /\ \A r \in Visits : rq'[r] = rq[r]
        /\ \A x \in Commands : CommandFits(x)'
    <2>1. \A x \in Commands \ {c} : rq[x].op = "create" => rq[x].via \notin issued'
      BY <1>1, <1>2 DEF CommandFits
    <2> QED
      BY <1>1, <2>1, TabsFit
  <1>4. TypeOK'
    <2>1. /\ gone' \in [Visits -> SUBSET Things]
          /\ whole' \in [Visits -> BOOLEAN]
      BY TrackType
    <2> QED
      BY <1>1, <1>3, <2>1 DEF IInv, TypeOK
  <1>5. Onward
    BY <1>1, RestIsOnward
  <1>6. LogsKept /\ LinksIssued' /\ FoldersStay' /\ DeletedHaveNoLinks'
    BY <1>1 DEF IInv, LogsKept, LinksIssued, FoldersStay, DeletedHaveNoLinks
  <1> QED
    BY <1>3, <1>4, <1>5, <1>6, OwnersStep

\* One that writes files and contents, but marks nothing.
LEMMA TabWrites ==
    ASSUME IInv, NEW c \in Commands, NEW q \in Asked, rq' = [rq EXCEPT ![c] = q], CommandFits(c)',
           UNCHANGED <<status, link, issued, log, stray, ticket, swept, restarts>>, ThingsOK', Track,
           writes' \in 0..MaxWrites
    PROVE  IInv' /\ AllEndWell
  <1>1. \A x \in Commands \ {c} : CommandFits(x)
    BY DEF IInv
  <1>2. /\ rq' \in [Requests -> Asked] /\ \A r \in Visits : rq'[r] = rq[r]
        /\ \A x \in Commands : CommandFits(x)'
    <2>1. \A x \in Commands \ {c} : rq[x].op = "create" => rq[x].via \notin issued'
      BY <1>1 DEF CommandFits
    <2> QED
      BY <2>1, TabsFit
  <1>3. TypeOK'
    <2>1. gone' \in [Visits -> SUBSET Things] /\ whole' \in [Visits -> BOOLEAN]
      BY TrackType
    <2> QED
      BY <1>2, <2>1 DEF IInv, TypeOK, ThingsOK
  <1>4. Onward
    BY RestIsOnward
  <1>5. LogsKept /\ LinksIssued' /\ FoldersStay' /\ DeletedHaveNoLinks'
    BY DEF IInv, LogsKept, LinksIssued, FoldersStay, DeletedHaveNoLinks
  <1> QED
    BY <1>2, <1>3, <1>4, <1>5, OwnersStep

LEMMA CountedWrites ==
    ASSUME IInv, (writes < MaxWrites /\ writes' = writes + 1) \/ UNCHANGED writes
    PROVE  writes' \in 0..MaxWrites
  BY SharesAssumption DEF IInv, TypeOK

LEMMA TabAsks ==
    ASSUME IInv, NEW c \in Commands, AskMint(c) \/ AskCreate(c) \/ DeleteItems(c) \/ Merge(c)
    PROVE  IInv' /\ AllEndWell
  <1>1. UNCHANGED world /\ Track /\ writes' \in 0..MaxWrites
    BY CountedWrites DEF AskMint, AskCreate, DeleteItems, Merge, Counted
  <1>2. ASSUME NEW q \in Asked, rq' = [rq EXCEPT ![c] = q] PROVE rq'[c] = q
    BY <1>2 DEF IInv, TypeOK, Requests
  <1>3. UNCHANGED <<link, issued, stray>>
    BY <1>1 DEF world, shares
  <1>4. CASE AskMint(c)
    <2>1. PICK f \in Files : Begin(c, "mint", "item", None, f)
      BY <1>4 DEF AskMint
    <2> DEFINE q == Begun("mint", "item", None, f)
    <2>2. f \in Items /\ "mint" \in Ops /\ "item" \in Steps
      BY DEF Items, Ops, Steps
    <2>3. q \in Asked /\ q.op = "mint" /\ q.at = "item" /\ q.item = f
      BY <2>2, BegunFacts
    <2>4. rq' = [rq EXCEPT ![c] = q]
      BY <2>1 DEF Begin, Begun
    <2> HIDE DEF q
    <2>5. CommandFits(c)'
      BY <1>2, <2>2, <2>3, <2>4 DEF CommandFits
    <2> QED
      BY <1>1, <2>3, <2>4, <2>5, TabStep
  <1>5. CASE AskCreate(c)
    <2>1. PICK i \in Items, l \in Links \ (issued \cup {rq[x].via : x \in Commands}), h \in LinkLives :
             rq' = [rq EXCEPT ![c] = Creating(l, i, now + h)]
      BY <1>5 DEF AskCreate, Creating
    <2>2. now + h \in Int
      BY SharesAssumption DEF IInv, TypeOK
    <2> DEFINE q == Creating(l, i, now + h)
    <2>3. q \in Asked /\ q.op = "create" /\ q.at = "item" /\ q.via = l /\ q.item = i
      BY <2>2, CreatingFacts
    <2>4. rq' = [rq EXCEPT ![c] = q]
      BY <2>1
    <2> HIDE DEF q
    <2>5. \A x \in Commands \ {c} : rq'[x] = rq[x] /\ rq[x].via # l
      BY <2>1, <2>4 DEF IInv, TypeOK, Requests
    <2>6. CommandFits(c)'
      BY <1>2, <1>3, <2>1, <2>3, <2>4, <2>5 DEF CommandFits
    <2> QED
      BY <1>1, <2>3, <2>4, <2>6, TabStep
  <1>6. CASE DeleteItems(c)
    <2>1. PICK i \in Items :
             rq' = [rq EXCEPT ![c] = Changing("delete", "commit", i,
                      {f \in Items : Live(f) /\ Within(f, i)} \cup LinksTo({f \in Items : Live(f) /\ Within(f, i)}))]
      BY <1>6 DEF DeleteItems, Changing
    <2> DEFINE S == {f \in Items : Live(f) /\ Within(f, i)}
               K == S \cup LinksTo(S)
               q == Changing("delete", "commit", i, K)
    <2>2. LinksTo(S) \subseteq Links /\ S \subseteq Items
      BY DEF LinksTo, IInv, TypeOK
    <2> HIDE DEF S
    <2>3. K \in Kept
      BY <2>2 DEF Kept
    <2> HIDE DEF K
    <2>4. q \in Asked /\ q.op = "delete" /\ q.at = "commit" /\ q.item = i /\ q.keeps = K
      BY <2>3, ChangingFacts
    <2>5. rq' = [rq EXCEPT ![c] = q]
      BY <2>1 DEF K, S
    <2> HIDE DEF q
    <2>6. \A l \in DOMAIN link : link[l].item \in K => l \in K
      <3>1. \A l \in DOMAIN link : link[l].item \in Items /\ link[l].item \notin Links
        BY SharesAssumption DEF IInv, TypeOK
      <3> QED
        BY <2>2, <3>1 DEF K, LinksTo
    <2>7. CommandFits(c)'
      BY <1>2, <1>3, <2>4, <2>5, <2>6 DEF CommandFits
    <2> QED
      BY <1>1, <2>4, <2>5, <2>7, TabStep
  <1>7. CASE Merge(c)
    <2>1. PICK f \in Files, g \in Files :
             rq' = [rq EXCEPT ![c] = Changing("merge", "overwrite", f, {g, content[f]})]
      BY <1>7 DEF Merge, Changing
    <2> DEFINE K == {g, content[f]}
               q == Changing("merge", "overwrite", f, K)
    <2>2. f \in Items /\ K \in Kept
      BY DEF Kept, Items, IInv, TypeOK
    <2>3. rq' = [rq EXCEPT ![c] = q]
      BY <2>1
    <2> HIDE DEF K
    <2>4. q \in Asked /\ q.op = "merge" /\ q.at = "overwrite" /\ q.item = f
      BY <2>2, ChangingFacts
    <2> HIDE DEF q
    <2>5. CommandFits(c)'
      BY <1>2, <2>2, <2>3, <2>4 DEF CommandFits
    <2> QED
      BY <1>1, <2>3, <2>4, <2>5, TabStep
  <1> QED
    BY <1>4, <1>5, <1>6, <1>7

LEMMA TabReadsItem ==
    ASSUME IInv, NEW c \in Commands, ReadItem(c)
    PROVE  IInv' /\ AllEndWell
  <1>1. PICK p \in Asked : p = rq[c]
    BY DEF IInv, TypeOK, Requests
  <1>2. /\ p.at = "item" /\ UNCHANGED world /\ Track /\ writes' \in 0..MaxWrites
        /\ UNCHANGED <<link, issued, stray>>
    BY <1>1, CountedWrites DEF ReadItem, At, Follows, world, shares
  <1>3. /\ CommandFits(c) /\ c \in Requests /\ rq \in [Requests -> Asked] /\ c \notin Visits
        /\ p.op \in {"mint", "create"} /\ p.item \in Items /\ (p.op = "mint" => p.item \in Files)
    BY <1>1, <1>2, SharesAssumption DEF IInv, TypeOK, Requests, CommandFits
  <1>4. CASE rq' = [rq EXCEPT ![c] = Idle]
    <2>1. rq'[c] = Idle
      BY <1>3, <1>4
    <2>2. CommandFits(c)'
      BY <2>1, IdleFacts DEF CommandFits
    <2> QED
      BY <1>2, <1>4, <2>2, IdleFacts, TabStep
  <1>5. CASE p.op = "create" /\ rq' = [rq EXCEPT ![c].at = "insert"]
    <2> DEFINE q == [p EXCEPT !.at = "insert"]
    <2>1. q \in Asked /\ q.op = p.op /\ q.at = "insert" /\ q.via = p.via /\ q.item = p.item
      BY DEF Asked, Steps
    <2>2. rq' = [rq EXCEPT ![c] = q]
      BY <1>1, <1>5
    <2> HIDE DEF q
    <2>3. rq'[c] = q /\ \A x \in Commands \ {c} : rq'[x] = rq[x]
      BY <1>3, <2>2 DEF Requests
    <2>4. CommandFits(c)'
      BY <1>1, <1>2, <1>3, <1>5, <2>1, <2>3 DEF CommandFits
    <2> QED
      BY <1>2, <2>1, <2>2, <2>4, TabStep
  <1>6. CASE p.op = "mint" /\ rq' = [rq EXCEPT ![c].at = "issue", ![c].keeps = {content[p.item]}]
    <2> DEFINE K == {content[p.item]}
               q == With(p, "issue", p.item, K, p.shown)
    <2>1. K \in Kept /\ "issue" \in Steps
      BY <1>3, <1>6 DEF IInv, TypeOK, Kept, Steps
    <2>2. rq' = [rq EXCEPT ![c] = [p EXCEPT !.at = "issue", !.keeps = K]]
      BY <1>1, <1>6
    <2> HIDE DEF K
    <2>3. [p EXCEPT !.at = "issue", !.keeps = K] = q
      BY <2>1, HoldsOn
    <2>4. q \in Asked
      <3>1. p.item \in Items \cup {None} /\ p.shown \in Shown
        BY DEF Asked, Shown
      <3> QED
        BY <2>1, <3>1, WithFacts
    <2>5. q.op = "mint" /\ q.at = "issue" /\ q.item = p.item
      BY <1>6 DEF With
    <2>6. rq' = [rq EXCEPT ![c] = q]
      BY <2>2, <2>3
    <2> HIDE DEF q
    <2>7. rq'[c] = q
      BY <1>3, <2>6
    <2>8. CommandFits(c)'
      BY <1>3, <1>6, <2>5, <2>7 DEF CommandFits
    <2> QED
      BY <1>2, <2>4, <2>6, <2>8, TabStep
  <1> QED
    BY <1>1, <1>3, <1>4, <1>5, <1>6 DEF ReadItem, AfterItem, Refuse, Finish, GoOn, Hold

\* Links taken out.
LEMMA DropLinksFacts ==
    ASSUME IInv, NEW L, DropLinks(L)
    PROVE  /\ DOMAIN link' = DOMAIN link \ L
           /\ \A l \in DOMAIN link' : link'[l] = link[l]
           /\ link' \in [DOMAIN link' -> [item : Items, expires : Int]] /\ DOMAIN link' \subseteq Links
           /\ log' \in [DOMAIN link' -> SUBSET Requests]
           /\ LogsKept
  <1>1. link' = [l \in DOMAIN link \ L |-> link[l]] /\ log' = [l \in DOMAIN log \ L |-> log[l]]
    BY DEF DropLinks, Restrict
  <1>2. /\ DOMAIN log = DOMAIN link /\ DOMAIN link \subseteq Links
        /\ \A l \in DOMAIN link : link[l] \in [item : Items, expires : Int]
        /\ \A l \in DOMAIN link : log[l] \in SUBSET Requests
    BY DEF IInv, TypeOK
  <1>3. DOMAIN link' = DOMAIN link \ L /\ \A l \in DOMAIN link' : link'[l] = link[l] /\ log'[l] = log[l]
    BY <1>1, <1>2
  <1>4. link' \in [DOMAIN link' -> [item : Items, expires : Int]]
    BY <1>1, <1>2
  <1>5. log' \in [DOMAIN link' -> SUBSET Requests]
    BY <1>1, <1>2
  <1> QED
    BY <1>2, <1>3, <1>4, <1>5 DEF LogsKept

\* A finished tab.
LEMMA TabEnds ==
    ASSUME IInv, NEW c \in Commands, Finish(c)
    PROVE  rq' = [rq EXCEPT ![c] = Idle] /\ CommandFits(c)'
  <1>1. rq' = [rq EXCEPT ![c] = Idle] /\ rq'[c] = Idle
    BY DEF Finish, IInv, TypeOK, Requests
  <1>2. Idle.at = "idle" /\ Idle.op = "none"
    BY IdleFacts
  <1> QED
    BY <1>1, <1>2 DEF CommandFits

\* The tabs wait while links are only taken out and called stray, and no token is given out.
LEMMA TabsWait ==
    ASSUME IInv, rq' = rq, issued' = issued, stray \subseteq stray',
           \A l \in DOMAIN link' : l \in DOMAIN link /\ link'[l] = link[l]
    PROVE  \A x \in Commands : CommandFits(x)'
  BY DEF IInv, CommandFits

LEMMA TabTells ==
    ASSUME IInv, NEW c \in Commands, TellTicket(c)
    PROVE  IInv' /\ AllEndWell
  <1>1. /\ UNCHANGED <<now, status, place, content, expires, stored, pending, infected, scan, link, log, stray,
                       ticket, batch, swept, restarts>>
        /\ Track /\ writes' \in 0..MaxWrites /\ Finish(c)
    BY CountedWrites DEF TellTicket, Follows, files, contents, cleanup
  <1>2. rq[c].via \in Tickets /\ \A x \in Commands : CommandFits(x)
    BY DEF TellTicket, At, IInv, CommandFits
  <1>3. issued \subseteq issued' /\ issued' \subseteq issued \cup {rq[c].via} /\ issued' \subseteq Links \cup Tickets
    BY <1>2 DEF TellTicket, IInv, TypeOK
  <1>4. rq' = [rq EXCEPT ![c] = Idle] /\ CommandFits(c)' /\ Idle \in Asked
    BY <1>1, TabEnds, IdleFacts
  <1>5. /\ rq' \in [Requests -> Asked] /\ \A r \in Visits : rq'[r] = rq[r]
        /\ \A x \in Commands : CommandFits(x)'
    <2>1. \A x \in Commands \ {c} : rq[x].op = "create" => rq[x].via \notin issued'
      BY <1>2, <1>3, SharesAssumption DEF CommandFits
    <2> QED
      BY <1>1, <1>4, <2>1, TabsFit
  <1>6. TypeOK'
    <2>1. /\ gone' \in [Visits -> SUBSET Things]
          /\ whole' \in [Visits -> BOOLEAN]
      BY <1>1, TrackType
    <2> QED
      BY <1>1, <1>3, <1>5, <2>1 DEF IInv, TypeOK
  <1>7. Onward
    BY <1>1, <1>3 DEF Onward
  <1>8. LogsKept /\ LinksIssued' /\ FoldersStay' /\ DeletedHaveNoLinks'
    BY <1>1, <1>3 DEF IInv, LogsKept, LinksIssued, FoldersStay, DeletedHaveNoLinks
  <1> QED
    BY <1>1, <1>5, <1>6, <1>7, <1>8, OwnersStep

LEMMA TabIssues ==
    ASSUME IInv, NEW c \in Commands, IssueTicket(c)
    PROVE  IInv' /\ AllEndWell
  <1>1. PICK p \in Asked : p = rq[c]
    BY DEF IInv, TypeOK, Requests
  <1>2. /\ UNCHANGED <<now, status, place, content, expires, stored, pending, infected, scan, link, issued, log,
                       stray, batch, swept, restarts>>
        /\ Track /\ writes' \in 0..MaxWrites
    BY CountedWrites DEF IssueTicket, Follows, files, contents, shares, cleanup
  <1>3. PICK t \in Tickets \ (issued \cup DOMAIN ticket) :
           /\ ticket' = Inserted(ticket, t, [file |-> p.item, expires |-> now + TicketLife])
           /\ rq' = [rq EXCEPT ![c].at = "tell", ![c].via = t]
    BY <1>1 DEF IssueTicket
  <1>4. p.at = "issue" /\ p.op = "mint" /\ p.item \in Files /\ \A x \in Commands : CommandFits(x)
    BY <1>1 DEF IssueTicket, At, IInv, CommandFits
  <1> DEFINE row == [file |-> p.item, expires |-> now + TicketLife]
             a == [p EXCEPT !.at = "tell"]
             q == [a EXCEPT !.via = t]
  <1>5. row \in [file : Files, expires : Int] /\ ticket \in [DOMAIN ticket -> [file : Files, expires : Int]]
    BY <1>4, SharesAssumption DEF IInv, TypeOK
  <1>6. rq' = [rq EXCEPT ![c] = [p EXCEPT !.at = "tell", !.via = t]]
    BY <1>1, <1>3
  <1>7. rq' = [rq EXCEPT ![c] = q]
    BY <1>6
  <1>8. a \in Asked /\ a.at = "tell" /\ a.op = "mint"
    BY <1>4 DEF Asked, Steps
  <1> HIDE DEF a
  <1>9. q \in Asked /\ q.at = "tell" /\ q.op = "mint" /\ q.via = t
    BY <1>8 DEF Asked
  <1> HIDE DEF q, row
  <1>10. rq'[c] = q
    BY <1>7 DEF IInv, TypeOK, Requests
  <1>11. CommandFits(c)'
    <2>1. p.item \in Items
      BY <1>4 DEF Items
    <2>2. q.item = p.item
      BY <1>1 DEF q, a, Asked
    <2> QED
      BY <1>4, <1>9, <1>10, <2>2 DEF CommandFits
  <1>12. /\ rq' \in [Requests -> Asked] /\ \A r \in Visits : rq'[r] = rq[r]
         /\ \A x \in Commands : CommandFits(x)'
    <2>1. \A x \in Commands \ {c} : rq[x].op = "create" => rq[x].via \notin issued'
      BY <1>2, <1>4 DEF CommandFits
    <2> QED
      BY <1>2, <1>7, <1>9, <1>11, <2>1, TabsFit
  <1>13. /\ DOMAIN ticket' = DOMAIN ticket \cup {t} /\ ticket' \in [DOMAIN ticket' -> [file : Files, expires : Int]]
         /\ \A u \in DOMAIN ticket \ {t} : ticket'[u] = ticket[u]
    <2>1. ticket' = Inserted(ticket, t, row)
      BY <1>3 DEF row
    <2>2. /\ DOMAIN Inserted(ticket, t, row) = DOMAIN ticket \cup {t}
          /\ Inserted(ticket, t, row) \in [DOMAIN ticket \cup {t} -> [file : Files, expires : Int]]
          /\ \A u \in DOMAIN ticket \ {t} : Inserted(ticket, t, row)[u] = ticket[u]
      BY <1>5 DEF Inserted
    <2> QED
      BY <2>1, <2>2
  <1>14. TypeOK'
    <2>1. /\ gone' \in [Visits -> SUBSET Things]
          /\ whole' \in [Visits -> BOOLEAN]
      BY <1>2, TrackType
    <2>2. DOMAIN ticket' \subseteq Tickets
      BY <1>3, <1>13 DEF IInv, TypeOK
    <2> QED
      BY <1>2, <1>12, <1>13, <2>1, <2>2 DEF IInv, TypeOK
  <1>15. Onward
    <2>1. \A u \in DOMAIN ticket' \cap issued : u \in DOMAIN ticket /\ ticket'[u] = ticket[u]
      BY <1>3, <1>13
    <2> QED
      BY <1>2, <2>1 DEF Onward
  <1>16. LogsKept /\ LinksIssued' /\ FoldersStay' /\ DeletedHaveNoLinks'
    BY <1>2 DEF IInv, LogsKept, LinksIssued, FoldersStay, DeletedHaveNoLinks
  <1> QED
    BY <1>2, <1>12, <1>14, <1>15, <1>16, OwnersStep

LEMMA TabInserts ==
    ASSUME IInv, NEW c \in Commands, InsertLink(c)
    PROVE  IInv' /\ AllEndWell
  <1>1. PICK p \in Asked : p = rq[c]
    BY DEF IInv, TypeOK, Requests
  <1>2. /\ UNCHANGED <<now, status, place, content, expires, stored, pending, infected, scan, ticket, batch, swept,
                       restarts>>
        /\ Track /\ writes' \in 0..MaxWrites /\ Finish(c)
    BY CountedWrites DEF InsertLink, Follows, files, contents, cleanup
  <1>3. /\ p.at = "insert" /\ p.item \in Items /\ p.via \in Links \ issued /\ p.until \in Int
        /\ \A x \in Commands : CommandFits(x)
        /\ \A x \in Commands \ {c} : rq[x].op = "create" => rq[x].via # p.via
    BY <1>1 DEF InsertLink, At, IInv, CommandFits, Asked
  <1>4. rq' = [rq EXCEPT ![c] = Idle] /\ CommandFits(c)' /\ Idle \in Asked
    BY <1>2, TabEnds, IdleFacts
  <1>5. CASE UNCHANGED shares
    <2>1. UNCHANGED world
      BY <1>2, <1>5 DEF world, files, contents, shares, cleanup
    <2> QED
      BY <1>2, <1>4, <2>1, TabStep
  <1>6. CASE /\ status[p.item] # "purged"
             /\ link' = Inserted(link, p.via, [item |-> p.item, expires |-> p.until])
             /\ issued' = issued \cup {p.via}
             /\ log' = Inserted(log, p.via, {})
             /\ stray' = IF GoingAway(p.item) THEN stray \cup {p.via} ELSE stray
    <2> DEFINE row == [item |-> p.item, expires |-> p.until]
    <2>1. row \in [item : Items, expires : Int] /\ row.item = p.item
      BY <1>3
    <2>2. link \in [DOMAIN link -> [item : Items, expires : Int]] /\ log \in [DOMAIN link -> SUBSET Requests]
          /\ DOMAIN link \subseteq Links /\ p.via \notin DOMAIN link
      BY <1>3 DEF IInv, TypeOK, LinksIssued
    <2>3. link' = Inserted(link, p.via, row)
      BY <1>6
    <2> HIDE DEF row
    <2>4. /\ DOMAIN link' = DOMAIN link \cup {p.via} /\ link'[p.via] = row
          /\ \A l \in DOMAIN link : link'[l] = link[l]
          /\ link' \in [DOMAIN link' -> [item : Items, expires : Int]]
      BY <2>1, <2>2, <2>3 DEF Inserted
    <2>5. log' \in [DOMAIN link \cup {p.via} -> SUBSET Requests] /\ log'[p.via] = {}
          /\ \A l \in DOMAIN link : log'[l] = log[l]
      BY <1>6, <2>2 DEF Inserted
    <2>6. /\ rq' \in [Requests -> Asked] /\ \A r \in Visits : rq'[r] = rq[r]
          /\ \A x \in Commands : CommandFits(x)'
      <3>1. \A x \in Commands \ {c} : rq[x].op = "create" => rq[x].via \notin issued'
        BY <1>3, <1>6 DEF CommandFits
      <3>2. ASSUME NEW x \in Commands \ {c}, rq[x].at = "commit", NEW l \in DOMAIN link' \ stray'
            PROVE  (l \in DOMAIN link \ stray /\ link'[l].item = link[l].item) \/ link'[l].item \notin rq[x].keeps
        <4>1. CASE l = p.via
          <5>1. ~ GoingAway(p.item)
            BY <1>6, <3>2, <4>1
          <5> QED
            BY <2>1, <2>4, <3>2, <4>1, <5>1 DEF GoingAway, At, Requests
        <4>2. CASE l # p.via
          BY <1>6, <2>4, <3>2, <4>2
        <4> QED
          BY <4>1, <4>2
      <3> QED
        BY <1>4, <3>1, <3>2, TabsFit
    <2>7. TypeOK'
      <3>1. /\ gone' \in [Visits -> SUBSET Things]
            /\ whole' \in [Visits -> BOOLEAN]
        BY <1>2, TrackType
      <3>2. issued' \subseteq Links \cup Tickets /\ stray' \subseteq Links
        BY <1>3, <1>6 DEF IInv, TypeOK
      <3> QED
        BY <1>2, <1>3, <2>2, <2>4, <2>5, <2>6, <3>1, <3>2 DEF IInv, TypeOK
    <2>8. Onward
      <3>1. \A l \in DOMAIN link' \cap issued : l \in DOMAIN link /\ link'[l] = link[l]
        BY <1>3, <2>4
      <3> QED
        BY <1>2, <1>6, <3>1 DEF Onward
    <2>9. LogsKept /\ LinksIssued' /\ FoldersStay'
      BY <1>2, <1>3, <1>6, <2>4, <2>5 DEF LogsKept, IInv, LinksIssued, FoldersStay
    <2>10. DeletedHaveNoLinks'
      <3> SUFFICES ASSUME NEW l \in DOMAIN link' \ stray', status'[link'[l].item] = "deleted"
                   PROVE  link'[l].item \in swept'
        BY DEF DeletedHaveNoLinks
      <3>1. l # p.via
        BY <1>2, <1>6, <2>1, <2>4 DEF GoingAway, Live
      <3>2. l \in DOMAIN link \ stray /\ link'[l] = link[l]
        BY <1>6, <2>4, <3>1
      <3> QED
        BY <1>2, <3>2 DEF IInv, DeletedHaveNoLinks
    <2> QED
      BY <1>2, <2>6, <2>7, <2>8, <2>9, <2>10, OwnersStep
  <1> QED
    BY <1>1, <1>5, <1>6 DEF InsertLink

LEMMA TabCommits ==
    ASSUME IInv, NEW c \in Commands, CommitDelete(c)
    PROVE  IInv' /\ AllEndWell
  <1> DEFINE K == rq[c].keeps
  <1>1. /\ UNCHANGED <<now, place, content, expires, pending, infected, scan, issued, stray, ticket, batch, swept,
                       restarts>>
        /\ Track /\ writes' \in 0..MaxWrites /\ Finish(c) /\ rq[c].at = "commit"
    BY CountedWrites DEF CommitDelete, Follows, At, cleanup
  <1>2. /\ \A x \in Commands : CommandFits(x)
        /\ \A l \in DOMAIN link \ stray : link[l].item \in K => l \in K
    BY <1>1 DEF IInv, CommandFits
  <1>3. rq' = [rq EXCEPT ![c] = Idle] /\ CommandFits(c)' /\ Idle \in Asked
    BY <1>1, TabEnds, IdleFacts
  <1>4. CASE UNCHANGED <<status, stored, link, log>>
    <2>1. UNCHANGED world
      BY <1>1, <1>4 DEF world, files, contents, shares, cleanup
    <2> QED
      BY <1>1, <1>3, <2>1, TabStep
  <1>5. CASE /\ status' = [i \in Items |-> IF i \in K THEN "deleted" ELSE status[i]]
             /\ stored' = StillUsed(status', content)
             /\ DropLinks(K)
    <2>1. /\ DOMAIN link' = DOMAIN link \ K /\ \A l \in DOMAIN link' : link'[l] = link[l]
          /\ link' \in [DOMAIN link' -> [item : Items, expires : Int]] /\ DOMAIN link' \subseteq Links
          /\ log' \in [DOMAIN link' -> SUBSET Requests] /\ LogsKept
      BY <1>5, DropLinksFacts
    <2>2. /\ rq' \in [Requests -> Asked] /\ \A r \in Visits : rq'[r] = rq[r]
          /\ \A x \in Commands : CommandFits(x)'
      <3>1. \A x \in Commands \ {c} : rq[x].op = "create" => rq[x].via \notin issued'
        BY <1>1, <1>2 DEF CommandFits
      <3>2. \A l \in DOMAIN link' \ stray' : l \in DOMAIN link \ stray /\ link'[l].item = link[l].item
        BY <1>1, <2>1
      <3> QED
        BY <1>3, <3>1, <3>2, TabsFit
    <2>3. status' \in [Items -> {"live", "deleted", "purged"}] /\ stored' \subseteq Contents
      BY <1>5 DEF IInv, TypeOK, StillUsed
    <2>4. TypeOK'
      <3>1. /\ gone' \in [Visits -> SUBSET Things]
            /\ whole' \in [Visits -> BOOLEAN]
        BY <1>1, TrackType
      <3> QED
        BY <1>1, <2>1, <2>2, <2>3, <3>1 DEF IInv, TypeOK
    <2>5. Onward
      BY <1>1, <2>1 DEF Onward
    <2>6. LinksIssued' /\ FoldersStay'
      BY <1>1, <1>5, <2>1 DEF IInv, LinksIssued, FoldersStay, Items
    <2>7. DeletedHaveNoLinks'
      <3> SUFFICES ASSUME NEW l \in DOMAIN link' \ stray', status'[link'[l].item] = "deleted"
                   PROVE  link'[l].item \in swept'
        BY DEF DeletedHaveNoLinks
      <3>1. l \in DOMAIN link \ stray /\ link'[l] = link[l] /\ l \notin K /\ link[l].item \in Items
        BY <1>1, <2>1 DEF IInv, TypeOK
      <3>2. status[link[l].item] = "deleted"
        BY <1>2, <1>5, <3>1
      <3> QED
        BY <1>1, <3>1, <3>2 DEF IInv, DeletedHaveNoLinks
    <2> QED
      BY <1>1, <2>1, <2>2, <2>4, <2>5, <2>6, <2>7, OwnersStep
  <1> QED
    BY <1>4, <1>5 DEF CommitDelete

LEMMA TabOverwrites ==
    ASSUME IInv, NEW c \in Commands, Overwrite(c)
    PROVE  IInv' /\ AllEndWell
  <1>1. PICK p \in Asked : p = rq[c]
    BY DEF IInv, TypeOK, Requests
  <1>2. /\ UNCHANGED <<now, status, place, expires, stored, pending, infected, scan, link, issued, log, stray, ticket,
                       batch, swept, restarts>>
        /\ Track /\ writes' \in 0..MaxWrites /\ p.at = "overwrite"
    BY <1>1, CountedWrites DEF Overwrite, Follows, At, contents, shares, cleanup
  <1>3. /\ c \in Requests /\ rq \in [Requests -> Asked] /\ p.item \in Items
        /\ \A x \in Commands : CommandFits(x)
    BY <1>1, <1>2 DEF IInv, TypeOK, Requests, CommandFits
  <1>4. PICK q \in Asked : /\ rq' = [rq EXCEPT ![c] = q] /\ CommandFits(c)'
                           /\ content' \in [Files -> Contents]
    <2>1. CASE Finish(c) /\ UNCHANGED content
      <3>1. content' \in [Files -> Contents]
        BY <2>1 DEF IInv, TypeOK
      <3> QED
        BY <2>1, <3>1, TabEnds, IdleFacts
    <2>2. ASSUME NEW g \in Files, NEW d \in Contents, content' = [content EXCEPT ![g] = d], GoOn(c, "remove")
          PROVE  \E q \in Asked : rq' = [rq EXCEPT ![c] = q] /\ CommandFits(c)' /\ content' \in [Files -> Contents]
      <3> DEFINE q == [p EXCEPT !.at = "remove"]
      <3>1. q \in Asked /\ q.op = p.op /\ q.at = "remove" /\ q.via = p.via /\ q.item = p.item
        BY DEF Asked, Steps
      <3>2. rq' = [rq EXCEPT ![c] = q]
        BY <1>1, <2>2 DEF GoOn
      <3> HIDE DEF q
      <3>3. rq'[c] = q /\ \A x \in Commands \ {c} : rq'[x] = rq[x]
        BY <1>3, <3>2 DEF Requests
      <3>4. CommandFits(c)'
        BY <1>1, <1>2, <1>3, <3>1, <3>3 DEF CommandFits
      <3>5. content' \in [Files -> Contents]
        BY <2>2 DEF IInv, TypeOK
      <3> QED
        BY <3>1, <3>2, <3>4, <3>5
    <2>3. PICK g \in rq[c].keeps \cap Files, d \in rq[c].keeps \cap Contents :
             IF status[g] = "purged" \/ d \notin stored
               THEN Finish(c) /\ UNCHANGED content
               ELSE content' = [content EXCEPT ![g] = d] /\ GoOn(c, "remove")
      BY DEF Overwrite
    <2> QED
      BY <2>1, <2>2, <2>3
  <1>5. /\ rq' \in [Requests -> Asked] /\ \A r \in Visits : rq'[r] = rq[r]
        /\ \A x \in Commands : CommandFits(x)'
    <2>1. \A x \in Commands \ {c} : rq[x].op = "create" => rq[x].via \notin issued'
      BY <1>2, <1>3 DEF CommandFits
    <2> QED
      BY <1>2, <1>4, <2>1, TabsFit
  <1>6. TypeOK'
    <2>1. /\ gone' \in [Visits -> SUBSET Things]
          /\ whole' \in [Visits -> BOOLEAN]
      BY <1>2, TrackType
    <2> QED
      BY <1>2, <1>4, <1>5, <2>1 DEF IInv, TypeOK
  <1>7. Onward
    BY <1>2, RestIsOnward
  <1>8. LogsKept /\ LinksIssued' /\ FoldersStay' /\ DeletedHaveNoLinks'
    BY <1>2 DEF IInv, LogsKept, LinksIssued, FoldersStay, DeletedHaveNoLinks
  <1> QED
    BY <1>2, <1>5, <1>6, <1>7, <1>8, OwnersStep

LEMMA TabRemoves ==
    ASSUME IInv, NEW c \in Commands, RemoveMerged(c)
    PROVE  IInv' /\ AllEndWell
  <1> DEFINE i == rq[c].item
  <1>1. /\ UNCHANGED <<now, place, content, expires, pending, infected, scan, link, issued, log, ticket, batch, swept,
                       restarts>>
        /\ Track /\ writes' \in 0..MaxWrites /\ Finish(c)
    BY CountedWrites DEF RemoveMerged, Follows, cleanup
  <1>2. i \in Items /\ \A x \in Commands : CommandFits(x)
    BY DEF RemoveMerged, At, IInv, CommandFits
  <1>3. rq' = [rq EXCEPT ![c] = Idle] /\ CommandFits(c)' /\ Idle \in Asked
    BY <1>1, TabEnds, IdleFacts
  <1>4. CASE UNCHANGED <<status, stored, stray>>
    <2>1. UNCHANGED world
      BY <1>1, <1>4 DEF world, files, contents, shares, cleanup
    <2> QED
      BY <1>1, <1>3, <2>1, TabStep
  <1>5. CASE /\ status' = [status EXCEPT ![i] = "deleted"]
             /\ stored' = StillUsed(status', content)
             /\ stray' = stray \cup LinksTo({i})
    <2> HIDE DEF i
    <2>1. /\ rq' \in [Requests -> Asked] /\ \A r \in Visits : rq'[r] = rq[r]
          /\ \A x \in Commands : CommandFits(x)'
      <3>1. \A x \in Commands \ {c} : rq[x].op = "create" => rq[x].via \notin issued'
        BY <1>1, <1>2 DEF CommandFits
      <3>2. \A l \in DOMAIN link' \ stray' : l \in DOMAIN link \ stray /\ link'[l].item = link[l].item
        BY <1>1, <1>5
      <3> QED
        BY <1>3, <3>1, <3>2, TabsFit
    <2>2. /\ status' \in [Items -> {"live", "deleted", "purged"}] /\ stored' \subseteq Contents
          /\ stray' \subseteq Links
      BY <1>2, <1>5 DEF IInv, TypeOK, StillUsed, LinksTo
    <2>3. \A k \in Items : status'[k] = IF k = i THEN "deleted" ELSE status[k]
      BY <1>2, <1>5 DEF IInv, TypeOK
    <2>4. TypeOK'
      <3>1. /\ gone' \in [Visits -> SUBSET Things]
            /\ whole' \in [Visits -> BOOLEAN]
        BY <1>1, TrackType
      <3> QED
        BY <1>1, <2>1, <2>2, <3>1 DEF IInv, TypeOK
    <2>5. Onward
      BY <1>1 DEF Onward
    <2>6. LogsKept /\ LinksIssued' /\ FoldersStay'
      BY <1>1, <2>3 DEF IInv, LogsKept, LinksIssued, FoldersStay, Items
    <2>7. DeletedHaveNoLinks'
      <3> SUFFICES ASSUME NEW l \in DOMAIN link' \ stray', status'[link'[l].item] = "deleted"
                   PROVE  link'[l].item \in swept'
        BY DEF DeletedHaveNoLinks
      <3>1. l \in DOMAIN link \ stray /\ link'[l] = link[l] /\ link[l].item # i /\ link[l].item \in Items
        BY <1>1, <1>5 DEF IInv, TypeOK, LinksTo
      <3>2. status[link[l].item] = "deleted"
        BY <2>3, <3>1
      <3> QED
        BY <1>1, <3>1, <3>2 DEF IInv, DeletedHaveNoLinks
    <2> QED
      BY <1>1, <2>1, <2>4, <2>5, <2>6, <2>7, OwnersStep
  <1> QED
    BY <1>4, <1>5 DEF RemoveMerged

LEMMA TabUploads ==
    ASSUME IInv, NEW c \in Commands, Upload(c)
    PROVE  IInv' /\ AllEndWell
  <1>1. /\ UNCHANGED <<now, status, place, content, expires, scan, link, issued, log, stray, ticket, batch, swept,
                       restarts>>
        /\ Track /\ writes' \in 0..MaxWrites
    BY CountedWrites DEF Upload, Counted, files, shares, cleanup
  <1>2. PICK f \in Files, d \in Contents, h \in FileLives :
           /\ rq' = [rq EXCEPT ![c] = Overwriting(f, d, now + h)]
           /\ stored' = stored \cup {d}
           /\ pending' = IF d \in stored THEN pending ELSE pending \cup {d}
           /\ infected' = IF d \in stored THEN infected ELSE infected \ {d}
    BY DEF Upload, Overwriting
  <1>3. now + h \in Int /\ f \in Items
    BY SharesAssumption DEF IInv, TypeOK, Items
  <1> DEFINE q == Overwriting(f, d, now + h)
  <1>4. q \in Asked /\ q.op = "upload" /\ q.at = "replace"
    BY <1>3, OverwritingFacts
  <1>5. rq' = [rq EXCEPT ![c] = q]
    BY <1>2
  <1> HIDE DEF q
  <1>6. rq'[c] = q
    BY <1>4, <1>5 DEF IInv, TypeOK, Requests
  <1>7. CommandFits(c)'
    BY <1>4, <1>6 DEF CommandFits
  <1>8. ThingsOK'
    BY <1>1, <1>2 DEF IInv, TypeOK, ThingsOK
  <1> QED
    BY <1>1, <1>4, <1>5, <1>7, <1>8, TabWrites

LEMMA TabReplaces ==
    ASSUME IInv, NEW c \in Commands, Replace(c)
    PROVE  IInv' /\ AllEndWell
  <1>1. PICK p \in Asked : p = rq[c]
    BY DEF IInv, TypeOK, Requests
  <1>2. /\ UNCHANGED <<now, status, place, stored, pending, infected, scan, link, issued, log, stray, ticket,
                       batch, swept, restarts>>
        /\ Track /\ writes' \in 0..MaxWrites /\ p.at = "replace"
    BY <1>1, CountedWrites DEF Replace, Follows, At, contents, shares, cleanup
  <1>3. CASE Finish(c) /\ UNCHANGED <<content, expires>>
    <2>1. rq' = [rq EXCEPT ![c] = Idle] /\ CommandFits(c)' /\ Idle \in Asked
      BY <1>3, TabEnds, IdleFacts
    <2>2. ThingsOK'
      BY <1>2, <1>3 DEF IInv, TypeOK, ThingsOK
    <2> QED
      BY <1>2, <2>1, <2>2, TabWrites
  <1>4. ASSUME NEW d \in Contents, content' = [content EXCEPT ![p.item] = d],
               expires' = [expires EXCEPT ![p.item] = p.until], GoOn(c, "release")
        PROVE  IInv' /\ AllEndWell
    <2> DEFINE q == [p EXCEPT !.at = "release"]
    <2>1. q \in Asked /\ q.op = p.op /\ q.at = "release" /\ q.via = p.via /\ q.item = p.item
      BY DEF Asked, Steps
    <2>2. rq' = [rq EXCEPT ![c] = q]
      BY <1>1, <1>4 DEF GoOn
    <2> HIDE DEF q
    <2>3. rq'[c] = q /\ \A x \in Commands \ {c} : rq'[x] = rq[x]
      BY <2>1, <2>2 DEF IInv, TypeOK, Requests
    <2>4. CommandFits(c)'
      BY <1>1, <1>2, <2>1, <2>3 DEF IInv, CommandFits
    <2>5. content' \in [Files -> Contents]
      BY <1>4 DEF IInv, TypeOK
    <2>6. expires' \in [Files -> Int]
      <3>1. p.until \in Int
        BY DEF Asked
      <3> QED
        BY <1>4, <3>1 DEF IInv, TypeOK
    <2>7. ThingsOK'
      BY <1>2, <2>5, <2>6 DEF IInv, TypeOK, ThingsOK
    <2> QED
      BY <1>2, <2>1, <2>2, <2>4, <2>7, TabWrites
  <1>5. stored \subseteq Contents
    BY DEF IInv, TypeOK
  <1> QED
    BY <1>1, <1>3, <1>4, <1>5 DEF Replace

LEMMA TabReleases ==
    ASSUME IInv, NEW c \in Commands, ReleaseReplaced(c)
    PROVE  IInv' /\ AllEndWell
  <1>1. /\ UNCHANGED <<now, status, place, content, expires, pending, infected, scan, link, issued, log, stray,
                       ticket, batch, swept, restarts>>
        /\ Track /\ writes' \in 0..MaxWrites /\ Finish(c) /\ stored' \subseteq stored
    BY CountedWrites DEF ReleaseReplaced, Follows, StillUsed, files, shares, cleanup
  <1>2. rq' = [rq EXCEPT ![c] = Idle] /\ CommandFits(c)' /\ Idle \in Asked
    BY <1>1, TabEnds, IdleFacts
  <1>3. ThingsOK'
    BY <1>1 DEF IInv, TypeOK, ThingsOK
  <1> QED
    BY <1>1, <1>2, <1>3, TabWrites

LEMMA CommandKeepsIInv ==
    ASSUME IInv, NEW c \in Commands, Command(c) \/ Uploading(c)
    PROVE  IInv' /\ AllEndWell
  BY TabAsks, TabReadsItem, TabIssues, TabTells, TabInserts, TabCommits, TabOverwrites, TabRemoves,
     TabUploads, TabReplaces, TabReleases DEF Command, Uploading

-----------------------------------------------------------------------------
\* What happens by itself, with no request taking part.
LEMMA WorldStep ==
    ASSUME IInv, UNCHANGED <<issued, stray, ticket, rq, restarts>>, Track, writes' \in 0..MaxWrites, ThingsOK',
           DOMAIN link' \subseteq DOMAIN link, \A l \in DOMAIN link' : link'[l] = link[l],
           link' \in [DOMAIN link' -> [item : Items, expires : Int]], log' \in [DOMAIN link' -> SUBSET Requests],
           LogsKept, FoldersStay', DeletedHaveNoLinks'
    PROVE  IInv' /\ AllEndWell
  <1>1. rq' \in [Requests -> Asked] /\ \A r \in Visits : rq'[r] = rq[r]
    BY DEF IInv, TypeOK
  <1>2. \A x \in Commands : CommandFits(x)'
    BY TabsWait
  <1>3. TypeOK'
    <2>1. gone' \in [Visits -> SUBSET Things] /\ whole' \in [Visits -> BOOLEAN]
      BY TrackType
    <2>2. DOMAIN link' \subseteq Links
      BY DEF IInv, TypeOK
    <2> QED
      BY <1>1, <2>1, <2>2 DEF IInv, TypeOK, ThingsOK
  <1>4. Onward
    BY DEF Onward
  <1>5. LinksIssued'
    BY DEF IInv, LinksIssued
  <1> QED
    BY <1>1, <1>2, <1>3, <1>4, <1>5, OwnersStep

LEMMA LinksStay ==
    ASSUME IInv, UNCHANGED <<link, log>>
    PROVE  /\ DOMAIN link' \subseteq DOMAIN link /\ \A l \in DOMAIN link' : link'[l] = link[l]
           /\ link' \in [DOMAIN link' -> [item : Items, expires : Int]] /\ log' \in [DOMAIN link' -> SUBSET Requests]
           /\ LogsKept
  BY DEF IInv, TypeOK, LogsKept

\* One that leaves the links and the marks alone: nothing is known of a deletion.
LEMMA QuietStep ==
    ASSUME IInv, UNCHANGED <<status, link, log, issued, stray, ticket, rq, restarts>>, Track,
           writes' \in 0..MaxWrites, ThingsOK', swept \cap Files \subseteq swept'
    PROVE  IInv' /\ AllEndWell
  <1>1. /\ DOMAIN link' \subseteq DOMAIN link /\ \A l \in DOMAIN link' : link'[l] = link[l]
        /\ link' \in [DOMAIN link' -> [item : Items, expires : Int]] /\ log' \in [DOMAIN link' -> SUBSET Requests]
        /\ LogsKept
    BY LinksStay
  <1>2. DeletedHaveNoLinks'
    <2>1. ASSUME NEW l \in DOMAIN link \ stray, status[link[l].item] = "deleted" PROVE link[l].item \in swept'
      <3>1. link[l].item \in Items /\ link[l].item \in swept /\ swept \subseteq Files \cup Contents
        BY <2>1 DEF IInv, TypeOK, DeletedHaveNoLinks
      <3> QED
        BY <3>1, SharesAssumption DEF Items
    <2> QED
      BY <2>1 DEF DeletedHaveNoLinks
  <1> QED
    BY <1>1, <1>2, WorldStep DEF IInv, FoldersStay

LEMMA RevokeKeepsIInv ==
    ASSUME IInv, NEW l \in Links, Revoke(l)
    PROVE  IInv' /\ AllEndWell
  <1>1. /\ UNCHANGED <<now, files, contents, issued, stray, ticket, cleanup, rq, restarts>>
        /\ DropLinks({l}) /\ Track /\ writes' \in 0..MaxWrites
    BY CountedWrites DEF Revoke, Counted
  <1>2. /\ DOMAIN link' = DOMAIN link \ {l} /\ \A k \in DOMAIN link' : link'[k] = link[k]
        /\ link' \in [DOMAIN link' -> [item : Items, expires : Int]]
        /\ log' \in [DOMAIN link' -> SUBSET Requests] /\ LogsKept
    BY <1>1, DropLinksFacts
  <1>3. ThingsOK' /\ UNCHANGED <<status, swept>>
    BY <1>1, ThingsStay DEF files, cleanup
  <1>4. FoldersStay' /\ DeletedHaveNoLinks'
    BY <1>1, <1>2, <1>3 DEF IInv, FoldersStay, DeletedHaveNoLinks
  <1> QED
    BY <1>1, <1>2, <1>3, <1>4, WorldStep

LEMMA SweepMarkKeepsIInv ==
    ASSUME IInv, NEW f \in Files, SweepMark(f)
    PROVE  IInv' /\ AllEndWell
  <1>1. /\ UNCHANGED <<now, place, content, expires, stored, pending, infected, scan, link, issued, log, stray, ticket,
                       rq, restarts>>
        /\ Track /\ writes' \in 0..MaxWrites /\ batch' = batch \ {f} /\ f \in Items
    BY CountedWrites DEF SweepMark, contents, shares, Follows, Items
  <1>2. CASE UNCHANGED <<status, swept>>
    <2>1. ThingsOK'
      BY <1>1, <1>2 DEF IInv, TypeOK, ThingsOK
    <2> QED
      BY <1>1, <1>2, <2>1, QuietStep
  <1>3. CASE status' = [status EXCEPT ![f] = "deleted"] /\ swept' = swept \cup {f}
    <2>1. /\ DOMAIN link' \subseteq DOMAIN link /\ \A l \in DOMAIN link' : link'[l] = link[l]
          /\ link' \in [DOMAIN link' -> [item : Items, expires : Int]] /\ log' \in [DOMAIN link' -> SUBSET Requests]
          /\ LogsKept
      BY <1>1, LinksStay
    <2>2. /\ status' \in [Items -> {"live", "deleted", "purged"}]
          /\ \A i \in Items : status'[i] = IF i = f THEN "deleted" ELSE status[i]
      BY <1>1, <1>3 DEF IInv, TypeOK
    <2>3. FoldersStay'
      BY <2>2 DEF IInv, FoldersStay, Items
    <2>4. DeletedHaveNoLinks'
      <3>1. \A l \in DOMAIN link : link[l].item \in Items
        BY DEF IInv, TypeOK
      <3> QED
        BY <1>1, <1>3, <2>2, <3>1 DEF IInv, DeletedHaveNoLinks
    <2>5. ThingsOK'
      BY <1>1, <1>3, <2>2 DEF IInv, TypeOK, ThingsOK
    <2> QED
      BY <1>1, <2>1, <2>3, <2>4, <2>5, WorldStep
  <1> QED
    BY <1>2, <1>3 DEF SweepMark

LEMMA SweepLinksKeepsIInv ==
    ASSUME IInv, NEW f \in Files, SweepLinks(f)
    PROVE  IInv' /\ AllEndWell
  <1>1. /\ UNCHANGED <<now, status, place, content, expires, pending, infected, scan, issued, stray, ticket, batch,
                       rq, restarts>>
        /\ Track /\ writes' \in 0..MaxWrites /\ swept' = swept \ {f} /\ DropLinks(LinksTo({f}))
        /\ stored' \subseteq stored
    BY CountedWrites DEF SweepLinks, Follows, StillUsed, files
  <1>2. /\ DOMAIN link' = DOMAIN link \ LinksTo({f}) /\ \A l \in DOMAIN link' : link'[l] = link[l]
        /\ link' \in [DOMAIN link' -> [item : Items, expires : Int]]
        /\ log' \in [DOMAIN link' -> SUBSET Requests] /\ LogsKept
    BY <1>1, DropLinksFacts
  <1>3. FoldersStay'
    BY <1>1 DEF IInv, FoldersStay
  <1>4. DeletedHaveNoLinks'
    <2>1. \A l \in DOMAIN link' : link[l].item # f
      BY <1>2 DEF LinksTo
    <2> QED
      BY <1>1, <1>2, <2>1 DEF IInv, DeletedHaveNoLinks
  <1>5. ThingsOK'
    BY <1>1 DEF IInv, TypeOK, ThingsOK
  <1> QED
    BY <1>1, <1>2, <1>3, <1>4, <1>5, WorldStep

LEMMA PurgeFilesKeepsIInv ==
    ASSUME IInv, NEW d \in Contents, PurgeFiles(d)
    PROVE  IInv' /\ AllEndWell
  <1> DEFINE H == Holders(d)
  <1>1. /\ UNCHANGED <<now, place, content, expires, stored, pending, infected, scan, issued, stray, ticket, rq,
                       restarts>>
        /\ Track /\ writes' \in 0..MaxWrites /\ batch' = batch \ {d} /\ swept' = (swept \ H) \cup {d}
        /\ status' = [i \in Items |-> IF i \in H THEN "purged" ELSE status[i]] /\ H \subseteq Files
        /\ DropLinks(LinksTo(H))
    BY CountedWrites DEF PurgeFiles, Follows, Holders, contents
  <1> HIDE DEF H
  <1>2. /\ DOMAIN link' = DOMAIN link \ LinksTo(H) /\ \A l \in DOMAIN link' : link'[l] = link[l]
        /\ link' \in [DOMAIN link' -> [item : Items, expires : Int]]
        /\ log' \in [DOMAIN link' -> SUBSET Requests] /\ LogsKept
    BY <1>1, DropLinksFacts
  <1>3. FoldersStay'
    BY <1>1, SharesAssumption DEF IInv, FoldersStay, Items
  <1>4. DeletedHaveNoLinks'
    <2>1. \A l \in DOMAIN link' : link'[l] = link[l] /\ link[l].item \notin H /\ link[l].item \in Items
      BY <1>2 DEF LinksTo, IInv, TypeOK
    <2> QED
      BY <1>1, <1>2, <2>1 DEF IInv, DeletedHaveNoLinks
  <1>5. status' \in [Items -> {"live", "deleted", "purged"}]
    BY <1>1 DEF IInv, TypeOK
  <1>6. ThingsOK'
    BY <1>1, <1>5 DEF IInv, TypeOK, ThingsOK
  <1> QED
    BY <1>1, <1>2, <1>3, <1>4, <1>6, WorldStep

LEMMA PurgeRowKeepsIInv ==
    ASSUME IInv, NEW d \in Contents, PurgeRow(d)
    PROVE  IInv' /\ AllEndWell
  <1>1. /\ UNCHANGED <<now, status, place, content, expires, pending, infected, scan, link, log, issued, stray, ticket,
                       batch, rq, restarts>>
        /\ Track /\ writes' \in 0..MaxWrites /\ stored' \subseteq stored /\ swept' = swept \ {d}
    BY CountedWrites DEF PurgeRow, Follows, files, shares
  <1>2. d \notin Files
    BY SharesAssumption DEF Items
  <1>3. ThingsOK'
    BY <1>1 DEF IInv, TypeOK, ThingsOK
  <1> QED
    BY <1>1, <1>2, <1>3, QuietStep

LEMMA ListKeepsIInv ==
    ASSUME IInv, ListDue
    PROVE  IInv' /\ AllEndWell
  <1>1. /\ UNCHANGED <<now, status, place, content, expires, stored, pending, infected, scan, link, log, issued, stray,
                       ticket, swept, rq, restarts>>
        /\ Track /\ writes' \in 0..MaxWrites
    BY CountedWrites DEF ListDue, Counted, files, contents, shares
  <1>2. batch' \subseteq Files \cup Contents
    BY DEF ListDue, IInv, TypeOK
  <1>3. ThingsOK'
    BY <1>1, <1>2 DEF IInv, TypeOK, ThingsOK
  <1> QED
    BY <1>1, <1>3, QuietStep

\* Whatever a scanner does to the contents, it leaves the files and links to others.
LEMMA ScanKeepsIInv ==
    ASSUME IInv, NEW s \in Scanners, (\E d \in Contents : SelectForScan(s, d)) \/ Claim(s) \/ Conclude(s)
    PROVE  IInv' /\ AllEndWell
  <1>1. /\ UNCHANGED <<now, status, place, content, expires, stored, link, log, issued, stray, ticket, batch, swept,
                       rq, restarts>>
        /\ Track /\ writes' \in 0..MaxWrites
    BY CountedWrites DEF SelectForScan, Claim, Conclude, Counted, Follows, files, shares, cleanup
  <1> DEFINE Row == [of : Contents \cup {None}, claimed : BOOLEAN]
  <1>2. scan \in [Scanners -> Row] /\ \A x \in Scanners : scan[x] # Free => scan[x].of \in Contents
    BY DEF IInv, TypeOK
  <1>3. Free \in Row /\ ~ Free.claimed
    BY DEF Free
  <1>4. ASSUME NEW q \in Row, q # Free => q.of \in Contents, scan' = [scan EXCEPT ![s] = q],
               pending' \subseteq Contents, infected' \subseteq Contents
        PROVE  IInv' /\ AllEndWell
    <2>1. scan' \in [Scanners -> Row] /\ \A x \in Scanners : scan'[x] # Free => scan'[x].of \in Contents
      BY <1>2, <1>4
    <2>2. ThingsOK'
      BY <1>1, <1>4, <2>1 DEF IInv, TypeOK, ThingsOK
    <2> QED
      BY <1>1, <2>2, QuietStep
  <1>5. ASSUME NEW d \in Contents, SelectForScan(s, d) PROVE IInv' /\ AllEndWell
    <2> DEFINE q == [scan[s] EXCEPT !.of = d]
    <2>1. q \in Row /\ q.of = d
      BY <1>2
    <2>2. /\ scan' = [scan EXCEPT ![s] = q] /\ pending' \subseteq Contents /\ infected' \subseteq Contents
      BY <1>5 DEF SelectForScan, IInv, TypeOK
    <2> HIDE DEF q, Row
    <2> QED
      BY <1>4, <2>1, <2>2
  <1>6. CASE Claim(s)
    <2> DEFINE q == [scan[s] EXCEPT !.claimed = TRUE]
    <2>1. q \in Row /\ q.of \in Contents
      BY <1>2, <1>6 DEF Claim
    <2>2. /\ scan' = [scan EXCEPT ![s] = q] /\ pending' \subseteq Contents /\ infected' \subseteq Contents
      BY <1>6 DEF Claim, IInv, TypeOK
    <2> HIDE DEF q, Row
    <2> QED
      BY <1>4, <2>1, <2>2
  <1>7. CASE Conclude(s)
    <2>1. scan[s].of \in Contents
      BY <1>2, <1>3, <1>7 DEF Conclude
    <2>2. /\ scan' = [scan EXCEPT ![s] = Free] /\ pending' \subseteq Contents /\ infected' \subseteq Contents
      BY <1>7, <2>1 DEF Conclude, IInv, TypeOK
    <2> HIDE DEF Row
    <2> QED
      BY <1>3, <1>4, <2>2
  <1> QED
    BY <1>5, <1>6, <1>7

\* Moves and the clock.
LEMMA ElsewhereKeepsIInv ==
    ASSUME IInv, (\E f \in Files, p \in Folders \cup {Root} : Move(f, p)) \/ Tick
    PROVE  IInv' /\ AllEndWell
  <1>1. /\ UNCHANGED <<status, content, expires, stored, pending, infected, scan, link, issued, log, stray, ticket,
                       batch, swept, rq, restarts>>
        /\ Track /\ writes' \in 0..MaxWrites
    BY CountedWrites DEF Move, Tick, Counted, Follows, files, contents, shares, cleanup
  <1>2. place' \in [Files -> Folders \cup {Root}] /\ now' \in 0..MaxTime
    BY SharesAssumption DEF Move, Tick, files, IInv, TypeOK
  <1>3. ThingsOK'
    BY <1>1, <1>2 DEF IInv, TypeOK, ThingsOK
  <1> QED
    BY <1>1, <1>3, QuietStep

LEMMA RestartKeepsIInv ==
    ASSUME IInv, Restart
    PROVE  IInv' /\ AllEndWell
  <1> DEFINE cut == [Idle EXCEPT !.at = "done"]
  <1>1. /\ UNCHANGED <<now, status, place, content, expires, stored, pending, infected, link, issued, log, writes>>
        /\ Track /\ restarts' = restarts + 1 /\ restarts < MaxRestarts /\ scan' = [s \in Scanners |-> Free]
        /\ ticket' = <<>> /\ batch' = {} /\ swept' = {} /\ stray' = stray \cup LinksTo(swept)
        /\ rq' = [r \in Requests |-> IF r \in Commands THEN Idle
                                     ELSE IF rq[r].at \in {"idle", "done"} THEN rq[r] ELSE cut]
    BY DEF Restart, Follows, files
  <1>2. /\ cut \in Asked /\ cut.op = "none" /\ cut.at = "done" /\ cut.via = None /\ cut.keeps = {}
        /\ cut.reply = "none" /\ cut.shown = {}
    BY IdleFacts DEF Asked, Steps
  <1> HIDE DEF cut
  <1>3. rq' \in [Requests -> Asked]
    BY <1>1, <1>2, IdleFacts DEF IInv, TypeOK
  <1>4. \A c \in Commands : rq'[c] = Idle
    BY <1>1 DEF Requests
  <1>5. ASSUME NEW r \in Visits
        PROVE  \/ rq'[r] = rq[r] /\ rq[r].at \in {"idle", "done"}
               \/ rq'[r] = cut /\ rq[r].at \notin {"idle", "done"}
    BY <1>1, SharesAssumption DEF Requests
  <1>6. TypeOK'
    <2>1. /\ gone' \in [Visits -> SUBSET Things]
          /\ whole' \in [Visits -> BOOLEAN]
      BY <1>1, TrackType
    <2>2. restarts' \in 0..MaxRestarts /\ stray' \subseteq Links
      BY <1>1, SharesAssumption DEF IInv, TypeOK, LinksTo
    <2>3. DOMAIN ticket' \subseteq Tickets /\ ticket' \in [DOMAIN ticket' -> [file : Files, expires : Int]]
      BY <1>1
    <2> QED
      BY <1>1, <1>3, <2>1, <2>2, <2>3 DEF IInv, TypeOK, Free
  <1>7. ASSUME NEW r \in Visits
        PROVE  /\ VisitFits(rq[r])' /\ GoneFits(rq[r], gone[r])'
               /\ rq'[r].op = "none" /\ EndsWell(r)
    <2>1. CASE rq'[r] = rq[r] /\ rq[r].at \in {"idle", "done"}
      <3>1. VisitFits(rq[r]) /\ rq[r].op = "none"
        BY <2>1 DEF IInv, VisitFits
      <3> QED
        BY <1>1, <2>1, <3>1 DEF VisitFits, GoneFits, EndsWell, Ends
    <2>2. CASE rq'[r] = cut
      BY <1>2, <2>2, SharesAssumption DEF VisitFits, GoneFits, EndsWell, ViaLink
    <2> QED
      BY <1>5, <2>1, <2>2
  <1>8. \A c \in Commands : CommandFits(c)'
    BY <1>4, IdleFacts DEF CommandFits
  <1>9. LogsAnswered'
    <2> SUFFICES ASSUME NEW l \in DOMAIN link, NEW r \in log[l] PROVE rq'[r].at = "done"
      BY <1>1 DEF LogsAnswered
    <2>1. rq[r].at = "done" /\ r \in Requests
      BY DEF IInv, LogsAnswered, TypeOK
    <2>2. r \in Visits
      BY <2>1 DEF Requests, IInv, CommandFits
    <2> QED
      BY <1>5, <2>1, <2>2
  <1>10. VisitsAreLogged'
    <2> SUFFICES ASSUME NEW r \in Requests, NEW l \in DOMAIN link, rq'[r].at = "done", rq'[r].via = l
                 PROVE  r \in log[l] <=> rq'[r].reply = "served"
      BY <1>1 DEF VisitsAreLogged
    <2>1. l # None
      BY SharesAssumption DEF IInv, TypeOK
    <2>2. r \in Visits
      BY <1>4, IdleFacts DEF Requests
    <2>3. rq'[r] = rq[r]
      BY <1>2, <1>5, <2>1, <2>2
    <2> QED
      BY <2>3 DEF IInv, VisitsAreLogged
  <1>11. DeletedHaveNoLinks'
    BY <1>1 DEF IInv, DeletedHaveNoLinks, LinksTo
  <1>12. LinksIssued' /\ FoldersStay'
    BY <1>1 DEF IInv, LinksIssued, FoldersStay
  <1> QED
    BY <1>6, <1>7, <1>8, <1>9, <1>10, <1>11, <1>12 DEF IInv, AllEndWell

LEMMA StuttersKeepIInv ==
    ASSUME IInv, UNCHANGED vars
    PROVE  IInv' /\ AllEndWell
  <1>1. UNCHANGED <<now, status, place, content, expires, stored, pending, infected, scan, link, issued, log, stray,
                    ticket, batch, swept, rq, writes, restarts, gone, whole>>
    BY DEF vars
  <1>2. \A r \in Visits : EndsWell(r)
    BY <1>1 DEF EndsWell, Ends
  <1>3. TypeOK' /\ LinksIssued' /\ FoldersStay' /\ LogsAnswered' /\ VisitsAreLogged' /\ DeletedHaveNoLinks'
    BY <1>1 DEF IInv, TypeOK, LinksIssued, FoldersStay, LogsAnswered, VisitsAreLogged, DeletedHaveNoLinks
  <1>4. \A r \in Visits : VisitFits(rq[r])' /\ GoneFits(rq[r], gone[r])'
    BY <1>1 DEF IInv, VisitFits, GoneFits, Live, Expired, Usable, Valid
  <1>5. \A r \in Visits : rq'[r].op # "none" /\ whole'[r] => OnOffer(r)' /\ OfferFits(rq[r])'
    BY <1>1 DEF IInv, OnOffer, OfferFits, Usable, Valid, Live, Wanted, Readable, Within, Expired
  <1>6. \A c \in Commands : CommandFits(c)'
    BY <1>1 DEF IInv, CommandFits
  <1> QED
    BY <1>2, <1>3, <1>4, <1>5, <1>6 DEF IInv, AllEndWell

LEMMA InitIInv ==
    ASSUME Init
    PROVE  IInv
  <1>1. /\ now = 0 /\ status = [i \in Items |-> "live"] /\ place = InitialPlace /\ content = InitialContent
        /\ expires = FileExpiry /\ stored = {content[f] : f \in Files} /\ pending = InitialPending /\ infected = {}
        /\ scan = [s \in Scanners |-> Free] /\ batch = {} /\ link = <<>> /\ issued = {} /\ log = <<>> /\ ticket = <<>>
        /\ swept = {} /\ rq = [r \in Requests |-> Idle] /\ writes = 0 /\ restarts = 0
        /\ gone = [r \in Visits |-> {}] /\ whole = [r \in Visits |-> TRUE] /\ stray = {}
    BY DEF Init
  <1>2. DOMAIN link = {}
    BY <1>1
  <1>3. TypeOK
    <2>1. /\ link \in [DOMAIN link -> [item : Items, expires : Int]] /\ log \in [DOMAIN link -> SUBSET Requests]
          /\ DOMAIN ticket \subseteq Tickets /\ ticket \in [DOMAIN ticket -> [file : Files, expires : Int]]
      BY <1>1
    <2>2. now \in 0..MaxTime /\ writes \in 0..MaxWrites /\ restarts \in 0..MaxRestarts
      BY <1>1, SharesAssumption
    <2>3. rq \in [Requests -> Asked]
      BY <1>1, IdleFacts
    <2>4. content \in [Files -> Contents] /\ stored \subseteq Contents
      BY <1>1, SharesAssumption
    <2>5. /\ scan \in [Scanners -> [of : Contents \cup {None}, claimed : BOOLEAN]]
          /\ \A s \in Scanners : scan[s] # Free => scan[s].of \in Contents
      BY <1>1 DEF Free
    <2> QED
      BY <1>1, <1>2, <2>1, <2>2, <2>3, <2>4, <2>5, SharesAssumption DEF TypeOK
  <1>4. \A r \in Requests : rq[r] = Idle
    BY <1>1
  <1>5. LinksIssued /\ FoldersStay /\ LogsAnswered /\ VisitsAreLogged /\ DeletedHaveNoLinks
    BY <1>1, <1>2 DEF LinksIssued, FoldersStay, LogsAnswered, VisitsAreLogged, DeletedHaveNoLinks, Items
  <1>6. \A r \in Visits : VisitFits(rq[r]) /\ GoneFits(rq[r], gone[r]) /\ rq[r].op = "none"
    BY <1>4, IdleFacts DEF VisitFits, GoneFits, Requests, ViaLink
  <1>7. \A c \in Commands : CommandFits(c)
    BY <1>4, IdleFacts DEF CommandFits, Requests
  <1> QED
    BY <1>3, <1>5, <1>6, <1>7 DEF IInv

LEMMA NextIInv ==
    ASSUME IInv, [Next]_vars
    PROVE  IInv' /\ AllEndWell
  <1>1. CASE \E r \in Visits : Visit(r)
    BY <1>1, VisitKeepsIInv
  <1>2. CASE \E c \in Commands : Command(c) \/ Uploading(c)
    BY <1>2, CommandKeepsIInv
  <1>3. CASE \E l \in Links : Revoke(l)
    BY <1>3, RevokeKeepsIInv
  <1>4. CASE \E f \in Files : SweepMark(f) \/ SweepLinks(f)
    BY <1>4, SweepMarkKeepsIInv, SweepLinksKeepsIInv
  <1>5. CASE \E d \in Contents : PurgeFiles(d) \/ PurgeRow(d)
    BY <1>5, PurgeFilesKeepsIInv, PurgeRowKeepsIInv
  <1>6. CASE (\E f \in Files, p \in Folders \cup {Root} : Move(f, p)) \/ Tick
    BY <1>6, ElsewhereKeepsIInv
  <1>7. CASE Restart
    BY <1>7, RestartKeepsIInv
  <1>8. CASE ListDue
    BY <1>8, ListKeepsIInv
  <1>9. CASE \E s \in Scanners : (\E d \in Contents : SelectForScan(s, d)) \/ Claim(s) \/ Conclude(s)
    BY <1>9, ScanKeepsIInv
  <1>10. CASE UNCHANGED vars
    BY <1>10, StuttersKeepIInv
  <1> QED
    BY <1>1, <1>2, <1>3, <1>4, <1>5, <1>6, <1>7, <1>8, <1>9, <1>10 DEF Next

-----------------------------------------------------------------------------
\* The inductive invariant: what a request has read is what it was to read, what has
\* been gone since it began is still gone, and while all it asks for is on offer what it read is so
\* (every handler and statement of shares.rs, share_service.rs and download.rs).
THEOREM SharesInvariant == Spec => []IInv
  <1>1. Init => IInv
    BY InitIInv
  <1>2. IInv /\ [Next]_vars => IInv'
    BY NextIInv
  <1> QED
    BY <1>1, <1>2, PTL DEF Spec

\* The log of every link has the visits it served, and no other (log_access).
THEOREM SharesLogsInOrder == Spec => []LogsInOrder
  <1>1. IInv => LogsInOrder
    BY DEF IInv, LogsInOrder
  <1> QED
    BY <1>1, SharesInvariant, PTL

\* Deletion leaves no link to what it deletes, but for the ones the code is known to
\* leave (delete_item, perform_cleanup).
THEOREM SharesDeletedHaveNoLinks == Spec => []DeletedHaveNoLinks
  <1>1. IInv => DeletedHaveNoLinks
    BY DEF IInv
  <1> QED
    BY <1>1, SharesInvariant, PTL

\* What is revoked, expired, deleted or infected from the first statement of a request to
\* its last is not given out by it, though scanners claim and judge contents, uploads
\* renew files and the cleanup deletes what it has listed meanwhile.
THEOREM SharesNothingGoneIsServed == Spec => NothingGoneIsServed
  <1>1. IInv /\ [Next]_vars =>
          [\A r \in Visits : Ends(r) /\ rq'[r].reply \in {"served", "unlogged"} => gone[r] \cap Handed(r) = {}]_vars
    BY NextIInv DEF AllEndWell, EndsWell
  <1> QED
    BY <1>1, SharesInvariant, PTL DEF Spec, NothingGoneIsServed

\* Nobody is refused what was on offer from the first statement of the request to the last.
THEOREM SharesRefusedForCause == Spec => RefusedForCause
  <1>1. IInv /\ [Next]_vars => [\A r \in Visits : Ends(r) /\ rq'[r].reply = "refused" => ~ whole[r]]_vars
    BY NextIInv DEF AllEndWell, EndsWell
  <1> QED
    BY <1>1, SharesInvariant, PTL DEF Spec, RefusedForCause
=============================================================================
