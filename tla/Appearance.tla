---------------------------- MODULE Appearance ----------------------------
(***************************************************************************)
(* The page on which the player looks at the portrait, has it painted       *)
(* again and starts the story, in one browser, in front of the server of    *)
(* module Portrait.  It sends one request at a time, gives each 45 seconds, *)
(* and offers what failed again: a redraw with the same request id, which   *)
(* it keeps in local storage until it is answered.  What it gave up, or     *)
(* left behind, goes on at the server.                                      *)
(***************************************************************************)
EXTENDS Portrait

VARIABLES
  page,     \* the page and what the browser keeps for it
  sent,     \* requests on their way to the server
  answers   \* what the runs of portrait/retry answered

appVars == <<vars, page, sent, answers>>

ASSUME NoneAssumption == None \notin Runs \cup Starts \cup {Request[h] : h \in Runs}

\* _portrait_status as the page gets it.
View(r) == [portrait |-> r.portrait, status |-> Status(r), count |-> r.count]

Views == [ portrait : Portraits \cup {None}, status : {"done", "failed", "pending"},
           count : 0..PORTRAIT_RETRY_LIMIT ]

Pages ==
  [ open     : BOOLEAN,                                \* the portrait is on the screen
    shown    : Views,                                  \* as it is there
    request  : {Request[h] : h \in Runs} \cup {None},  \* retryRequest of the draft
    error    : {"none", "redraw", "start"},            \* what is offered again
    gate     : Runs \cup {None},                       \* the redraw the browser waits for
    starting : SUBSET Starts,                          \* the starts it waits for
    busy     : Runs \cup Starts \cup {None},           \* what the buttons wait for
    patient  : BOOLEAN ]                               \* history: no request was given up

\* The page as it opens: with the offer of a redraw if one is unanswered or failed.
Opened(request, gate, starting, patient) ==
  LET v == View(row)
      again == request # None \/ v.status = "failed"
  IN  [ open |-> ~row.confirmed /\ (again \/ v.portrait # None), shown |-> v,
        request |-> request, error |-> IF again THEN "redraw" ELSE "none",
        gate |-> gate, starting |-> starting, busy |-> None, patient |-> patient ]

AppInit ==
  /\ Init
  /\ page = Opened(None, None, {}, TRUE)
  /\ sent = {}
  /\ answers = {}
-----------------------------------------------------------------------------
(* The page *)

\* The buttons work while nothing is waited for; BugReady leaves them enabled.
BugReady == page.open

Ready == page.open /\ page.busy = None

Unsent(h) == h \notin sent /\ At(h, "none")

\* The id of the unanswered request, or a new one.
RequestFor(h) ==
  IF page.request = None THEN \A g \in Runs : Request[g] = Request[h] => Unsent(g)
  ELSE Request[h] = page.request

\* The first redraw, or the one that failed.  While the browser still waits for
\* one that the page was left with, the new one ends at once, without an error.
AskRedraw ==
  /\ Ready
  /\ \/ page.error = "redraw"
     \/ /\ page.error = "none"
        /\ page.shown.portrait # None
        /\ page.shown.count < PORTRAIT_RETRY_LIMIT
  /\ \/ /\ page.gate # None
        /\ page' = [page EXCEPT !.error = "none"]
        /\ UNCHANGED sent
     \/ /\ page.gate = None
        /\ \E h \in Runs :
             /\ Unsent(h) /\ RequestFor(h)
             /\ page' = [page EXCEPT !.request = Request[h], !.error = "none",
                                     !.gate = h, !.busy = h]
             /\ sent' = sent \cup {h}
  /\ UNCHANGED <<vars, answers>>

AskStart ==
  /\ Ready
  /\ page.error \in {"none", "start"}
  /\ page.shown.portrait # None
  /\ \E s \in Starts :
       /\ s \notin sent /\ starter[s].pc = "none"
       /\ page' = [page EXCEPT !.error = "none", !.starting = @ \cup {s}, !.busy = s]
       /\ sent' = sent \cup {s}
  /\ UNCHANGED <<vars, answers>>

\* The answer to a redraw is what is shown from now on; BugShown forgets that.
BugShown(a) == page.shown

Shown(a) == a.shows

\* The button that waits for x is done; it fails unless ok.
Done(x, ok, name) ==
  [ busy  |-> IF page.busy = x THEN None ELSE page.busy,
    error |-> IF page.busy = x /\ ~ok THEN name ELSE page.error ]

HearRedraw ==
  /\ \E a \in answers :
       LET done == Done(a.run, a.shows.status = "done", "redraw")
       IN  /\ a.run = page.gate
           /\ page' = [page EXCEPT !.shown = Shown(a), !.request = None, !.gate = None,
                                   !.busy = done.busy, !.error = done.error]
  /\ UNCHANGED <<vars, sent, answers>>

\* A started story has its page left for good.
HearStart ==
  /\ \E s \in page.starting :
       /\ s \notin sent /\ starter[s].pc = "over"
       /\ starter[s].loaded.portrait # None /\ row.confirmed
       /\ page' = [page EXCEPT !.open = FALSE, !.request = None, !.starting = @ \ {s},
                               !.busy = Done(s, TRUE, "start").busy]
  /\ UNCHANGED <<vars, sent, answers>>

\* The request has run its course.
Ended(x) ==
  x \notin sent /\ IF x \in Runs THEN At(x, "over") ELSE starter[x].pc = "over"

\* The request is refused, its answer is lost, or 45 seconds are over while it runs.
LoseRedraw ==
  LET done == Done(page.gate, FALSE, "redraw")
  IN  /\ page.gate # None
      /\ page' = [page EXCEPT !.gate = None, !.busy = done.busy, !.error = done.error,
                              !.patient = @ /\ Ended(page.gate)]
      /\ UNCHANGED <<vars, sent, answers>>

LoseStart ==
  /\ \E s \in page.starting :
       LET done == Done(s, FALSE, "start")
       IN  page' = [page EXCEPT !.starting = @ \ {s}, !.busy = done.busy,
                                !.error = done.error, !.patient = @ /\ Ended(s)]
  /\ UNCHANGED <<vars, sent, answers>>

\* The page is left and opened again: in the same window, which still waits, or in
\* a new one, and with its draft, or without after a look at a new story.
Reopen ==
  /\ row.exists
  /\ \E same, draft \in BOOLEAN :
       page' = Opened(IF draft THEN page.request ELSE None,
                      IF same THEN page.gate ELSE None,
                      IF same THEN page.starting ELSE {},
                      page.patient /\ page.gate = None /\ page.starting = {})
  /\ UNCHANGED <<vars, sent, answers>>
-----------------------------------------------------------------------------
(* The server *)

\* What the step that ends the run answers: the stored answer of its request, or
\* its own once that is stored.
AnswerOf(h) ==
  {[run |-> h, shows |-> a.shows] : a \in
     {a \in answers : At(h, "loaded") /\ Answered(h) /\ Request[a.run] = Request[h]}}
  \cup {[run |-> g, shows |-> View(row)] : g \in
     {g \in {h} : handler[g].pc \in {"drawn", "undrawn"} /\ ~Answered(g) /\ row.exists}}

Arrive ==
  /\ \/ \E h \in Runs \cap sent : LoadRetry(h) /\ sent' = sent \ {h}
     \/ \E s \in Starts \cap sent : LoadStart(s) /\ sent' = sent \ {s}
  /\ UNCHANGED <<page, answers>>

Serve(h) ==
  /\ ~At(h, "none")
  /\ Retry(h)
  /\ answers' = answers \cup AnswerOf(h)
  /\ UNCHANGED <<page, sent>>

Work ==
  /\ \/ \E s \in Starts : ConfirmStart(s)
     \/ \E p \in Painters : Paint(p)
     \/ ListFiles
     \/ DeleteRow
     \/ UnlinkFiles
     \/ Crash
  /\ UNCHANGED <<page, sent, answers>>

AppNext ==
  \/ AskRedraw
  \/ AskStart
  \/ HearRedraw
  \/ HearStart
  \/ LoseRedraw
  \/ LoseStart
  \/ Reopen
  \/ Arrive
  \/ \E h \in Runs : Serve(h)
  \/ Work

AppSpec == AppInit /\ [][AppNext]_appVars
-----------------------------------------------------------------------------
\* Type invariant.
PageOK ==
  /\ page \in Pages
  /\ sent \subseteq Runs \cup Starts
  /\ answers \subseteq [run : Runs, shows : Views]

\* ui-spec.md 4.5, api-contract.md, sessions.py: the player whose page waits for every
\* request to end has every redraw counted, no request painted twice, a failure as
\* the reason for a missing portrait, and a portrait in the story.
PatientPageIsSafe ==
  page.patient =>
    /\ met = {}
    /\ Cardinality(Redraws) <= row.count
    /\ ~crashed => RequestPaintsOnce
    /\ NoPortraitMeansFailed
    /\ StartedHasPortrait

\* ui-spec.md 4.5: the story of such a player starts with the portrait on the page.
StartsWithShown ==
  page.patient /\ row.exists /\ row.confirmed =>
    row.portrait # None /\ row.portrait = page.shown.portrait
=============================================================================
