--------------------------- MODULE OfflinePages ---------------------------
(***************************************************************************)
(* The service worker (public/sw.js): pages come from the network first;   *)
(* when the PC does not answer in time, the POS and the shift log open     *)
(* from their copies, the start page goes to the POS, and the rest show    *)
(* offline.html.  A late answer still refreshes the copy.  The PC may      *)
(* answer anything at any time, or never.                                  *)
(***************************************************************************)
EXTENDS Naturals

CONSTANTS
  Kept,           \* OFFLINE_PAGES
  Openings,       \* bound: requests open at once
  Backoff,        \* UNREACHABLE_FOR_MS, in ticks
  MaxRelease      \* bound: releases of the app

VARIABLES
  release,        \* the release the PC serves
  copies,         \* caches PAGES and FILES: path -> release stored, 0 if none
  opening,        \* a request the worker handles
  unreachable,    \* ticks until unreachableUntil
  heard           \* history: the PC answered since a page last gave up on it

pageVars == <<release, copies, opening, unreachable, heard>>

ASSUME PagesAssumption == "/pos" \in Kept /\ {Backoff, MaxRelease} \subseteq Nat \ {0}

Cached == Kept \cup {"file"}
Paths == Cached \cup {"/", "/ledger"}
Statuses == {"ok", "not ok", "server error", "gateway error", "failed"}
Results == {"page", "error page", "copy", "to /pos", "redirected", "offline.html", "failed"}

(* had: a copy (on the start page, of the POS) was there when the request came;
   again: it follows a redirect and the PC has not answered since; sent: what the
   page got; net: the network has spoken. *)
NoRequest ==
  [path |-> "", had |-> FALSE, again |-> FALSE, waiting |-> FALSE, net |-> FALSE, sent |-> "none"]

PagesTypeOK ==
  /\ release \in 1 .. MaxRelease
  /\ copies \in [Cached -> 0 .. MaxRelease]
  /\ opening \in [Openings ->
       [path : Paths, had : BOOLEAN, again : BOOLEAN, waiting : BOOLEAN, net : BOOLEAN,
        sent : Results \cup {"none"}] \cup {NoRequest}]
  /\ unreachable \in 0 .. Backoff
  /\ heard \in BOOLEAN

(* The worker is installed, which takes offline.html; the pages are stored as far as
   they answered (install, storePage) and older caches are gone (activate). *)
PagesInit ==
  /\ release = 1
  /\ copies \in [Cached -> {0, 1}]
  /\ opening = [o \in Openings |-> NoRequest]
  /\ unreachable = 0
  /\ heard = TRUE

Stored(path) == copies[path] # 0

(* With a copy, and on the start page, a server error counts as no answer; elsewhere
   only the gateway's does.  A file without a copy is passed on as it comes. *)
Lenient(r) == r.path = "/" \/ r.had

Unusable(r) ==
  IF Lenient(r) THEN {"server error", "gateway error", "failed"}
  ELSE IF r.path = "file" THEN {"failed"} ELSE {"gateway error", "failed"}

(* Mutation of Instead: the start page shows the fallback of the others. *)
InsteadPlain(r) ==
  IF r.path \in Cached /\ r.had THEN "copy"
  ELSE IF r.path = "file" THEN "failed" ELSE "offline.html"

Instead(r) ==
  IF r.path \in Cached /\ r.had THEN "copy"
  ELSE IF r.path = "/" /\ Stored("/pos") THEN "to /pos"
  ELSE IF r.path = "file" THEN "failed" ELSE "offline.html"

(* Right after the PC failed to answer, nothing waits for it again but a file that
   has no copy. *)
New(path, again) ==
  LET had == IF path \in Cached THEN Stored(path) ELSE path = "/" /\ Stored("/pos")
      r == [path |-> path, had |-> had, again |-> again, waiting |-> TRUE, net |-> FALSE, sent |-> "none"] IN
  IF unreachable = 0 \/ (path = "file" /\ ~had) THEN r
  ELSE [r EXCEPT !.waiting = FALSE, !.sent = Instead(r)]

Open(o, path) ==
  /\ opening[o] = NoRequest
  /\ opening' = [opening EXCEPT ![o] = New(path, FALSE)]
  /\ UNCHANGED <<release, copies, unreachable, heard>>

(* The redirect of the start page comes back as a request for the POS. *)
Follow(o, next) ==
  /\ opening[o].sent = "to /pos"
  /\ opening[next] = NoRequest \/ (next = o /\ opening[o].net)
  /\ opening' = [opening EXCEPT ![o].sent = "redirected", ![next] = New("/pos", ~heard)]
  /\ UNCHANGED <<release, copies, unreachable, heard>>

(* Mutation of Refreshed: a copy is only taken while its page still waits. *)
RefreshedInTime(r, answer) ==
  IF r.path \in Cached /\ answer = "ok" /\ r.waiting
  THEN [copies EXCEPT ![r.path] = release] ELSE copies

Refreshed(r, answer) ==
  IF r.path \in Cached /\ answer = "ok" THEN [copies EXCEPT ![r.path] = release] ELSE copies

(* In time or late: the copy is refreshed, and a page that was answered lets the next
   ones wait for the PC again; a useless answer makes them not wait. *)
NetworkAnswers(o, answer) ==
  LET r == opening[o]
      answered == r.path # "file" /\ answer \in {"ok", "not ok"}
      useless == r.waiting /\ answer \in Unusable(r) IN
  /\ r # NoRequest /\ ~r.net
  /\ copies' = Refreshed(r, answer)
  /\ unreachable' = IF answered \/ (useless /\ r.path # "file")
                    THEN IF useless THEN Backoff ELSE 0
                    ELSE unreachable
  /\ heard' = (heard \/ answered)
  /\ opening' = [opening EXCEPT
       ![o].net = TRUE, ![o].waiting = FALSE,
       ![o].sent = IF ~r.waiting THEN @
                   ELSE IF useless THEN Instead(r)
                   ELSE IF answer \in {"ok", "not ok"} THEN "page" ELSE "error page"]
  /\ UNCHANGED release

(* A file without a copy waits for the network as long as it takes. *)
HasLimit(r) == r.path = "file" => r.had

GivenUp(r) == IF r.path = "file" THEN unreachable ELSE Backoff

(* PAGE_TIMEOUT_MS, NO_COPY_TIMEOUT_MS. *)
TimesOut(o) ==
  LET r == opening[o] IN
  /\ r.waiting /\ HasLimit(r)
  /\ unreachable' = GivenUp(r)
  /\ heard' = (heard /\ r.path = "file")
  /\ opening' = [opening EXCEPT ![o].sent = Instead(r), ![o].waiting = FALSE]
  /\ UNCHANGED <<release, copies>>

(* The page has its answer and the network has spoken. *)
Done(o) ==
  /\ opening[o].net /\ opening[o].sent # "to /pos"
  /\ opening' = [opening EXCEPT ![o] = NoRequest]
  /\ UNCHANGED <<release, copies, unreachable, heard>>

(* A redirect is followed well within the 30 s. *)
BackoffPasses ==
  /\ unreachable > 0
  /\ \A o \in Openings : opening[o].sent # "to /pos"
  /\ unreachable' = unreachable - 1
  /\ UNCHANGED <<release, copies, opening, heard>>

(* The PC serves a rebuilt app.  Under a new VERSION the phone's new worker stores
   what it can fetch and drops the old copies. *)
NewRelease ==
  /\ release < MaxRelease
  /\ release' = release + 1
  /\ \/ UNCHANGED <<copies, unreachable>>
     \/ /\ \A o \in Openings : opening[o] = NoRequest
        /\ copies' \in [Cached -> {0, release'}]
        /\ unreachable' = 0
  /\ UNCHANGED <<opening, heard>>

PagesNext ==
  \/ \E o \in Openings :
       \/ \E path \in Paths : Open(o, path)
       \/ \E answer \in Statuses : NetworkAnswers(o, answer)
       \/ \E next \in Openings : Follow(o, next)
       \/ TimesOut(o) \/ Done(o)
  \/ BackoffPasses \/ NewRelease

PagesSpec == PagesInit /\ [][PagesNext]_pageVars

-----------------------------------------------------------------------------
(* "lets an installed phone open the POS ... without a connection" (sw.js:2): with a
   copy on the phone, the POS, the shift log and the start page open on a page, from
   the network or the copy, never on offline.html or a server error.  And once the
   start page gave up on the PC, the POS it goes to does not wait for it again ("the
   start page's redirect would otherwise wait twice", :38), unless it has answered
   meanwhile. *)
PosOpens ==
  \A o \in Openings :
    LET r == opening[o] IN
    /\ r.had /\ r.path # "file" /\ ~r.waiting => r.sent \in {"page", "copy", "to /pos", "redirected"}
    /\ ~(r.again /\ r.waiting)

(* The copy follows the app: when the PC answers now and then, if only ever late, the
   stored POS becomes the release it serves. *)
CopyCatchesUp == <>[](copies["/pos"] = release)
=============================================================================
