------------------------- MODULE LoginPreludeProofs -------------------------
(***************************************************************************)
(* Theorems about LoginPrelude, for every honest target and every list of  *)
(* default credentials: a session used without a caveat is the session of  *)
(* the user whose credentials were sent.                                   *)
(***************************************************************************)
EXTENDS LoginPrelude, TLAPS

USE CredentialsAssumption DEF Urls

-----------------------------------------------------------------------------
(* The inductive invariant.                                                *)

JobFields == {"pc", "kind", "i", "url", "pre", "cookie", "landed", "likely"}
ScanFields == {"on", "cookie", "sure", "as", "reported", "authenticated",
               "refreshed", "steps"}

Shapes ==
  /\ site \in SiteType /\ asked \in RequestType
  /\ who \in Seq(Users \cup {Nobody})
  /\ job = [x \in JobFields |-> job[x]]
  /\ scan = [x \in ScanFields |-> scan[x]] /\ scan.refreshed \in Nat

(* Whether a guess the target accepts is confirmed depends on the target    *)
(* alone: its form must be in scope, a cookie must carry the login, and the *)
(* probed page must show it.                                                *)
Confirms ==
  /\ InScope(site.action) /\ (site.grant # "same" \/ site.anon)
  /\ IF site.after = "landing" THEN site.inside = "logout" /\ "landing" \notin site.words
     ELSE site.inside = "away" \/ (site.inside # "form" /\ "login" \notin site.words)

Accepted(k) == Default[k] \in site.accepts
Guesser(j) == j.kind \in {"default", "refresh"}

(* A login goes through its states in order; while every request has been   *)
(* answered, no pair before the current one was, or could have been,        *)
(* confirmed.                                                               *)
Progress ==
  /\ job.kind \in {None, "form", "default", "refresh"}
  /\ job.pc \in {"fetch", "submit", "verify", "discover"} =>
       job.kind = "form" \/ Guesser(job)
  /\ job.kind = "form" => asked.auth = "form"
  /\ job.kind = "default" => asked.auth # "form"
  /\ Guesser(job) => /\ job.i \in 1 .. Len(Default)
                     /\ lost = {} => \A k \in 1 .. (job.i - 1) : ~(Accepted(k) /\ Confirms)

(* The page under test is the login page, read as a plain form by a guess.  *)
Pages ==
  /\ job.pc = "fetch" => job.url \in {"login", "off"}
  /\ job.pc \in {"submit", "verify"} => job.url = "login"
  /\ job.pc \in {"fetch", "submit", "verify"} /\ Guesser(job) => job.url = "login" /\ ~site.odd

(* A visitor's cookie belongs to nobody until the form is accepted.         *)
Visit(j) == j.pc = "submit" =>
  /\ DOMAIN j.pre = IF site.anon THEN {"sid"} ELSE {}
  /\ site.anon => j.pre["sid"] \in 1 .. Len(who) /\ who[j.pre["sid"]] = Nobody

(* The session under test is the candidate's, or nobody's.                  *)
UnderTest == job.pc = "verify" =>
  InScope(site.action) /\
  IF Candidate \in site.accepts
  THEN /\ job.landed = site.after /\ Visitor(job.cookie) = Candidate
       /\ site.grant # "same" \/ site.anon
  ELSE job.landed = None /\ Visitor(job.cookie) = Nobody

(* Unless a request failed, a reported pair is the first one the target     *)
(* accepts.                                                                 *)
FirstAccepted(u) == \E k \in 1 .. Len(Default) :
  /\ u = Default[k] /\ Accepted(k)
  /\ \A l \in 1 .. (k - 1) : ~Accepted(l)

Reported == scan.reported # None /\ lost = {} => Confirms /\ FirstAccepted(scan.reported)

LoginInv == /\ Shapes /\ Progress /\ Pages /\ Visit(job) /\ UnderTest /\ Reported
            /\ ConfirmedIsAuthenticated

-----------------------------------------------------------------------------
(* Pages.                                                                  *)

(* A page has a failure marker or it has not.                               *)
LEMMA MarkerIs ==
  ASSUME NEW u
  PROVE  HasMarker(u) \in BOOLEAN /\ (HasMarker(u) = TRUE <=> u \in site.words)
<1>1. HasMarker(u) = (u \in site.words)
  BY DEF HasMarker
<1>2. CASE u \in site.words
  BY <1>1, <1>2, Zenon
<1>3. CASE u \notin site.words
  <2>1. (u \in site.words) = FALSE
    BY <1>3
  <2>2. HasMarker(u) = FALSE
    BY <1>1, <2>1, Zenon
  <2>. QED
    BY <1>3, <2>2
<1>. QED
  BY <1>2, <1>3

LEMMA ProbeIsNear ==
  ASSUME LoginInv, job.pc = "verify"
  PROVE  /\ ProbeURL \in {"login", "landing"}
         /\ Guesser(job) /\ Candidate \in site.accepts =>
              ProbeURL = IF site.after = "landing" THEN "landing" ELSE "login"
<1>1. job.url = "login"
  BY DEF LoginInv, Pages
<1>2. job.landed \in {"landing", "off", None}
  BY DEF LoginInv, UnderTest, Shapes, SiteType
<1>3. asked.verify \in {"landing", "off", None}
  BY DEF LoginInv, Shapes, RequestType
<1>4. CASE job.kind = "form"
  BY <1>1, <1>2, <1>3, <1>4 DEF ProbeURL, InScope, Guesser
<1>5. CASE job.kind # "form"
  <2>1. ProbeURL = IF job.landed # None /\ InScope(job.landed) THEN job.landed ELSE "login"
    BY <1>1, <1>5 DEF ProbeURL
  <2>2. Candidate \in site.accepts => job.landed = site.after
    BY DEF LoginInv, UnderTest
  <2>. QED
    BY <1>2, <2>1, <2>2 DEF InScope
<1>. QED
  BY <1>4, <1>5

(* An honest target shows an anonymous visitor nothing that confirms.       *)
LEMMA ConfirmedShowsSomebody ==
  ASSUME LoginInv, job.pc = "verify",
         AssessLogin(ProbeURL = job.url /\ ~site.odd, Get(ProbeURL, job.cookie)) = "confirmed"
  PROVE  Visitor(job.cookie) # Nobody
<1>. DEFINE u == ProbeURL
           p == Get(u, job.cookie)
           b == u = job.url /\ ~site.odd
<1>. SUFFICES ASSUME Visitor(job.cookie) = Nobody PROVE FALSE
  OBVIOUS
<1>1. job.url = "login" /\ u \in {"login", "landing"}
  BY ProbeIsNear DEF LoginInv, Pages
<1>2. site.odd \in BOOLEAN
  BY DEF LoginInv, Shapes, SiteType
<1>3. AssessLogin(b, p) = "confirmed" /\ b \in BOOLEAN
  OBVIOUS
<1>4. b = TRUE => u = "login" /\ site.odd = FALSE
  BY <1>1, <1>2
<1>5. u = "login" => p.form \in BOOLEAN /\ (p.form = TRUE <=> site.odd = FALSE)
  BY <1>2 DEF Get, Page
<1>6. u = "landing" => p.form \in BOOLEAN
  BY DEF Get, Page
<1>7. p.logout \in BOOLEAN /\ p.logout = FALSE
  BY <1>1 DEF Get, Page
<1>9. p.marker \in BOOLEAN
  <2>1. p.marker = HasMarker(u) \/ p.marker = FALSE
    BY <1>1 DEF Get, Page
  <2>. QED
    BY <2>1, MarkerIs
<1>. HIDE DEF u, p, b
<1>8. p.form = FALSE /\ b = TRUE
  BY <1>1, <1>3, <1>5, <1>6, <1>7, <1>9 DEF AssessLogin
<1>. QED
  BY <1>4, <1>5, <1>8

(* A guess that is accepted is confirmed exactly if the target shows it.    *)
LEMMA AcceptedIsConfirmed ==
  ASSUME LoginInv, job.pc = "verify", Guesser(job), Candidate \in site.accepts
  PROVE  Confirms <=>
         AssessLogin(ProbeURL = job.url /\ ~site.odd, Get(ProbeURL, job.cookie)) = "confirmed"
<1>. DEFINE u == ProbeURL
           p == Get(u, job.cookie)
           b == u = job.url /\ ~site.odd
<1>1. /\ job.url = "login" /\ site.odd = FALSE
      /\ u = IF site.after = "landing" THEN "landing" ELSE "login"
  BY ProbeIsNear DEF LoginInv, Pages, Shapes, SiteType
<1>2. site.inside \in {"logout", "bare", "form", "away"} /\ site.accepts \subseteq Users
  BY DEF LoginInv, Shapes, SiteType
<1>3. Visitor(job.cookie) # Nobody /\ (site.grant # "same" \/ site.anon) /\ InScope(site.action)
  BY <1>2 DEF LoginInv, UnderTest
<1>4. b \in BOOLEAN /\ (b = TRUE <=> site.after # "landing")
  BY <1>1
<1>5. p.logout \in BOOLEAN /\ (p.logout = TRUE <=> site.inside = "logout")
  <2>1. CASE u = "landing"
    BY <1>3, <2>1 DEF Get, Page
  <2>2. CASE u = "login" /\ site.inside = "away"
    BY <1>3, <2>2 DEF Get, Page
  <2>3. CASE u = "login" /\ site.inside # "away"
    BY <1>3, <2>3 DEF Get, Page
  <2>. QED
    BY <1>1, <2>1, <2>2, <2>3
<1>6. p.form \in BOOLEAN /\ (p.form = TRUE <=> site.after # "landing" /\ site.inside = "form")
  <2>1. CASE u = "landing"
    BY <1>1, <1>3, <2>1 DEF Get, Page
  <2>2. CASE u = "login" /\ site.inside = "away"
    BY <1>1, <1>3, <2>2 DEF Get, Page
  <2>3. CASE u = "login" /\ site.inside # "away"
    BY <1>1, <1>3, <2>3 DEF Get, Page
  <2>. QED
    BY <1>1, <2>1, <2>2, <2>3
<1>7. p.status \in {200, 302} /\ p.location \in {None, "landing"}
  BY <1>1, <1>3 DEF Get, Page
<1>10. p.marker \in BOOLEAN /\ (p.marker = TRUE <=>
         IF site.after = "landing" THEN "landing" \in site.words
         ELSE site.inside # "away" /\ "login" \in site.words)
  <2>1. CASE u = "landing"
    <3>1. p.marker = HasMarker(u)
      BY <1>3, <2>1 DEF Get, Page
    <3>. QED
      BY <1>1, <2>1, <3>1, MarkerIs
  <2>2. CASE u = "login" /\ site.inside = "away"
    BY <1>1, <1>3, <2>2 DEF Get, Page
  <2>3. CASE u = "login" /\ site.inside # "away"
    <3>1. p.marker = HasMarker(u)
      BY <1>3, <2>3 DEF Get, Page
    <3>. QED
      BY <1>1, <2>3, <3>1, MarkerIs
  <2>. QED
    BY <1>1, <2>1, <2>2, <2>3
<1>. HIDE DEF u, p, b
<1>8. AssessLogin(b, p) = "confirmed" <=>
        p.form = FALSE /\ p.marker = FALSE /\ (p.logout = TRUE \/ b = TRUE)
  BY <1>4, <1>5, <1>6, <1>7, <1>10 DEF AssessLogin
<1>9. AssessLogin(b, p) = "confirmed" <=> Confirms
  BY <1>2, <1>3, <1>4, <1>5, <1>6, <1>8, <1>10 DEF Confirms
<1>. QED
  BY <1>9 DEF u, p, b

-----------------------------------------------------------------------------
(* Steps.                                                                  *)

LEMMA Idle ==
  /\ IdleJob = [x \in JobFields |-> IdleJob[x]]
  /\ IdleJob.pc = "start" /\ IdleJob.kind = None
BY DEF IdleJob, JobFields

(* A scan starts, and no login is in progress any more.                     *)
LEMMA RunningKeeps ==
  ASSUME LoginInv, NEW c, NEW sure, NEW as, NEW reported, NEW auth,
         Running(c, sure, as, reported, auth),
         UNCHANGED <<site, asked>>, who' \in Seq(Users \cup {Nobody}), lost \subseteq lost',
         sure => as \in site.accepts /\ (asked.auth = "form" => as = Supplied),
         reported # None => /\ reported \in site.accepts /\ as = reported
                            /\ lost = {} => Confirms /\ FirstAccepted(reported)
  PROVE  LoginInv'
<1>1. job' = [x \in JobFields |-> job'[x]] /\ job'.pc = "over" /\ job'.kind = None
  BY Idle DEF Running, JobFields
<1>2. /\ scan' = [x \in ScanFields |-> scan'[x]]
      /\ scan'.sure = sure /\ scan'.as = as /\ scan'.reported = reported
      /\ scan'.refreshed = 0
  BY DEF Running, ScanFields
<1>3. Shapes'
  BY <1>1, <1>2 DEF LoginInv, Shapes
<1>4. Progress' /\ Pages' /\ Visit(job)' /\ UnderTest'
  BY <1>1 DEF Progress, Pages, Visit, UnderTest, Guesser
<1>5. Reported'
  BY <1>2 DEF Reported, Confirms, FirstAccepted, Accepted, InScope
<1>6. ConfirmedIsAuthenticated'
  BY <1>2 DEF ConfirmedIsAuthenticated
<1>. QED
  BY <1>3, <1>4, <1>5, <1>6 DEF LoginInv

(* A login ends: what is sure has been earned, and a recovered session is   *)
(* that of the pair reported before, unless a request failed.               *)
LEMMA AdoptKeeps ==
  ASSUME LoginInv, NEW c, NEW sure \in BOOLEAN, NEW u, Adopt(c, sure, u),
         UNCHANGED <<site, asked>>, who' \in Seq(Users \cup {Nobody}), lost \subseteq lost',
         sure => /\ Visitor(c) \in site.accepts
                 /\ job.kind # "refresh" /\ asked.auth = "form" => Visitor(c) = Supplied
                 /\ job.kind = "default" => /\ u = Visitor(c)
                                            /\ lost = {} => Confirms /\ FirstAccepted(u),
         job.kind = "refresh" /\ c # NoCookie /\ scan.reported # None /\ lost' = {} =>
           Visitor(c) = scan.reported
  PROVE  LoginInv'
<1>1. CASE job.kind # "refresh"
  <2>1. CASE c = NoCookie
    <3>1. Running(NoCookie, FALSE, Nobody, None, FALSE)
      BY <1>1, <2>1 DEF Adopt, Unauthenticated
    <3>. QED
      BY <3>1, RunningKeeps
  <2>2. CASE c # NoCookie
    <3>. DEFINE r == IF sure /\ job.kind = "default" THEN u ELSE None
    <3>1. Running(c, sure, Visitor(c), r, TRUE)
      BY <1>1, <2>2 DEF Adopt
    <3>2. r # None => /\ r \in site.accepts /\ Visitor(c) = r
                      /\ lost = {} => Confirms /\ FirstAccepted(r)
      OBVIOUS
    <3>. HIDE DEF r
    <3>. QED
      BY <1>1, <3>1, <3>2, RunningKeeps
  <2>. QED
    BY <2>1, <2>2
<1>2. CASE job.kind = "refresh"
  <2>1. job' = [x \in JobFields |-> job'[x]] /\ job'.pc = "over" /\ job'.kind = None
    BY <1>2, Idle DEF Adopt, JobFields
  <2>2. /\ scan' = [x \in ScanFields |-> scan'[x]]
        /\ scan'.reported = scan.reported
        /\ scan'.sure = FALSE \/ scan' = scan
        /\ \/ scan' = scan
           \/ c # NoCookie /\ scan'.as = Visitor(c) /\ scan'.refreshed = scan.refreshed + 1
    BY <1>2 DEF Adopt, LoginInv, Shapes, ScanFields
  <2>3. Shapes'
    BY <2>1, <2>2 DEF LoginInv, Shapes
  <2>4. Progress' /\ Pages' /\ Visit(job)' /\ UnderTest'
    BY <2>1 DEF Progress, Pages, Visit, UnderTest, Guesser
  <2>7. lost' = {} => lost = {}
    OBVIOUS
  <2>5. Reported'
    BY <2>2, <2>7 DEF LoginInv, Reported, Confirms, FirstAccepted, Accepted, InScope
  <2>6. ConfirmedIsAuthenticated'
    BY <1>2, <2>2, <2>7 DEF LoginInv, Shapes, ConfirmedIsAuthenticated
  <2>. QED
    BY <2>3, <2>4, <2>5, <2>6 DEF LoginInv
<1>. QED
  BY <1>1, <1>2

(* The pair of a guess is done with, and could not have been confirmed      *)
(* unless a request failed.                                                 *)
LEMMA NextGuessKeeps ==
  ASSUME LoginInv, NEW likely, NextGuess(likely), job.pc \in {"submit", "verify"},
         Guesser(job) /\ lost' = {} => ~(Accepted(job.i) /\ Confirms),
         UNCHANGED <<site, asked>>, who' \in Seq(Users \cup {Nobody}), lost \subseteq lost'
  PROVE  LoginInv'
<1>1. job.url = "login" /\ (job.kind = "form" \/ Guesser(job))
  BY DEF LoginInv, Pages, Progress
<1>2. Len(Default) \in Nat /\ (lost' = {} => lost = {})
  OBVIOUS
<1>3. CASE job.kind = "form" \/ job.i = Len(Default)
  <2>1. Adopt(likely, FALSE, None)
    BY <1>3 DEF NextGuess
  <2>2. job.kind = "refresh" /\ lost' = {} => scan.reported = None
    <3>. SUFFICES ASSUME job.kind = "refresh", lost' = {}, scan.reported # None PROVE FALSE
      OBVIOUS
    <3>1. Confirms /\ \E k \in 1 .. Len(Default) : Accepted(k)
      BY <1>2 DEF LoginInv, Reported, FirstAccepted
    <3>2. /\ job.i = Len(Default) /\ ~Accepted(job.i)
          /\ \A k \in 1 .. (job.i - 1) : ~Accepted(k)
      BY <1>2, <1>3, <3>1 DEF LoginInv, Progress, Guesser
    <3>. QED
      BY <1>2, <3>1, <3>2
  <2>. QED
    BY <2>1, <2>2, AdoptKeeps
<1>4. CASE ~(job.kind = "form" \/ job.i = Len(Default))
  <2>1. /\ job' = [IdleJob EXCEPT !.pc = "fetch", !.kind = job.kind, !.url = job.url,
                                  !.i = job.i + 1, !.likely = likely]
        /\ UNCHANGED scan
    BY <1>4 DEF NextGuess
  <2>2. /\ job' = [x \in JobFields |-> job'[x]] /\ job'.pc = "fetch"
        /\ job'.kind = job.kind /\ job'.url = "login" /\ job'.i = job.i + 1
    BY <1>1, <2>1, Idle DEF JobFields
  <2>3. Guesser(job)
    BY <1>1, <1>4
  <2>4. /\ job.i \in 1 .. Len(Default)
        /\ lost' = {} => \A k \in 1 .. (job.i - 1) : ~(Accepted(k) /\ Confirms)
    BY <1>2, <2>3 DEF LoginInv, Progress
  <2>5. /\ job'.i \in 1 .. Len(Default)
        /\ lost' = {} => \A k \in 1 .. (job'.i - 1) : ~(Accepted(k) /\ Confirms)
    BY <1>2, <1>4, <2>2, <2>3, <2>4
  <2>6. Shapes'
    BY <2>1, <2>2 DEF LoginInv, Shapes
  <2>7. Progress'
    BY <2>2, <2>3, <2>5
       DEF LoginInv, Progress, Guesser, Accepted, Confirms, InScope
  <2>8. Pages' /\ Visit(job)' /\ UnderTest'
    BY <2>2, <2>3 DEF LoginInv, Pages, Visit, UnderTest, Guesser
  <2>9. Reported' /\ ConfirmedIsAuthenticated'
    BY <1>2, <2>1 DEF LoginInv, Reported, ConfirmedIsAuthenticated, FirstAccepted, Accepted,
                      Confirms, InScope
  <2>. QED
    BY <2>6, <2>7, <2>8, <2>9 DEF LoginInv
<1>. QED
  BY <1>3, <1>4

(* A step that leaves the scan's session alone and changes only the login.  *)
LEMMA JobStep ==
  ASSUME LoginInv, UNCHANGED <<site, asked, lost>>, who' \in Seq(Users \cup {Nobody}),
         scan' = [x \in ScanFields |-> scan'[x]],
         scan'.on = scan.on /\ scan'.sure = scan.sure /\ scan'.as = scan.as
           /\ scan'.reported = scan.reported /\ scan'.refreshed = scan.refreshed,
         job' = [x \in JobFields |-> job'[x]],
         Progress', Pages', Visit(job)', UnderTest'
  PROVE  LoginInv'
<1>1. Shapes'
  BY DEF LoginInv, Shapes
<1>2. Reported' /\ ConfirmedIsAuthenticated'
  BY DEF LoginInv, Reported, ConfirmedIsAuthenticated, FirstAccepted, Accepted,
         Confirms, InScope
<1>. QED
  BY <1>1, <1>2 DEF LoginInv

LEMMA GuessesBegin ==
  ASSUME LoginInv, NEW kind \in {"default", "refresh"}, Guesses(kind),
         kind = "default" => asked.auth # "form", UNCHANGED asked
  PROVE  /\ job' = [x \in JobFields |-> job'[x]]
         /\ Progress' /\ Pages' /\ Visit(job)' /\ UnderTest'
<1>1. Len(Default) \in Nat /\ Len(Default) # 0
  OBVIOUS
<1>2. /\ job' = [x \in JobFields |-> job'[x]] /\ job'.pc = "discover"
      /\ job'.kind = kind /\ job'.i = 1
  BY Idle DEF Guesses, JobFields
<1>3. Progress'
  BY <1>1, <1>2 DEF Progress, Guesser
<1>. QED
  BY <1>2, <1>3 DEF Pages, Visit, UnderTest

-----------------------------------------------------------------------------
(* Actions.                                                                *)

LEMMA BeginStep == ASSUME LoginInv, Begin PROVE LoginInv'
<1>0. /\ UNCHANGED <<site, asked, lost>> /\ asked \in RequestType
      /\ who \in Seq(Users \cup {Nobody})
  BY DEF Begin, Answer, Rest, LoginInv, Shapes
<1>1. CASE asked.auth = "form"
  <2>1. /\ job' = [IdleJob EXCEPT !.kind = "form", !.url = asked.url,
                     !.pc = IF asked.url = None THEN "discover" ELSE "fetch"]
        /\ UNCHANGED <<scan, who>>
    BY <1>1 DEF Begin
  <2>2. /\ job' = [x \in JobFields |-> job'[x]] /\ job'.kind = "form"
        /\ job'.pc \in {"discover", "fetch"} /\ (job'.pc = "fetch" => job'.url # None)
        /\ job'.url = asked.url
    BY <2>1, Idle DEF JobFields
  <2>3. Progress' /\ Pages' /\ Visit(job)' /\ UnderTest'
    BY <1>0, <1>1, <2>2 DEF Progress, Pages, Visit, UnderTest, Guesser, RequestType
  <2>4. scan' = [x \in ScanFields |-> scan'[x]]
    BY <2>1 DEF LoginInv, Shapes
  <2>. QED
    BY <1>0, <2>1, <2>2, <2>3, <2>4, JobStep
<1>2. CASE asked.auth = "cookie"
  <2>1. /\ who' = Append(who, Supplied)
        /\ Running([n \in {Carrier} |-> NewCookie], FALSE, Supplied, None, TRUE)
    BY <1>2 DEF Begin
  <2>2. who' \in Seq(Users \cup {Nobody})
    BY <1>0, <2>1 DEF Users
  <2>. QED
    BY <1>0, <2>1, <2>2, RunningKeeps
<1>3. CASE asked.auth = "none" /\ asked.auto /\ asked.profile
  <2>1. Guesses("default") /\ UNCHANGED <<scan, who>>
    BY <1>3 DEF Begin
  <2>2. scan' = [x \in ScanFields |-> scan'[x]]
    BY <2>1 DEF LoginInv, Shapes
  <2>. QED
    BY <1>0, <1>3, <2>1, <2>2, GuessesBegin, JobStep
<1>4. CASE asked.auth = "none" /\ ~(asked.auto /\ asked.profile)
  <2>1. Running(NoCookie, FALSE, Nobody, None, FALSE) /\ UNCHANGED who
    BY <1>4 DEF Begin, Unauthenticated
  <2>. QED
    BY <1>0, <2>1, RunningKeeps
<1>. QED
  BY <1>0, <1>1, <1>2, <1>3, <1>4 DEF RequestType

LEMMA DiscoverStep == ASSUME LoginInv, Discover PROVE LoginInv'
<1>0. UNCHANGED <<site, asked, who>> /\ who' \in Seq(Users \cup {Nobody})
      /\ lost \subseteq lost'
  BY DEF Discover, Answer, Lose, Rest, LoginInv, Shapes
<1>1. CASE Adopt(NoCookie, FALSE, None)
  BY <1>0, <1>1, AdoptKeeps
<1>2. CASE Discovered # None /\ job' = [job EXCEPT !.pc = "fetch", !.url = Discovered]
           /\ UNCHANGED <<scan, lost>>
  <2>1. /\ job.pc = "discover" /\ job' = [job EXCEPT !.pc = "fetch", !.url = Discovered]
        /\ UNCHANGED scan
    BY <1>2 DEF Discover
  <2>2. Discovered = "login" /\ ~site.odd
    BY <1>2 DEF Discovered
  <2>3. job = [x \in JobFields |-> job[x]]
    BY DEF LoginInv, Shapes
  <2>4. /\ job' = [x \in JobFields |-> job'[x]] /\ job'.pc = "fetch" /\ job'.url = "login"
        /\ job'.kind = job.kind /\ job'.i = job.i
    BY <2>1, <2>2, <2>3 DEF JobFields
  <2>5. Progress'
    BY <1>0, <1>2, <2>1, <2>4 DEF LoginInv, Progress, Guesser, Accepted, Confirms, InScope
  <2>6. Pages' /\ Visit(job)' /\ UnderTest'
    BY <1>0, <2>2, <2>4 DEF Pages, Visit, UnderTest
  <2>7. scan' = [x \in ScanFields |-> scan'[x]]
    BY <2>1 DEF LoginInv, Shapes
  <2>. QED
    BY <1>0, <1>2, <2>1, <2>4, <2>5, <2>6, <2>7, JobStep
<1>. QED
  BY <1>1, <1>2 DEF Discover, Answer

LEMMA FetchStep == ASSUME LoginInv, Fetch PROVE LoginInv'
<1>. DEFINE usable == InScope(job.url) /\ (~site.odd \/ (job.kind = "form" /\ site.reads))
            goOn == /\ usable /\ Answer
                    /\ IF site.anon
                       THEN /\ who' = Append(who, Nobody)
                            /\ job' = [job EXCEPT !.pc = "submit",
                                                  !.pre = [n \in {"sid"} |-> NewCookie]]
                       ELSE job' = [job EXCEPT !.pc = "submit", !.pre = NoCookie] /\ UNCHANGED who
                    /\ UNCHANGED scan
<1>0. /\ UNCHANGED <<site, asked>> /\ who \in Seq(Users \cup {Nobody}) /\ job.pc = "fetch"
      /\ scan = [x \in ScanFields |-> scan[x]] /\ job = [x \in JobFields |-> job[x]]
      /\ site.anon \in BOOLEAN
  BY DEF Fetch, Rest, LoginInv, Shapes, SiteType
<1>1. job.url \in {"login", "off"} /\ (Guesser(job) => usable)
  BY <1>0 DEF LoginInv, Pages, InScope
<1>2. CASE (~usable \/ Lose) /\ Adopt(job.likely, FALSE, None) /\ UNCHANGED who
  <2>1. lost \subseteq lost'
    BY DEF Fetch, Answer, Lose
  <2>2. job.kind = "refresh" => lost' # {}
    BY <1>1, <1>2 DEF Guesser, Lose
  <2>. QED
    BY <1>0, <1>2, <2>1, <2>2, AdoptKeeps
<1>3. CASE goOn
  <2>. DEFINE pre == IF site.anon THEN [n \in {"sid"} |-> NewCookie] ELSE NoCookie
  <2>1. /\ job' = [job EXCEPT !.pc = "submit", !.pre = pre] /\ UNCHANGED scan
        /\ who' = IF site.anon THEN Append(who, Nobody) ELSE who
        /\ UNCHANGED lost
    BY <1>3 DEF Answer
  <2>2. job.url = "login"
    BY <1>1, <1>3 DEF InScope
  <2>3. /\ job' = [x \in JobFields |-> job'[x]] /\ job'.pc = "submit" /\ job'.url = "login"
        /\ job'.kind = job.kind /\ job'.i = job.i /\ job'.pre = pre
    BY <1>0, <2>1, <2>2 DEF JobFields
  <2>4. who' \in Seq(Users \cup {Nobody})
    BY <1>0, <2>1
  <2>5. /\ DOMAIN pre = IF site.anon THEN {"sid"} ELSE {}
        /\ site.anon => pre["sid"] \in 1 .. Len(who') /\ who'[pre["sid"]] = Nobody
    <3>1. CASE site.anon
      <4>1. who' = Append(who, Nobody) /\ pre["sid"] = Len(who) + 1 /\ DOMAIN pre = {"sid"}
        BY <2>1, <3>1 DEF NewCookie
      <4>2. Len(who') = Len(who) + 1 /\ who'[Len(who) + 1] = Nobody /\ Len(who) \in Nat
        BY <1>0, <4>1
      <4>. QED
        BY <3>1, <4>1, <4>2
    <3>2. CASE ~site.anon
      BY <3>2 DEF NoCookie
    <3>. QED
      BY <3>1, <3>2
  <2>. HIDE DEF pre
  <2>6. Progress'
    BY <1>0, <2>1, <2>3 DEF LoginInv, Progress, Guesser, Accepted, Confirms, InScope
  <2>7. Pages' /\ UnderTest'
    BY <1>0, <2>3 DEF LoginInv, Pages, UnderTest, Guesser
  <2>8. Visit(job)'
    BY <1>0, <2>3, <2>5 DEF Visit
  <2>9. scan' = [x \in ScanFields |-> scan'[x]]
    BY <1>0, <2>1
  <2>. QED
    BY <1>0, <2>1, <2>3, <2>4, <2>6, <2>7, <2>8, <2>9, JobStep
<1>. QED
  BY <1>0, <1>2, <1>3 DEF Fetch

(* The form is submitted: the session under test is the candidate's exactly *)
(* if the target accepts the pair.                                          *)
LEMMA SubmitStep == ASSUME LoginInv, Submit PROVE LoginInv'
<1>. DEFINE in  == Accepts
            new == Renews
            set == IF new THEN [n \in {Carrier} |-> NewCookie] ELSE NoCookie
            c   == MergeCookies(job.pre, set)
            goOn == IF DOMAIN c = {} THEN NextGuess(job.likely)
                    ELSE /\ job' = [job EXCEPT !.pc = "verify", !.cookie = c,
                                               !.landed = IF Accepts THEN site.after ELSE None]
                         /\ UNCHANGED scan
<1>0. /\ UNCHANGED <<site, asked>> /\ who \in Seq(Users \cup {Nobody}) /\ job.pc = "submit"
      /\ scan = [x \in ScanFields |-> scan[x]] /\ job = [x \in JobFields |-> job[x]]
      /\ site \in SiteType /\ lost \subseteq lost'
  BY DEF Submit, Answer, Lose, Rest, LoginInv, Shapes
<1>1. /\ job.url = "login" /\ DOMAIN job.pre = IF site.anon THEN {"sid"} ELSE {}
      /\ site.anon => job.pre["sid"] \in 1 .. Len(who) /\ who[job.pre["sid"]] = Nobody
      /\ job.kind = "form" \/ Guesser(job)
  BY <1>0 DEF LoginInv, Pages, Visit, Progress
<1>2. CASE ~InScope(site.action)
  <2>1. NextGuess(job.likely) /\ UNCHANGED who
    BY <1>2 DEF Submit
  <2>2. ~Confirms
    BY <1>2 DEF Confirms
  <2>. QED
    BY <1>0, <2>1, <2>2, NextGuessKeeps
<1>4. LogsIn => who' \in Seq(Users \cup {Nobody})
  <2>1. Accepts => Candidate \in Users
    BY <1>0 DEF SiteType, Accepts
  <2>. QED
    BY <1>0, <1>1, <2>1 DEF LogsIn, Renews
<1>5. CASE Lose /\ NextGuess(job.likely) /\ (LogsIn \/ UNCHANGED who)
  <2>1. who' \in Seq(Users \cup {Nobody}) /\ lost' # {}
    BY <1>0, <1>4, <1>5 DEF Lose
  <2>. QED
    BY <1>0, <1>5, <2>1, NextGuessKeeps
<1>3. CASE InScope(site.action) /\ Answer /\ LogsIn /\ goOn
  <2>0. UNCHANGED lost
    BY <1>3 DEF Answer
  <2>1. who' = IF new THEN Append(who, Candidate)
               ELSE IF in /\ site.anon THEN [who EXCEPT ![job.pre["sid"]] = Candidate]
               ELSE who
    BY <1>3 DEF LogsIn
  <2>2. goOn
    BY <1>3
  <2>3. site.accepts \subseteq Users /\ site.anon \in BOOLEAN
        /\ site.grant \in {"same", "renew", "token"}
    BY <1>0 DEF SiteType
  <2>4. in => Candidate \in Users
    BY <2>3 DEF Accepts
  <2>5. who' \in Seq(Users \cup {Nobody})
    BY <1>3, <1>4
  <2>6. DOMAIN c = DOMAIN job.pre \cup DOMAIN set
    BY DEF MergeCookies
  <2>7. CASE DOMAIN c = {}
    <3>1. ~(in /\ (site.grant # "same" \/ site.anon))
      BY <1>1, <2>6, <2>7 DEF NoCookie, Renews
    <3>2. Guesser(job) => Candidate = Default[job.i]
      BY DEF Candidate, Guesser
    <3>3. NextGuess(job.likely)
      BY <2>2, <2>7
    <3>4. Guesser(job) => ~(Accepted(job.i) /\ Confirms)
      BY <3>1, <3>2 DEF Accepted, Confirms, Accepts
    <3>. QED
      BY <1>0, <2>5, <3>3, <3>4, NextGuessKeeps
  <2>8. CASE DOMAIN c # {}
    <3>1. /\ job' = [job EXCEPT !.pc = "verify", !.cookie = c,
                                !.landed = IF in THEN site.after ELSE None]
          /\ UNCHANGED scan
      BY <2>2, <2>8
    <3>. DEFINE visitor == IF Carrier \in DOMAIN c THEN who'[c[Carrier]] ELSE Nobody
    <3>2. visitor = IF in THEN Candidate ELSE Nobody
      <4>1. CASE new
        <5>1. Carrier \in DOMAIN set /\ set[Carrier] = Len(who) + 1
          BY <4>1 DEF NewCookie
        <5>2. Carrier \in DOMAIN c /\ c[Carrier] = Len(who) + 1
          BY <5>1 DEF MergeCookies
        <5>3. who' = Append(who, Candidate)
          BY <2>1, <4>1
        <5>4. who'[Len(who) + 1] = Candidate
          BY <1>0, <2>4, <4>1, <5>3 DEF Renews
        <5>. QED
          BY <4>1, <5>2, <5>4 DEF Renews
      <4>2. CASE ~new
        <5>1. DOMAIN set = {}
          BY <4>2 DEF NoCookie
        <5>2. DOMAIN c = DOMAIN job.pre /\ \A n \in DOMAIN job.pre : c[n] = job.pre[n]
          BY <5>1 DEF MergeCookies
        <5>3. site.anon /\ DOMAIN c = {"sid"} /\ c["sid"] = job.pre["sid"]
          BY <1>1, <2>8, <5>2
        <5>4. CASE in
          <6>1. who' = [who EXCEPT ![job.pre["sid"]] = Candidate] /\ Carrier = "sid"
            BY <2>1, <4>2, <5>3, <5>4 DEF Carrier, Renews
          <6>. QED
            BY <1>0, <1>1, <5>3, <5>4, <6>1
        <5>5. CASE ~in
          <6>1. who' = who
            BY <2>1, <5>5 DEF Renews
          <6>. QED
            BY <1>1, <5>3, <5>5, <6>1
        <5>. QED
          BY <5>4, <5>5
      <4>. QED
        BY <4>1, <4>2
    <3>3. in => site.grant # "same" \/ site.anon
      BY <1>1, <2>6, <2>8 DEF NoCookie, Renews
    <3>. HIDE DEF c
    <3>4. /\ job' = [x \in JobFields |-> job'[x]] /\ job'.pc = "verify" /\ job'.url = "login"
          /\ job'.kind = job.kind /\ job'.i = job.i /\ job'.cookie = c
          /\ job'.landed = IF in THEN site.after ELSE None
      BY <1>0, <1>1, <3>1 DEF JobFields
    <3>5. Progress'
      BY <1>0, <2>0, <3>4 DEF LoginInv, Progress, Guesser, Accepted, Confirms, InScope
    <3>6. Pages' /\ Visit(job)'
      BY <1>0, <3>4 DEF LoginInv, Pages, Visit, Guesser
    <3>7. UnderTest'
      <4>1. Candidate' = Candidate
        BY <3>4 DEF Candidate
      <4>2. Visitor(job.cookie)' = visitor
        BY <1>0, <3>4 DEF Visitor, Carrier
      <4>. HIDE DEF visitor
      <4>. QED
        BY <1>0, <1>3, <3>2, <3>3, <3>4, <4>1, <4>2 DEF UnderTest, InScope, Accepts
    <3>8. scan' = [x \in ScanFields |-> scan'[x]]
      BY <1>0, <3>1
    <3>. QED
      BY <1>0, <2>0, <2>5, <3>1, <3>4, <3>5, <3>6, <3>7, <3>8, JobStep
  <2>. QED
    BY <2>7, <2>8
<1>. QED
  BY <1>2, <1>3, <1>5 DEF Submit

LEMMA FirstIsUnique ==
  ASSUME NEW u, NEW v, FirstAccepted(u), FirstAccepted(v) PROVE u = v
<1>1. PICK k \in 1 .. Len(Default) : u = Default[k] /\ Accepted(k)
                                    /\ \A i \in 1 .. (k - 1) : ~Accepted(i)
  BY DEF FirstAccepted
<1>2. PICK l \in 1 .. Len(Default) : v = Default[l] /\ Accepted(l)
                                    /\ \A i \in 1 .. (l - 1) : ~Accepted(i)
  BY DEF FirstAccepted
<1>3. Len(Default) \in Nat
  OBVIOUS
<1>4. ~(k < l) /\ ~(l < k)
  BY <1>1, <1>2, <1>3
<1>. QED
  BY <1>1, <1>2, <1>3, <1>4

(* A confirmed session belongs to the candidate, a pair the target accepts. *)
LEMMA VerifyStep == ASSUME LoginInv, Verify PROVE LoginInv'
<1>. DEFINE b == ProbeURL = job.url /\ ~site.odd
           shown == AssessLogin(b, Get(ProbeURL, job.cookie))
           kept(g) == IF g = "likely" /\ job.likely = NoCookie THEN job.cookie ELSE job.likely
<1>0. /\ UNCHANGED <<site, asked>> /\ who' \in Seq(Users \cup {Nobody}) /\ job.pc = "verify"
      /\ job.kind = "form" \/ Guesser(job)
      /\ lost \subseteq lost'
  BY DEF Verify, Answer, Lose, Rest, LoginInv, Shapes, Progress
<1>4. PICK grade \in {"failed", "likely", "confirmed"} :
        /\ (Answer /\ grade = shown) \/ (grade = "likely" /\ Lose)
        /\ IF grade = "confirmed" THEN Adopt(job.cookie, TRUE, Candidate)
           ELSE NextGuess(kept(grade))
  BY DEF Verify
<1>5. grade = "confirmed" => shown = "confirmed"
  BY <1>4
<1>1. Guesser(job) => Candidate = Default[job.i] /\ job.kind # "form"
  BY DEF Candidate, Guesser
<1>2. CASE grade = "confirmed"
  <2>1. Adopt(job.cookie, TRUE, Candidate)
    BY <1>2, <1>4
  <2>2. Visitor(job.cookie) = Candidate /\ Candidate \in site.accepts
    BY <1>0, <1>2, <1>5, ConfirmedShowsSomebody DEF LoginInv, UnderTest
  <2>3. asked.auth = "form" => job.kind = "form" \/ job.kind = "refresh"
    BY <1>0 DEF LoginInv, Progress, Guesser
  <2>. DEFINE Goal == Guesser(job) /\ lost = {} => Confirms /\ FirstAccepted(Candidate)
  <2>4. Goal
    <3>. SUFFICES ASSUME Guesser(job), lost = {} PROVE Confirms /\ FirstAccepted(Candidate)
      OBVIOUS
    <3>1. Confirms
      BY <1>0, <1>2, <1>5, <2>2, AcceptedIsConfirmed
    <3>2. /\ job.i \in 1 .. Len(Default) /\ \A k \in 1 .. (job.i - 1) : ~Accepted(k)
      BY <3>1 DEF LoginInv, Progress
    <3>. QED
      BY <1>1, <2>2, <3>1, <3>2 DEF FirstAccepted, Accepted
  <2>5. job.kind # "refresh" /\ asked.auth = "form" => Candidate = Supplied
    BY <2>3 DEF Candidate
  <2>6. job.kind = "refresh" /\ scan.reported # None /\ lost' = {} => Candidate = scan.reported
    BY <1>0, <2>4, FirstIsUnique DEF LoginInv, Reported, Guesser
  <2>. QED
    BY <1>0, <2>1, <2>2, <2>4, <2>5, <2>6, AdoptKeeps DEF Guesser
<1>3. CASE grade # "confirmed"
  <2>1. NextGuess(kept(grade))
    BY <1>3, <1>4
  <2>2. Guesser(job) /\ lost' = {} => ~(Accepted(job.i) /\ Confirms)
    <3>1. lost' = {} => grade = shown
      BY <1>4 DEF Lose
    <3>. QED
      BY <1>0, <1>1, <1>3, <3>1, AcceptedIsConfirmed DEF Accepted
  <2>. DEFINE likely == kept(grade)
  <2>. HIDE DEF kept, likely
  <2>3. NextGuess(likely)
    BY <2>1 DEF likely
  <2>. QED
    BY <1>0, <2>2, <2>3, NextGuessKeeps
<1>. QED
  BY <1>2, <1>3

(* A request of the agent may begin a recovery; the target may forget.      *)
LEMMA AgentStep == ASSUME LoginInv, Step PROVE LoginInv'
<1>1. /\ job.pc = "over" /\ UNCHANGED <<site, asked, who, lost>> /\ who' \in Seq(Users \cup {Nobody})
      /\ scan' = [scan EXCEPT !.steps = @ + 1]
      /\ scan = [x \in ScanFields |-> scan[x]] /\ job = [x \in JobFields |-> job[x]]
  BY DEF Step, Rest, LoginInv, Shapes
<1>2. /\ scan' = [x \in ScanFields |-> scan'[x]]
      /\ scan'.on = scan.on /\ scan'.sure = scan.sure /\ scan'.as = scan.as
      /\ scan'.reported = scan.reported /\ scan'.refreshed = scan.refreshed
  BY <1>1 DEF ScanFields
<1>3. CASE Guesses("refresh")
  BY <1>1, <1>2, <1>3, GuessesBegin, JobStep
<1>4. CASE UNCHANGED job
  <2>1. Progress' /\ Pages' /\ Visit(job)' /\ UnderTest'
    BY <1>1, <1>4 DEF LoginInv, Progress, Pages, Visit, UnderTest, Guesser, Accepted,
                      Confirms, InScope
  <2>. QED
    BY <1>1, <1>2, <1>4, <2>1, JobStep
<1>. QED
  BY <1>3, <1>4 DEF Step

LEMMA ForgetStep == ASSUME LoginInv, Forget PROVE LoginInv'
<1>1. /\ job.pc = "over" /\ UNCHANGED <<site, asked, scan, job, lost>>
      /\ who' = [who EXCEPT ![scan.cookie[Carrier]] = Nobody]
      /\ scan = [x \in ScanFields |-> scan[x]] /\ job = [x \in JobFields |-> job[x]]
      /\ who \in Seq(Users \cup {Nobody})
  BY DEF Forget, LoginInv, Shapes
<1>2. who' \in Seq(Users \cup {Nobody})
  <2>. DEFINE k == scan.cookie[Carrier]
             T == Users \cup {Nobody}
  <2>0. who \in Seq(T) /\ Nobody \in T
    BY <1>1
  <2>. HIDE DEF k, T
  <2>1. who' = [who EXCEPT ![k] = Nobody]
    BY <1>1 DEF k
  <2>2. CASE k \in 1 .. Len(who)
    <3>1. who' \in Seq(T)
      BY <2>0, <2>1, <2>2
    <3>. QED
      BY <3>1 DEF T
  <2>3. CASE k \notin 1 .. Len(who)
    <3>1. k \notin DOMAIN who
      BY <1>1, <2>3
    <3>2. who' = who
      BY <1>1, <2>1, <3>1
    <3>. QED
      BY <1>1, <3>2
  <2>. QED
    BY <2>2, <2>3
<1>3. Progress' /\ Pages' /\ Visit(job)' /\ UnderTest'
  BY <1>1 DEF LoginInv, Progress, Pages, Visit, UnderTest, Guesser, Accepted,
              Confirms, InScope
<1>. QED
  BY <1>1, <1>2, <1>3, JobStep

-----------------------------------------------------------------------------
(* The theorems.                                                           *)

LEMMA InitLogin == Init => LoginInv
<1>. SUFFICES ASSUME Init PROVE LoginInv
  OBVIOUS
<1>1. site \in SiteType /\ asked \in RequestType /\ who = <<>> /\ job = IdleJob /\ scan = NoScan
      /\ lost = {}
  BY LoginAssumption DEF Init
<1>2. /\ NoScan = [x \in ScanFields |-> NoScan[x]]
      /\ NoScan.on = FALSE /\ NoScan.sure = FALSE /\ NoScan.reported = None
      /\ NoScan.refreshed = 0
  BY DEF NoScan, ScanFields
<1>3. Shapes
  BY <1>1, <1>2, Idle DEF Shapes
<1>4. Progress /\ Pages /\ Visit(job) /\ UnderTest
  BY <1>1, Idle DEF Progress, Pages, Visit, UnderTest, Guesser
<1>5. Reported /\ ConfirmedIsAuthenticated
  BY <1>1, <1>2 DEF Reported, ConfirmedIsAuthenticated
<1>. QED
  BY <1>3, <1>4, <1>5 DEF LoginInv

LEMMA NextLogin == LoginInv /\ [Next]_vars => LoginInv'
<1>. SUFFICES ASSUME LoginInv, [Next]_vars PROVE LoginInv'
  OBVIOUS
<1>1. CASE UNCHANGED vars
  <2>1. UNCHANGED <<site, asked, who, job, scan, lost>>
    BY <1>1 DEF vars
  <2>2. Shapes' /\ Pages' /\ Visit(job)'
    BY <2>1 DEF LoginInv, Shapes, Pages, Visit, Guesser
  <2>3. Progress'
    BY <2>1 DEF LoginInv, Progress, Guesser, Accepted, Confirms, InScope
  <2>4. UnderTest'
    BY <2>1 DEF LoginInv, UnderTest, InScope, Candidate, Visitor, Carrier
  <2>5. Reported' /\ ConfirmedIsAuthenticated'
    BY <2>1 DEF LoginInv, Reported, Accepted, Confirms, InScope, FirstAccepted,
                ConfirmedIsAuthenticated
  <2>. QED
    BY <2>2, <2>3, <2>4, <2>5 DEF LoginInv
<1>. QED
  BY <1>1, BeginStep, DiscoverStep, FetchStep, SubmitStep, VerifyStep, AgentStep, ForgetStep
     DEF Next

(* The prelude keeps its pages, its visitor's cookie and its guesses in     *)
(* step, for every honest target and every list of default credentials.     *)
THEOREM LoginInvariant == Spec => []LoginInv
BY InitLogin, NextLogin, PTL DEF Spec

(* "a bare cookie is never sufficient proof" (auth_form.go): a session used *)
(* without a caveat is the session of the user whose credentials were sent, *)
(* a reported default pair is one the target accepts, and the scan runs as  *)
(* that pair; a recovery leaves it as another one only after a request of   *)
(* the guessing failed.                                                     *)
THEOREM ConfirmedSessionsAreReal == Spec => []ConfirmedIsAuthenticated
<1>1. LoginInv => ConfirmedIsAuthenticated
  BY DEF LoginInv
<1>. QED
  BY <1>1, LoginInvariant, PTL

-----------------------------------------------------------------------------
(* The type invariant.  A cookie points at a session the target handed out, *)
(* and a recovery that is running was begun below the cap.                  *)

Jars(n) == UNION {[S -> 1 .. n] : S \in SUBSET Names}

JobTyped(j, n) ==
  /\ j.pc \in {"start", "discover", "fetch", "submit", "verify", "over"}
  /\ j.kind \in {None, "form", "default", "refresh"} /\ j.i \in 0 .. Len(Default)
  /\ j.url \in Urls \cup {None} /\ j.landed \in Urls \cup {None}
  /\ j.pre \in Jars(n) /\ j.cookie \in Jars(n) /\ j.likely \in Jars(n)
ScanTyped(s, n) ==
  /\ s.on \in BOOLEAN /\ s.sure \in BOOLEAN /\ s.authenticated \in BOOLEAN
  /\ s.as \in Users \cup {Nobody} /\ s.reported \in Users \cup {None}
  /\ s.refreshed \in 0 .. MaxRefresh /\ s.steps \in 0 .. MaxSteps
  /\ s.cookie \in Jars(n)

RefreshBelowCap == job.kind = "refresh" => scan.refreshed < MaxRefresh
Sessions == JobTyped(job, Len(who)) /\ ScanTyped(scan, Len(who)) /\ RefreshBelowCap

Surroundings == /\ site \in Sites /\ asked \in Requests
                /\ sent \subseteq Urls \ {"off"} /\ guessed \in Nat /\ drops \in 0 .. MaxDrops
                /\ lost \subseteq {"discover", "fetch", "submit", "verify"}

PreludeIInv == Sessions /\ Surroundings

LEMMA JarIs ==
  ASSUME NEW n \in Nat, NEW c
  PROVE  c \in Jars(n) <=> /\ c = [x \in DOMAIN c |-> c[x]] /\ DOMAIN c \subseteq Names
                           /\ \A x \in DOMAIN c : c[x] \in 1 .. n
<1>1. ASSUME c \in Jars(n)
      PROVE  /\ c = [x \in DOMAIN c |-> c[x]] /\ DOMAIN c \subseteq Names
             /\ \A x \in DOMAIN c : c[x] \in 1 .. n
  <2>1. PICK S \in SUBSET Names : c \in [S -> 1 .. n]
    BY <1>1 DEF Jars
  <2>. QED
    BY <2>1
<1>2. ASSUME c = [x \in DOMAIN c |-> c[x]], DOMAIN c \subseteq Names,
             \A x \in DOMAIN c : c[x] \in 1 .. n
      PROVE  c \in Jars(n)
  <2>1. c \in [DOMAIN c -> 1 .. n]
    BY <1>2
  <2>. QED
    BY <1>2, <2>1 DEF Jars
<1>. QED
  BY <1>1, <1>2

LEMMA JarsGrow ==
  ASSUME NEW n \in Nat, NEW m \in Nat, n <= m, NEW c \in Jars(n) PROVE c \in Jars(m)
<1>1. \A k \in 1 .. n : k \in 1 .. m
  OBVIOUS
<1>. QED
  BY <1>1, JarIs

LEMMA EmptyJar == ASSUME NEW n \in Nat PROVE NoCookie \in Jars(n)
<1>1. DOMAIN NoCookie = {} /\ NoCookie = [x \in DOMAIN NoCookie |-> NoCookie[x]]
  BY DEF NoCookie
<1>. QED
  BY <1>1, JarIs

LEMMA MergedJar ==
  ASSUME NEW n \in Nat, NEW a \in Jars(n), NEW b \in Jars(n)
  PROVE  MergeCookies(a, b) \in Jars(n)
<1>. DEFINE c == MergeCookies(a, b)
<1>1. DOMAIN c = DOMAIN a \cup DOMAIN b /\ c = [x \in DOMAIN c |-> c[x]]
  BY DEF MergeCookies
<1>2. \A x \in DOMAIN c : c[x] \in 1 .. n
  BY JarIs DEF MergeCookies
<1>. HIDE DEF c
<1>3. DOMAIN c \subseteq Names
  BY <1>1, JarIs
<1>. QED
  BY <1>1, <1>2, <1>3, JarIs DEF c

LEMMA VisitorIsAUser ==
  ASSUME LoginInv, NEW c \in Jars(Len(who)) PROVE Visitor(c) \in Users \cup {Nobody}
<1>1. who \in Seq(Users \cup {Nobody}) /\ Len(who) \in Nat
  BY DEF LoginInv, Shapes
<1>2. Carrier \in DOMAIN c => c[Carrier] \in 1 .. Len(who)
  BY <1>1, JarIs
<1>. QED
  BY <1>1, <1>2 DEF Visitor

LEMMA StillTyped ==
  ASSUME NEW n \in Nat, NEW m \in Nat, n <= m
  PROVE  /\ \A j : JobTyped(j, n) => JobTyped(j, m)
         /\ \A s : ScanTyped(s, n) => ScanTyped(s, m)
BY JarsGrow DEF JobTyped, ScanTyped

(* A scan starts with a cookie the target handed out.                       *)
LEMMA RunningTyped ==
  ASSUME NEW c, NEW sure \in BOOLEAN, NEW as \in Users \cup {Nobody},
         NEW reported \in Users \cup {None}, NEW auth \in BOOLEAN,
         Running(c, sure, as, reported, auth),
         Len(who') \in Nat, c \in Jars(Len(who'))
  PROVE  Sessions'
<1>. DEFINE n == Len(who')
<1>1. n \in Nat /\ c \in Jars(n) /\ Len(Default) \in Nat /\ MaxRefresh \in Nat /\ MaxSteps \in Nat
  BY LoginAssumption
<1>. HIDE DEF n
<1>2. JobTyped(job', n) /\ job'.kind = None
  BY <1>1, EmptyJar DEF Running, IdleJob, JobTyped
<1>3. /\ scan'.as = as /\ scan'.reported = reported /\ scan'.refreshed = 0
      /\ scan'.steps = 0 /\ scan'.cookie = c
  BY DEF Running
<1>4. scan'.on \in BOOLEAN /\ scan'.sure \in BOOLEAN /\ scan'.authenticated \in BOOLEAN
  <2>1. scan'.sure = sure /\ scan'.authenticated = auth /\ sure \in BOOLEAN /\ auth \in BOOLEAN
    BY DEF Running
  <2>2. scan'.sure \in BOOLEAN
    BY <2>1, Zenon
  <2>3. scan'.authenticated \in BOOLEAN
    BY <2>1, Zenon
  <2>4. scan'.on \in BOOLEAN
    BY DEF Running
  <2>. QED
    BY <2>2, <2>3, <2>4
<1>5. /\ scan'.as \in Users \cup {Nobody} /\ scan'.reported \in Users \cup {None}
      /\ scan'.cookie \in Jars(n)
  BY <1>1, <1>3
<1>6. scan'.refreshed \in 0 .. MaxRefresh /\ scan'.steps \in 0 .. MaxSteps
  BY <1>1, <1>3
<1>7. ScanTyped(scan', n)
  BY <1>4, <1>5, <1>6, Zenon DEF ScanTyped
<1>. QED
  BY <1>2, <1>7 DEF n, Sessions, RefreshBelowCap

LEMMA AdoptTyped ==
  ASSUME LoginInv, Sessions, NEW c \in Jars(Len(who)), NEW sure \in BOOLEAN,
         NEW u \in Users \cup {None}, Adopt(c, sure, u),
         Len(who') \in Nat, Len(who) <= Len(who')
  PROVE  Sessions'
<1>. DEFINE n == Len(who')
<1>0. Len(who) \in Nat
  BY DEF LoginInv, Shapes
<1>1. n \in Nat /\ c \in Jars(n)
  BY <1>0, JarsGrow
<1>2. Visitor(c) \in Users \cup {Nobody}
  BY VisitorIsAUser
<1>3. CASE job.kind # "refresh" /\ c = NoCookie
  BY <1>1, <1>3, EmptyJar, RunningTyped DEF Adopt, Unauthenticated
<1>4. CASE job.kind # "refresh" /\ c # NoCookie
  <2>. DEFINE r == IF sure /\ job.kind = "default" THEN u ELSE None
  <2>1. Running(c, sure, Visitor(c), r, TRUE) /\ r \in Users \cup {None}
    BY <1>4 DEF Adopt
  <2>. HIDE DEF r
  <2>. QED
    BY <1>1, <1>2, <2>1, RunningTyped
<1>5. CASE job.kind = "refresh"
  <2>1. scan.refreshed + 1 \in 0 .. MaxRefresh
    BY <1>5, LoginAssumption DEF Sessions, RefreshBelowCap, ScanTyped
  <2>2. /\ job' = [IdleJob EXCEPT !.pc = "over"]
        /\ scan' = IF c = NoCookie THEN scan
                   ELSE [scan EXCEPT !.cookie = c, !.refreshed = scan.refreshed + 1,
                                     !.sure = FALSE, !.as = Visitor(c)]
    BY <1>5 DEF Adopt
  <2>3. JobTyped(job', n) /\ job'.kind = None
    BY <1>1, <2>2, EmptyJar DEF IdleJob, JobTyped
  <2>4. scan = [x \in ScanFields |-> scan[x]] /\ ScanTyped(scan, n)
    BY <1>0, StillTyped DEF LoginInv, Shapes, Sessions
  <2>5. ScanTyped(scan', n)
    <3>1. CASE c = NoCookie
      BY <2>2, <2>4, <3>1
    <3>2. CASE c # NoCookie
      <4>. DEFINE v == Visitor(c)
                  r == scan.refreshed + 1
      <4>1. v \in Users \cup {Nobody} /\ r \in 0 .. MaxRefresh
            /\ scan' = [scan EXCEPT !.cookie = c, !.refreshed = r, !.sure = FALSE, !.as = v]
        BY <1>2, <2>1, <2>2, <3>2
      <4>. HIDE DEF v, r, n
      <4>. QED
        BY <1>1, <2>4, <4>1 DEF ScanTyped, ScanFields
    <3>. QED
      BY <3>1, <3>2
  <2>. QED
    BY <1>1, <2>3, <2>5 DEF Sessions, RefreshBelowCap
<1>. QED
  BY <1>3, <1>4, <1>5

(* The login goes on: the job stays typed, the scan is left alone.          *)
LEMMA JobTypedStep ==
  ASSUME Sessions, scan' = scan, Len(who) \in Nat, Len(who') \in Nat, Len(who) <= Len(who'),
         JobTyped(job', Len(who')), job'.kind = "refresh" => scan.refreshed < MaxRefresh
  PROVE  Sessions'
BY StillTyped DEF Sessions, RefreshBelowCap

LEMMA NextGuessTyped ==
  ASSUME LoginInv, Sessions, NEW likely \in Jars(Len(who)), NextGuess(likely),
         Len(who') \in Nat, Len(who) <= Len(who'), job.kind = "form" \/ Guesser(job)
  PROVE  Sessions'
<1>1. Len(Default) \in Nat /\ Len(who) \in Nat /\ likely \in Jars(Len(who'))
  BY JarsGrow DEF LoginInv, Shapes
<1>2. CASE job.kind = "form" \/ job.i = Len(Default)
  BY <1>2, AdoptTyped DEF NextGuess
<1>3. CASE ~(job.kind = "form" \/ job.i = Len(Default))
  <2>. DEFINE i == job.i + 1
              k == job.kind
              u == job.url
              n == Len(who')
  <2>1. /\ job' = [IdleJob EXCEPT !.pc = "fetch", !.kind = k, !.url = u, !.i = i,
                                  !.likely = likely]
        /\ UNCHANGED scan
    BY <1>3 DEF NextGuess
  <2>2. i \in 0 .. Len(Default) /\ k \in {None, "form", "default", "refresh"}
        /\ u \in Urls \cup {None} /\ likely \in Jars(n) /\ n \in Nat
    BY <1>1, <1>3 DEF Sessions, JobTyped, LoginInv, Progress
  <2>. HIDE DEF i, k, u, n
  <2>3. JobTyped(job', n) /\ job'.kind = k
    BY <1>1, <2>1, <2>2, EmptyJar DEF IdleJob, JobTyped
  <2>. QED
    BY <1>1, <2>1, <2>3, JobTypedStep DEF k, n, Sessions, RefreshBelowCap
<1>. QED
  BY <1>2, <1>3

(* What a login asks for is in scope, and the rest stands still.            *)
LEMMA SurroundingsKept ==
  ASSUME Surroundings, Rest, NEW us \in SUBSET Urls, Reach(us),
         guessed' = guessed \/ guessed' = guessed + 1,
         Answer \/ (Lose /\ job.pc \in {"discover", "fetch", "submit", "verify"})
  PROVE  Surroundings'
<1>1. site' \in Sites /\ asked' \in Requests /\ drops' \in 0 .. MaxDrops
  BY DEF Surroundings, Rest
<1>2. sent' \subseteq Urls \ {"off"}
  BY DEF Surroundings, Reach, InScope
<1>3. guessed' \in Nat
  BY DEF Surroundings
<1>4. lost' \subseteq {"discover", "fetch", "submit", "verify"}
  BY DEF Surroundings, Answer, Lose
<1>. QED
  BY <1>1, <1>2, <1>3, <1>4 DEF Surroundings

LEMMA BeginTyped == ASSUME LoginInv, PreludeIInv, Begin PROVE PreludeIInv'
<1>0. /\ UNCHANGED <<site, asked, drops, sent, guessed, lost>> /\ asked \in RequestType
      /\ who \in Seq(Users \cup {Nobody}) /\ Len(who) \in Nat
      /\ Sessions /\ Len(Default) \in Nat /\ Len(Default) # 0
      /\ MaxRefresh \in Nat /\ MaxSteps \in Nat /\ site.grant \in {"same", "renew", "token"}
  BY LoginAssumption DEF Begin, Answer, Rest, LoginInv, Shapes, SiteType, PreludeIInv
<1>1. Surroundings'
  BY <1>0 DEF PreludeIInv, Surroundings
<1>2. CASE asked.auth = "form"
  <2>. DEFINE u == asked.url
              p == IF u = None THEN "discover" ELSE "fetch"
              n == Len(who)
  <2>1. /\ job' = [IdleJob EXCEPT !.kind = "form", !.url = u, !.pc = p]
        /\ UNCHANGED <<scan, who>>
    BY <1>2 DEF Begin
  <2>2. u \in Urls \cup {None} /\ p \in {"discover", "fetch"} /\ n \in Nat
    BY <1>0 DEF RequestType
  <2>. HIDE DEF u, p, n
  <2>3. JobTyped(job', n) /\ job'.kind = "form"
    BY <1>0, <2>1, <2>2, EmptyJar DEF IdleJob, JobTyped
  <2>. QED
    BY <1>0, <1>1, <2>1, <2>3, JobTypedStep DEF n, PreludeIInv
<1>3. CASE asked.auth = "cookie"
  <2>. DEFINE c == [n \in {Carrier} |-> NewCookie]
  <2>1. who' = Append(who, Supplied) /\ Running(c, FALSE, Supplied, None, TRUE)
    BY <1>3 DEF Begin
  <2>2. Len(who') = Len(who) + 1
    BY <1>0, <2>1
  <2>3. Carrier \in Names /\ NewCookie \in 1 .. Len(who')
    BY <1>0, <2>2 DEF Carrier, NewCookie, Names
  <2>4. Supplied \in Users \cup {Nobody}
    BY DEF Users
  <2>5. DOMAIN c = {Carrier} /\ c = [y \in DOMAIN c |-> c[y]] /\ c[Carrier] \in 1 .. Len(who')
    BY <2>3
  <2>. HIDE DEF c
  <2>6. Len(who') \in Nat /\ c \in Jars(Len(who'))
    BY <1>0, <2>2, <2>3, <2>5, JarIs
  <2>7. Sessions'
    BY <2>1, <2>4, <2>6, RunningTyped
  <2>. QED
    BY <1>1, <2>7 DEF PreludeIInv
<1>4. CASE asked.auth = "none" /\ asked.auto /\ asked.profile
  <2>. DEFINE n == Len(who)
  <2>1. /\ job' = [IdleJob EXCEPT !.pc = "discover", !.kind = "default", !.i = 1]
        /\ UNCHANGED <<scan, who>> /\ n \in Nat
    BY <1>0, <1>4 DEF Begin, Guesses
  <2>. HIDE DEF n
  <2>2. JobTyped(job', n) /\ job'.kind = "default"
    BY <1>0, <2>1, EmptyJar DEF IdleJob, JobTyped
  <2>. QED
    BY <1>0, <1>1, <2>1, <2>2, JobTypedStep DEF n, PreludeIInv
<1>5. CASE asked.auth = "none" /\ ~(asked.auto /\ asked.profile)
  <2>1. Running(NoCookie, FALSE, Nobody, None, FALSE) /\ UNCHANGED who
    BY <1>5 DEF Begin, Unauthenticated
  <2>. QED
    BY <1>0, <1>1, <2>1, EmptyJar, RunningTyped DEF PreludeIInv
<1>. QED
  BY <1>0, <1>2, <1>3, <1>4, <1>5 DEF RequestType

LEMMA DiscoverTyped == ASSUME LoginInv, PreludeIInv, Discover PROVE PreludeIInv'
<1>0. /\ UNCHANGED who /\ Len(who) \in Nat /\ Sessions
      /\ job = [x \in JobFields |-> job[x]]
  BY DEF Discover, LoginInv, Shapes, PreludeIInv
<1>1. Surroundings'
  BY SurroundingsKept DEF Discover, DiscoveryVisits, PreludeIInv
<1>2. CASE Adopt(NoCookie, FALSE, None)
  <2>1. Len(who') \in Nat /\ Len(who) <= Len(who') /\ NoCookie \in Jars(Len(who))
    BY <1>0, EmptyJar
  <2>2. Sessions'
    BY <1>0, <1>2, <2>1, AdoptTyped
  <2>. QED
    BY <1>1, <2>2 DEF PreludeIInv
<1>3. CASE Discovered # None /\ job' = [job EXCEPT !.pc = "fetch", !.url = Discovered]
           /\ UNCHANGED scan
  <2>. DEFINE n == Len(who)
  <2>1. job' = [job EXCEPT !.pc = "fetch", !.url = "login"] /\ UNCHANGED scan /\ n \in Nat
    BY <1>0, <1>3 DEF Discover, Discovered
  <2>2. JobTyped(job, n)
    BY <1>0 DEF Sessions
  <2>. HIDE DEF n
  <2>3. JobTyped(job', n) /\ job'.kind = job.kind
    BY <1>0, <2>1, <2>2 DEF JobTyped, JobFields
  <2>. QED
    BY <1>0, <1>1, <2>1, <2>3, JobTypedStep DEF n, PreludeIInv, Sessions, RefreshBelowCap
<1>. QED
  BY <1>2, <1>3 DEF Discover

LEMMA FetchTyped == ASSUME LoginInv, PreludeIInv, Fetch PROVE PreludeIInv'
<1>. DEFINE usable == InScope(job.url) /\ (~site.odd \/ (job.kind = "form" /\ site.reads))
            goOn == /\ usable /\ Answer
                    /\ IF site.anon
                       THEN /\ who' = Append(who, Nobody)
                            /\ job' = [job EXCEPT !.pc = "submit",
                                                  !.pre = [n \in {"sid"} |-> NewCookie]]
                       ELSE job' = [job EXCEPT !.pc = "submit", !.pre = NoCookie] /\ UNCHANGED who
                    /\ UNCHANGED scan
<1>0. /\ who \in Seq(Users \cup {Nobody}) /\ Len(who) \in Nat /\ Sessions
      /\ job = [x \in JobFields |-> job[x]] /\ job.url \in Urls
      /\ job.likely \in Jars(Len(who))
  BY DEF Fetch, LoginInv, Shapes, Pages, PreludeIInv, Sessions, JobTyped
<1>1. Surroundings'
  BY <1>0, SurroundingsKept DEF Fetch, PreludeIInv
<1>2. CASE Adopt(job.likely, FALSE, None) /\ UNCHANGED who
  <2>1. Len(who') \in Nat /\ Len(who) <= Len(who')
    BY <1>0, <1>2
  <2>2. Sessions'
    BY <1>0, <1>2, <2>1, AdoptTyped
  <2>. QED
    BY <1>1, <2>2 DEF PreludeIInv
<1>3. CASE goOn
  <2>. DEFINE pre == IF site.anon THEN [n \in {"sid"} |-> NewCookie] ELSE NoCookie
              n == Len(who')
  <2>1. /\ job' = [job EXCEPT !.pc = "submit", !.pre = pre] /\ UNCHANGED scan
        /\ who' = IF site.anon THEN Append(who, Nobody) ELSE who
    BY <1>3
  <2>2. n \in Nat /\ Len(who) <= n /\ pre \in Jars(n)
    <3>1. CASE site.anon
      <4>1. n = Len(who) + 1
        BY <1>0, <2>1, <3>1
      <4>2. n \in Nat /\ NewCookie \in 1 .. n /\ "sid" \in Names
        BY <1>0, <4>1 DEF NewCookie, Names
      <4>3. /\ DOMAIN pre = {"sid"} /\ pre = [y \in DOMAIN pre |-> pre[y]]
            /\ pre["sid"] \in 1 .. n
        BY <3>1, <4>2
      <4>. HIDE DEF pre, n
      <4>. QED
        BY <1>0, <4>1, <4>2, <4>3, JarIs
    <3>2. CASE ~site.anon
      BY <1>0, <2>1, <3>2, EmptyJar
    <3>. QED
      BY <3>1, <3>2
  <2>3. JobTyped(job, n)
    BY <1>0, <2>2, StillTyped DEF Sessions
  <2>. HIDE DEF pre, n
  <2>4. JobTyped(job', n) /\ job'.kind = job.kind
    BY <1>0, <2>1, <2>2, <2>3 DEF JobTyped, JobFields
  <2>. QED
    BY <1>0, <1>1, <2>1, <2>2, <2>4, JobTypedStep DEF n, PreludeIInv, Sessions, RefreshBelowCap
<1>. QED
  BY <1>2, <1>3 DEF Fetch

LEMMA SubmitTyped == ASSUME LoginInv, PreludeIInv, Submit PROVE PreludeIInv'
<1>. DEFINE in  == Accepts
            new == Renews
            set == IF new THEN [n \in {Carrier} |-> NewCookie] ELSE NoCookie
            c   == MergeCookies(job.pre, set)
            goOn == IF DOMAIN c = {} THEN NextGuess(job.likely)
                    ELSE /\ job' = [job EXCEPT !.pc = "verify", !.cookie = c,
                                               !.landed = IF Accepts THEN site.after ELSE None]
                         /\ UNCHANGED scan
<1>0. /\ who \in Seq(Users \cup {Nobody}) /\ Len(who) \in Nat /\ Sessions
      /\ job = [x \in JobFields |-> job[x]] /\ site \in SiteType /\ job.pc = "submit"
      /\ job.kind = "form" \/ Guesser(job)
      /\ job.likely \in Jars(Len(who)) /\ job.pre \in Jars(Len(who))
  BY DEF Submit, LoginInv, Shapes, Progress, PreludeIInv, Sessions, JobTyped
<1>1. site.action \in Urls /\ site.after \in Urls \cup {None} /\ site.accepts \subseteq Users
  BY <1>0 DEF SiteType
<1>2. Surroundings'
  BY <1>1, SurroundingsKept DEF Submit, PreludeIInv
<1>5. LogsIn => /\ Len(who') \in Nat /\ Len(who) <= Len(who')
                /\ Renews => Len(who') = Len(who) + 1
  <2>1. CASE Renews
    BY <1>0, <2>1 DEF LogsIn
  <2>2. CASE ~Renews /\ Accepts /\ site.anon
    <3>1. LogsIn => who' = [who EXCEPT ![job.pre["sid"]] = Candidate]
      BY <2>2 DEF LogsIn
    <3>. QED
      BY <1>0, <2>2, <3>1
  <2>3. CASE ~Renews /\ ~(Accepts /\ site.anon)
    BY <1>0, <2>3 DEF LogsIn
  <2>. QED
    BY <2>1, <2>2, <2>3
<1>3. CASE NextGuess(job.likely) /\ (LogsIn \/ UNCHANGED who)
  <2>1. Len(who') \in Nat /\ Len(who) <= Len(who')
    BY <1>0, <1>3, <1>5
  <2>. QED
    BY <1>0, <1>2, <1>3, <2>1, NextGuessTyped DEF PreludeIInv
<1>4. CASE LogsIn /\ goOn
  <2>2. goOn
    BY <1>4
  <2>3. CASE DOMAIN c = {}
    BY <1>3, <1>4, <2>3
  <2>4. CASE DOMAIN c # {}
    <3>. DEFINE n == Len(who')
                l == IF in THEN site.after ELSE None
    <3>1. n \in Nat /\ Len(who) <= n /\ (new => n = Len(who) + 1)
      BY <1>4, <1>5
    <3>2. set \in Jars(n)
      <4>1. CASE new
        <5>1. Carrier \in Names /\ NewCookie \in 1 .. n /\ n \in Nat
          BY <1>0, <3>1, <4>1 DEF Carrier, NewCookie, Names
        <5>2. /\ DOMAIN set = {Carrier} /\ set = [y \in DOMAIN set |-> set[y]]
              /\ set[Carrier] \in 1 .. n
          BY <4>1, <5>1
        <5>. HIDE DEF set, n
        <5>. QED
          BY <5>1, <5>2, JarIs
      <4>2. CASE ~new
        BY <3>1, <4>2, EmptyJar
      <4>. QED
        BY <4>1, <4>2
    <3>3. c \in Jars(n)
      <4>1. job.pre \in Jars(n)
        BY <1>0, <3>1, JarsGrow
      <4>. HIDE DEF set, n
      <4>. QED
        BY <3>1, <3>2, <4>1, MergedJar
    <3>4. JobTyped(job, n) /\ l \in Urls \cup {None}
      BY <1>0, <1>1, <3>1, StillTyped DEF Sessions
    <3>5. job' = [job EXCEPT !.pc = "verify", !.cookie = c, !.landed = l] /\ UNCHANGED scan
      BY <2>2, <2>4
    <3>. HIDE DEF c, l, n
    <3>6. JobTyped(job', n) /\ job'.kind = job.kind
      BY <1>0, <3>3, <3>4, <3>5 DEF JobTyped, JobFields
    <3>. QED
      BY <1>0, <1>2, <3>1, <3>5, <3>6, JobTypedStep
         DEF n, PreludeIInv, Sessions, RefreshBelowCap
  <2>. QED
    BY <2>3, <2>4
<1>. QED
  BY <1>3, <1>4 DEF Submit

LEMMA VerifyTyped == ASSUME LoginInv, PreludeIInv, Verify PROVE PreludeIInv'
<1>. DEFINE shown == AssessLogin(ProbeURL = job.url /\ ~site.odd, Get(ProbeURL, job.cookie))
            kept(g) == IF g = "likely" /\ job.likely = NoCookie THEN job.cookie ELSE job.likely
<1>0. /\ UNCHANGED who /\ Len(who) \in Nat /\ Sessions /\ job.pc = "verify"
      /\ job.kind = "form" \/ Guesser(job)
      /\ job.likely \in Jars(Len(who)) /\ job.cookie \in Jars(Len(who))
  BY DEF Verify, LoginInv, Shapes, Progress, PreludeIInv, Sessions, JobTyped
<1>1. Surroundings'
  <2>1. ProbeURL \in Urls
    BY <1>0, ProbeIsNear
  <2>. QED
    BY <2>1, SurroundingsKept DEF Verify, PreludeIInv
<1>4. PICK grade \in {"failed", "likely", "confirmed"} :
        /\ (Answer /\ grade = shown) \/ (grade = "likely" /\ Lose)
        /\ IF grade = "confirmed" THEN Adopt(job.cookie, TRUE, Candidate)
           ELSE NextGuess(kept(grade))
  BY DEF Verify
<1>2. CASE grade = "confirmed"
  <2>1. Candidate \in Users
    <3>1. Visitor(job.cookie) = Candidate /\ Candidate \in site.accepts
      BY <1>0, <1>2, <1>4, ConfirmedShowsSomebody DEF LoginInv, UnderTest
    <3>. QED
      BY <3>1 DEF LoginInv, Shapes, SiteType
  <2>2. Adopt(job.cookie, TRUE, Candidate)
    BY <1>2, <1>4
  <2>3. Len(who') \in Nat /\ Len(who) <= Len(who')
    BY <1>0
  <2>4. Sessions'
    BY <1>0, <2>1, <2>2, <2>3, AdoptTyped
  <2>. QED
    BY <1>1, <2>4 DEF PreludeIInv
<1>3. CASE grade # "confirmed"
  <2>. DEFINE likely == kept(grade)
  <2>1. NextGuess(likely) /\ likely \in Jars(Len(who))
    BY <1>0, <1>3, <1>4
  <2>. HIDE DEF likely
  <2>. QED
    BY <1>0, <1>1, <2>1, NextGuessTyped DEF PreludeIInv
<1>. QED
  BY <1>2, <1>3

LEMMA AgentTyped == ASSUME LoginInv, PreludeIInv, Step PROVE PreludeIInv'
<1>. DEFINE n == Len(who)
            t == scan.steps + 1
<1>1. /\ UNCHANGED <<site, asked, who, sent, guessed, lost, drops>> /\ n \in Nat
      /\ JobTyped(job, n) /\ ScanTyped(scan, n) /\ RefreshBelowCap
      /\ scan = [x \in ScanFields |-> scan[x]] /\ Len(Default) \in Nat /\ Len(Default) # 0
      /\ MaxRefresh \in Nat
  BY LoginAssumption DEF Step, Rest, LoginInv, Shapes, PreludeIInv, Sessions
<1>2. Surroundings'
  BY <1>1 DEF PreludeIInv, Surroundings
<1>3. scan' = [scan EXCEPT !.steps = t] /\ t \in 0 .. MaxSteps
  BY <1>1, LoginAssumption DEF Step, ScanTyped
<1>4. \/ UNCHANGED job
      \/ scan.refreshed < MaxRefresh /\ job' = [IdleJob EXCEPT !.pc = "discover", !.kind = "refresh",
                                                               !.i = 1]
  BY DEF Step, MayRefresh, Guesses
<1>. HIDE DEF n, t
<1>5. ScanTyped(scan', n) /\ scan'.refreshed = scan.refreshed
  BY <1>1, <1>3 DEF ScanTyped, ScanFields
<1>6. JobTyped(job', n) /\ (job'.kind = "refresh" => scan.refreshed < MaxRefresh)
  <2>1. CASE UNCHANGED job
    BY <1>1, <2>1 DEF RefreshBelowCap
  <2>2. CASE scan.refreshed < MaxRefresh /\ job' = [IdleJob EXCEPT !.pc = "discover",
                                                      !.kind = "refresh", !.i = 1]
    BY <1>1, <2>2, EmptyJar DEF IdleJob, JobTyped
  <2>. QED
    BY <1>4, <2>1, <2>2
<1>. QED
  BY <1>1, <1>2, <1>5, <1>6 DEF n, PreludeIInv, Sessions, RefreshBelowCap

LEMMA ForgetTyped == ASSUME LoginInv, PreludeIInv, Forget PROVE PreludeIInv'
<1>1. /\ UNCHANGED <<site, asked, job, scan, sent, guessed, lost>> /\ drops' = drops + 1
      /\ drops < MaxDrops /\ who' = [who EXCEPT ![scan.cookie[Carrier]] = Nobody]
      /\ who \in Seq(Users \cup {Nobody}) /\ Len(who) \in Nat
  BY DEF Forget, LoginInv, Shapes
<1>2. Len(who') = Len(who)
  BY <1>1
<1>3. drops' \in 0 .. MaxDrops
  BY <1>1, LoginAssumption DEF PreludeIInv, Surroundings
<1>4. Sessions'
  BY <1>1, <1>2 DEF PreludeIInv, Sessions, RefreshBelowCap
<1>. QED
  BY <1>1, <1>3, <1>4 DEF PreludeIInv, Surroundings

LEMMA InitTyped == Init => PreludeIInv
<1>. SUFFICES ASSUME Init PROVE PreludeIInv
  OBVIOUS
<1>1. /\ site \in Sites /\ asked \in Requests /\ who = <<>> /\ job = IdleJob /\ scan = NoScan
      /\ sent = {} /\ guessed = 0 /\ lost = {} /\ drops = 0
      /\ MaxRefresh \in Nat /\ MaxSteps \in Nat /\ MaxDrops \in Nat /\ Len(Default) \in Nat
  BY LoginAssumption DEF Init
<1>2. JobTyped(job, 0)
  BY <1>1, EmptyJar DEF IdleJob, JobTyped
<1>3. ScanTyped(scan, 0) /\ job.kind = None
  BY <1>1, EmptyJar DEF NoScan, ScanTyped, IdleJob
<1>. QED
  BY <1>1, <1>2, <1>3 DEF PreludeIInv, Sessions, Surroundings, RefreshBelowCap

LEMMA NextTyped == LoginInv /\ PreludeIInv /\ [Next]_vars => PreludeIInv'
<1>. SUFFICES ASSUME LoginInv, PreludeIInv, [Next]_vars PROVE PreludeIInv'
  OBVIOUS
<1>1. CASE UNCHANGED vars
  BY <1>1 DEF vars, PreludeIInv, Sessions, Surroundings, RefreshBelowCap
<1>. QED
  BY <1>1, BeginTyped, DiscoverTyped, FetchTyped, SubmitTyped, VerifyTyped, AgentTyped,
     ForgetTyped DEF Next

THEOREM PreludeIInvariant == Spec => []PreludeIInv
BY InitTyped, NextTyped, LoginInvariant, PTL DEF Spec

(* The prelude stays within its caps on refreshes and steps, every cookie   *)
(* the scan holds or tries is one the target handed out, and whatever the   *)
(* target's redirects, links and forms point at, no login request leaves    *)
(* the scope (loginHTTP).                                                   *)
THEOREM PreludeIsTypedAndInScope == Spec => []PreludeInv
<1>1. LoginInv /\ PreludeIInv => PreludeInv
  <2>. SUFFICES ASSUME LoginInv, PreludeIInv PROVE PreludeInv
    OBVIOUS
  <2>1. who \in Seq(Users \cup {Nobody}) /\ Cookies = Jars(Len(who))
    BY DEF LoginInv, Shapes, Cookies, Jars
  <2>2. TypeOK
    BY <2>1 DEF PreludeIInv, Sessions, Surroundings, JobTyped, ScanTyped, TypeOK
  <2>3. NothingLeavesScope
    BY DEF PreludeIInv, Surroundings, NothingLeavesScope
  <2>. QED
    BY <2>2, <2>3 DEF PreludeInv
<1>. QED
  BY <1>1, LoginInvariant, PreludeIInvariant, PTL

-----------------------------------------------------------------------------
(* Good credentials log in: with a form that can be reached and read, the   *)
(* first login goes through every state without giving up, and whatever the *)
(* probe shows of it, the session is adopted.                               *)

FirstLoginInv ==
  /\ job.kind = "form" => /\ job.likely = NoCookie
                          /\ job.pc = "discover" => Discovered = "login"
                          /\ job.pc = "fetch" => job.url = "login"
  /\ scan.on /\ scan.refreshed = 0 => scan.as = Supplied

(* The session is the user's, so the probe cannot call the login failed.    *)
LEMMA GoodSessionNotFailed ==
  ASSUME LoginInv, CanLogIn, job.pc = "verify", job.kind = "form"
  PROVE  /\ Visitor(job.cookie) = Supplied /\ job.cookie # NoCookie
         /\ AssessLogin(ProbeURL = job.url /\ ~site.odd, Get(ProbeURL, job.cookie)) # "failed"
<1>. DEFINE u == ProbeURL
           p == Get(u, job.cookie)
           b == u = job.url /\ ~site.odd
<1>1. u \in {"login", "landing"}
  BY ProbeIsNear
<1>2. Candidate = Supplied /\ Supplied \in site.accepts /\ Supplied # Nobody
  BY DEF Candidate, CanLogIn, Users
<1>3. Visitor(job.cookie) = Supplied
  BY <1>2 DEF LoginInv, UnderTest
<1>4. job.cookie # NoCookie
  BY <1>2, <1>3 DEF Visitor, NoCookie
<1>5. p.status \in {200, 302} /\ p.location \in {None, "landing"}
  BY <1>1, <1>2, <1>3 DEF Get, Page
<1>8. u = Proof
  <2>1. job.landed = site.after /\ job.url = "login" /\ Candidate = Supplied
    BY <1>2 DEF LoginInv, Pages, UnderTest
  <2>2. site.after \in {"landing", "off", None} /\ asked.verify \in {"landing", "off", None}
    BY DEF LoginInv, Shapes, SiteType, RequestType
  <2>. QED
    BY <2>1, <2>2 DEF ProbeURL, Proof, InScope
<1>9. u = "login" => site.inside # "form"
  BY <1>8 DEF CanLogIn
<1>10. HasMarker(u) \in BOOLEAN /\ (HasMarker(u) => u = "login" /\ site.inside = "away")
  BY <1>8 DEF CanLogIn, HasMarker
<1>6. p.form \in BOOLEAN /\ p.form = FALSE
  <2>2. CASE u = "landing"
    BY <1>2, <1>3, <2>2 DEF Get, Page
  <2>3. CASE u = "login" /\ site.inside = "away"
    BY <1>2, <1>3, <2>3 DEF Get, Page
  <2>4. CASE u = "login" /\ site.inside # "away"
    BY <1>2, <1>3, <1>9, <2>4 DEF Get, Page
  <2>. QED
    BY <1>1, <2>2, <2>3, <2>4
<1>11. p.marker \in BOOLEAN /\ p.marker = FALSE
  <2>1. p.marker = FALSE \/ (p.marker = HasMarker(u) /\ ~(u = "login" /\ site.inside = "away"))
    BY <1>1, <1>2, <1>3 DEF Get, Page
  <2>. QED
    BY <1>10, <2>1
<1>. HIDE DEF u, p, b
<1>7. AssessLogin(b, p) # "failed"
  BY <1>5, <1>6, <1>11 DEF AssessLogin
<1>. QED
  BY <1>3, <1>4, <1>7 DEF u, p, b

LEMMA RunningAs ==
  ASSUME NEW c, NEW sure, NEW reported, NEW auth, Running(c, sure, Supplied, reported, auth)
  PROVE  FirstLoginInv'
BY DEF Running, FirstLoginInv, IdleJob

(* A recovery that ends leaves the session alone or counts as a recovery.   *)
LEMMA RecoveryCounts ==
  ASSUME LoginInv, PreludeIInv, FirstLoginInv, NEW c, NEW sure, NEW u, Adopt(c, sure, u),
         job.kind = "refresh"
  PROVE  FirstLoginInv'
<1>1. scan.refreshed \in Nat /\ scan = [x \in ScanFields |-> scan[x]]
  BY LoginAssumption DEF PreludeIInv, Sessions, ScanTyped, LoginInv, Shapes
<1>2. job'.kind = None
  BY DEF Adopt, IdleJob
<1>3. scan' = scan \/ scan'.refreshed = scan.refreshed + 1
  BY <1>1 DEF Adopt, ScanFields
<1>. QED
  BY <1>1, <1>2, <1>3 DEF FirstLoginInv

LEMMA FirstLoginStep ==
  ASSUME LoginInv, PreludeIInv, CanLogIn, FirstLoginInv, OnlyProbesLost', [Next]_vars
  PROVE  FirstLoginInv'
<1>0. /\ asked.auth = "form" /\ job = [x \in JobFields |-> job[x]]
      /\ scan = [x \in ScanFields |-> scan[x]]
      /\ job.kind \in {None, "form", "default", "refresh"} /\ job.kind # "default"
      /\ job.pc \in {"fetch", "submit", "verify", "discover"} => job.kind \in {"form", "refresh"}
  BY DEF CanLogIn, LoginInv, Shapes, Progress, Guesser
<1>10. Lose => job.pc = "verify" \/ job.pc \notin {"discover", "fetch", "submit"}
  BY DEF Lose, OnlyProbesLost
<1>1. CASE UNCHANGED vars
  BY <1>1 DEF vars, FirstLoginInv, Discovered
<1>2. CASE Begin
  <2>1. /\ job' = [IdleJob EXCEPT !.kind = "form", !.url = asked.url,
                     !.pc = IF asked.url = None THEN "discover" ELSE "fetch"]
        /\ UNCHANGED <<scan, site>>
    BY <1>0, <1>2 DEF Begin, Rest
  <2>2. job'.likely = NoCookie /\ job'.url = asked.url
        /\ job'.pc = IF asked.url = None THEN "discover" ELSE "fetch"
    BY <2>1 DEF IdleJob
  <2>3. asked.url = "login" \/ (asked.url = None /\ Discovered = "login")
    BY DEF CanLogIn
  <2>4. Discovered' = Discovered
    BY <2>1 DEF Discovered
  <2>. QED
    BY <2>1, <2>2, <2>3, <2>4 DEF FirstLoginInv
<1>3. CASE Discover
  <2>1. CASE Adopt(NoCookie, FALSE, None) /\ Discovered = None
    <3>1. job.kind = "refresh"
      BY <1>0, <1>3, <2>1 DEF Discover, FirstLoginInv
    <3>. QED
      BY <2>1, <3>1, RecoveryCounts
  <2>2. CASE /\ Discovered # None /\ job' = [job EXCEPT !.pc = "fetch", !.url = Discovered]
             /\ UNCHANGED scan
    <3>1. job' = [job EXCEPT !.pc = "fetch", !.url = "login"] /\ UNCHANGED scan
      BY <2>2 DEF Discovered
    <3>2. job'.pc = "fetch" /\ job'.url = "login" /\ job'.kind = job.kind
          /\ job'.likely = job.likely
      BY <1>0, <3>1 DEF JobFields
    <3>. QED
      BY <3>1, <3>2 DEF FirstLoginInv
  <2>. QED
    BY <1>3, <1>10, <2>1, <2>2 DEF Discover
<1>4. CASE Fetch
  <2>. DEFINE usable == InScope(job.url) /\ (~site.odd \/ (job.kind = "form" /\ site.reads))
              goOn == /\ IF site.anon
                         THEN /\ who' = Append(who, Nobody)
                              /\ job' = [job EXCEPT !.pc = "submit",
                                                    !.pre = [n \in {"sid"} |-> NewCookie]]
                         ELSE job' = [job EXCEPT !.pc = "submit", !.pre = NoCookie] /\ UNCHANGED who
                      /\ UNCHANGED scan
  <2>1. CASE ~usable /\ Adopt(job.likely, FALSE, None)
    <3>1. job.kind = "refresh"
      BY <1>0, <1>4, <2>1 DEF Fetch, FirstLoginInv, InScope, CanLogIn
    <3>. QED
      BY <2>1, <3>1, RecoveryCounts
  <2>2. CASE goOn
    <3>1. /\ job' = [job EXCEPT !.pc = "submit", !.pre = IF site.anon THEN [n \in {"sid"} |-> NewCookie]
                                                         ELSE NoCookie]
          /\ UNCHANGED scan
      BY <2>2
    <3>2. job'.pc = "submit" /\ job'.kind = job.kind /\ job'.likely = job.likely
      BY <1>0, <3>1 DEF JobFields
    <3>. QED
      BY <3>1, <3>2 DEF FirstLoginInv
  <2>. QED
    BY <1>4, <1>10, <2>1, <2>2 DEF Fetch
<1>5. ASSUME NEW likely, NextGuess(likely), job.kind = "refresh"
      PROVE  FirstLoginInv'
  <2>1. CASE job.i = Len(Default)
    BY <1>5, <2>1, RecoveryCounts DEF NextGuess
  <2>2. CASE job.i # Len(Default)
    <3>1. job'.kind = "refresh" /\ UNCHANGED scan
      BY <1>5, <2>2 DEF NextGuess, IdleJob
    <3>. QED
      BY <3>1 DEF FirstLoginInv
  <2>. QED
    BY <2>1, <2>2
<1>6. CASE Submit
  <2>. DEFINE in  == Accepts
              new == Renews
              set == IF new THEN [n \in {Carrier} |-> NewCookie] ELSE NoCookie
              c   == MergeCookies(job.pre, set)
  <2>1. InScope(site.action)
    BY DEF CanLogIn, InScope
  <2>2. IF DOMAIN c = {} THEN NextGuess(job.likely)
        ELSE /\ job' = [job EXCEPT !.pc = "verify", !.cookie = c,
                                   !.landed = IF in THEN site.after ELSE None]
             /\ UNCHANGED scan
    BY <1>6, <1>10, <2>1 DEF Submit
  <2>3. DOMAIN c = DOMAIN job.pre \cup DOMAIN set
    BY DEF MergeCookies
  <2>4. CASE DOMAIN c = {}
    <3>1. job.kind # "form"
      <4>1. SUFFICES ASSUME job.kind = "form" PROVE FALSE
        OBVIOUS
      <4>2. in /\ (site.anon \/ site.grant # "same")
        BY <4>1 DEF Candidate, CanLogIn, Accepts
      <4>3. site.anon => DOMAIN job.pre = {"sid"}
        BY <1>6 DEF Submit, LoginInv, Visit
      <4>. QED
        BY <2>3, <2>4, <4>2, <4>3 DEF Renews
    <3>. QED
      BY <1>0, <1>5, <1>6, <2>2, <2>4, <3>1 DEF Submit
  <2>5. CASE DOMAIN c # {}
    <3>. DEFINE l == IF in THEN site.after ELSE None
    <3>1. job' = [job EXCEPT !.pc = "verify", !.cookie = c, !.landed = l] /\ UNCHANGED scan
      BY <2>2, <2>5
    <3>. HIDE DEF c, l
    <3>2. job'.pc = "verify" /\ job'.kind = job.kind /\ job'.likely = job.likely
      BY <1>0, <3>1 DEF JobFields
    <3>. QED
      BY <3>1, <3>2 DEF FirstLoginInv
  <2>. QED
    BY <2>4, <2>5
<1>7. CASE Verify
  <2>. DEFINE shown == AssessLogin(ProbeURL = job.url /\ ~site.odd, Get(ProbeURL, job.cookie))
              kept(g) == IF g = "likely" /\ job.likely = NoCookie THEN job.cookie ELSE job.likely
  <2>0. PICK grade \in {"failed", "likely", "confirmed"} :
          /\ (Answer /\ grade = shown) \/ (grade = "likely" /\ Lose)
          /\ IF grade = "confirmed" THEN Adopt(job.cookie, TRUE, Candidate)
             ELSE NextGuess(kept(grade))
    BY <1>7 DEF Verify
  <2>. DEFINE likely == kept(grade)
  <2>1. IF grade = "confirmed" THEN Adopt(job.cookie, TRUE, Candidate) ELSE NextGuess(likely)
    BY <2>0
  <2>2. CASE job.kind = "refresh"
    <3>. HIDE DEF likely
    <3>. QED
      BY <1>5, <2>1, <2>2, RecoveryCounts
  <2>3. CASE job.kind = "form"
    <3>1. /\ Visitor(job.cookie) = Supplied /\ job.cookie # NoCookie /\ grade # "failed"
          /\ job.likely = NoCookie
      BY <1>7, <2>0, <2>3, GoodSessionNotFailed DEF Verify, FirstLoginInv
    <3>2. grade \in {"failed", "confirmed", "likely"}
      BY <2>0
    <3>3. grade # "confirmed" => likely = job.cookie
      BY <3>1, <3>2
    <3>. HIDE DEF likely
    <3>4. \E sure, u : Adopt(job.cookie, sure, u)
      BY <2>1, <2>3, <3>3 DEF NextGuess
    <3>5. \E sure, r : Running(job.cookie, sure, Supplied, r, TRUE)
      BY <2>3, <3>1, <3>4 DEF Adopt
    <3>. QED
      BY <3>5, RunningAs
  <2>. QED
    BY <1>0, <1>7, <2>2, <2>3 DEF Verify
<1>8. CASE Step
  <2>1. scan' = [scan EXCEPT !.steps = @ + 1] /\ (UNCHANGED job \/ job'.kind = "refresh")
        /\ UNCHANGED site
    BY <1>8 DEF Step, Guesses, IdleJob, Rest
  <2>2. scan'.on = scan.on /\ scan'.refreshed = scan.refreshed /\ scan'.as = scan.as
    BY <1>0, <2>1 DEF ScanFields
  <2>. QED
    BY <2>1, <2>2 DEF FirstLoginInv, Discovered
<1>9. CASE Forget
  BY <1>9 DEF Forget, FirstLoginInv, Discovered
<1>. QED
  BY <1>1, <1>2, <1>3, <1>4, <1>6, <1>7, <1>8, <1>9 DEF Next

(* The prelude's purpose: credentials the target accepts, a form that can   *)
(* be reached and read, a cookie that carries the login and a page proving  *)
(* it that has neither a form nor a failure marker: then the scan runs as   *)
(* that user, even if the probe fails, until a recovery replaces the        *)
(* session; only a request that fails before excuses it.                    *)
THEOREM GoodCredentialsAreUsed == Spec => []GoodCredentialsLogIn
<1>. DEFINE Good == CanLogIn /\ OnlyProbesLost => FirstLoginInv
<1>1. Init => Good
  BY DEF Init, IdleJob, NoScan, FirstLoginInv
<1>2. LoginInv /\ PreludeIInv /\ Good /\ [Next]_vars => Good'
  <2>. SUFFICES ASSUME LoginInv, PreludeIInv, Good, [Next]_vars, CanLogIn', OnlyProbesLost'
                PROVE  FirstLoginInv'
    OBVIOUS
  <2>1. UNCHANGED <<site, asked>>
    BY DEF Next, vars, Begin, Discover, Fetch, Submit, Verify, Step, Forget, Rest
  <2>2. CanLogIn
    BY <2>1 DEF CanLogIn, Discovered, Proof, HasMarker
  <2>3. lost \subseteq lost'
    BY DEF Next, vars, Begin, Discover, Fetch, Submit, Verify, Step, Forget, Answer, Lose
  <2>4. OnlyProbesLost
    BY <2>3 DEF OnlyProbesLost
  <2>. QED
    BY <2>2, <2>4, FirstLoginStep
<1>3. Good => GoodCredentialsLogIn
  BY DEF FirstLoginInv, GoodCredentialsLogIn
<1>. QED
  BY <1>1, <1>2, <1>3, LoginInvariant, PreludeIInvariant, PTL DEF Spec
=============================================================================
