---------------------------- MODULE LoginPrelude ----------------------------
(***************************************************************************)
(* How a dynamic scan gets, proves and recovers a session on its target:   *)
(* auth_form.go and the part of runAgentLoop that uses it.  A scan logs in *)
(* with the credentials it was given (deterministic parse of the form,     *)
(* else a model's reading of it), or guesses default credentials, or does  *)
(* neither; it grades the session by a probe; and when a request later     *)
(* bounces to the login page it guesses default credentials again.         *)
(*                                                                         *)
(* The target is the environment: where its login form is, how it hands    *)
(* out cookies, what it shows to whom, which credentials it accepts, and   *)
(* when it forgets a session.  It is honest: an anonymous visitor of the   *)
(* login page gets the form, and only somebody logged in a logout control. *)
(* Between the two any request of a login may fail: it, or its answer, is  *)
(* lost.                                                                   *)
(***************************************************************************)
EXTENDS Integers, Sequences, FiniteSets, SequencesExt

CONSTANTS
  Default,     \* defaultCredentials, a sequence of users
  Supplied,    \* the user whose credentials a form login was given
  Nobody,      \* an anonymous visitor
  None,        \* nothing
  Sites,       \* the targets
  Requests,    \* what scans ask for: [auth, url, verify, auto, profile]
  MaxRefresh,  \* maxSessionRefresh
  MaxSteps,    \* bounds the requests after the prelude
  MaxDrops     \* bounds the sessions the target forgets

Users == {Default[i] : i \in DOMAIN Default} \cup {Supplied}
Urls  == {"root", "login", "landing", "off"}
Names == {"sid", "tok"}

(* find: where the form is reached; odd: only a model can read it; reads:   *)
(* whether the model does; anon: visitors get a cookie; grant: how a login  *)
(* is carried; after: where it redirects; inside: what the login page shows *)
(* to a user; landing: what the landing page does to a visitor; words: the  *)
(* pages whose text has one of assessLogin's failure markers.               *)
SiteType ==
  [find : {"common", "redirect", "link", "offsite", "nowhere"}, odd : BOOLEAN,
   reads : BOOLEAN, action : {"login", "off"}, anon : BOOLEAN,
   grant : {"same", "renew", "token"}, after : {"landing", "off", None},
   inside : {"logout", "bare", "form", "away"}, landing : {"guarded", "denied", "open"},
   words : SUBSET {"login", "landing"}, accepts : SUBSET Users]
RequestType ==
  [auth : {"form", "cookie", "none"}, url : {"login", "off", None},
   verify : {"landing", "off", None}, auto : BOOLEAN, profile : BOOLEAN]

ASSUME CredentialsAssumption ==
  /\ Default \in Seq(Users) /\ Default # <<>> /\ Nobody \notin Users
  /\ None \notin Users \cup Urls \cup {"form", "default", "refresh"}
ASSUME LoginAssumption == /\ Sites \subseteq SiteType /\ Requests \subseteq RequestType
                          /\ MaxRefresh \in Nat /\ MaxSteps \in Nat /\ MaxDrops \in Nat

VARIABLES
  site, asked,  \* the target and the request, fixed by Init
  who,          \* the target's sessions: who[k] is logged in through cookie k
  job,          \* the login in progress
  scan,         \* the session the scan uses
  sent,         \* URLs the program asked for, itself or following the target
  guessed,      \* how many default credentials were submitted
  lost,         \* history: the states of a login in which a request failed
  drops         \* sessions the target has forgotten

vars == <<site, asked, who, job, scan, sent, guessed, lost, drops>>

NoCookie == [n \in {} |-> 0]
Cookies  == UNION {[S -> 1 .. Len(who)] : S \in SUBSET Names}
Page(s, l, f, o, w) ==
  [status |-> s, location |-> l, form |-> f, logout |-> o, marker |-> w]

IdleJob == [pc |-> "start", kind |-> None, i |-> 0, url |-> None, pre |-> NoCookie,
            cookie |-> NoCookie, landed |-> None, likely |-> NoCookie]
NoScan  == [on |-> FALSE, cookie |-> NoCookie, sure |-> FALSE, as |-> Nobody, reported |-> None,
            authenticated |-> FALSE, refreshed |-> 0, steps |-> 0]

Init == /\ site \in Sites /\ asked \in Requests
        /\ who = <<>> /\ job = IdleJob /\ scan = NoScan
        /\ sent = {} /\ guessed = 0 /\ lost = {} /\ drops = 0

-----------------------------------------------------------------------------
(* The target.                                                              *)

Carrier == IF site.grant = "token" THEN "tok" ELSE "sid"

Visitor(c) == IF Carrier \in DOMAIN c THEN who[c[Carrier]] ELSE Nobody

HasMarker(u) == u \in site.words

Get(u, c) ==
  LET away(l)    == Page(302, l, FALSE, FALSE, FALSE)
      text(f, o) == Page(200, None, f, o, HasMarker(u))
  IN  IF u = "login"
      THEN IF Visitor(c) = Nobody THEN text(~site.odd, FALSE)
           ELSE IF site.inside = "away" THEN away("landing")
           ELSE text(site.inside = "form", site.inside = "logout")
      ELSE IF u = "landing"
      THEN IF Visitor(c) # Nobody THEN text(FALSE, site.inside = "logout")
           ELSE IF site.landing = "guarded" THEN away("login")
           ELSE IF site.landing = "denied" THEN Page(403, None, FALSE, FALSE, FALSE)
           ELSE text(FALSE, FALSE)
      ELSE text(FALSE, FALSE)

NewCookie == Len(who) + 1

-----------------------------------------------------------------------------
(* Mutant: every host is in scope.                                          *)
InScopeAlways(u) == TRUE

InScope(u) == u # "off"

(* loginHTTP: enforceScope stands before every request.                     *)
Reach(us) == sent' = sent \cup {u \in us : InScope(u)}

(* Mutant: the visitor's cookie wins over the one the login set.            *)
MergeCookiesFirst(injected, agent) ==
  [n \in DOMAIN injected \cup DOMAIN agent |->
     IF n \in DOMAIN injected THEN injected[n] ELSE agent[n]]

MergeCookies(injected, agent) ==
  [n \in DOMAIN injected \cup DOMAIN agent |->
     IF n \in DOMAIN agent THEN agent[n] ELSE injected[n]]

(* Mutant: a page that loads proves the session.                            *)
AssessLoginByStatus(baseline, page) ==
  IF page.status \in {401, 403} THEN "failed" ELSE "confirmed"

(* assessLogin: first what disqualifies, then what proves.                  *)
AssessLogin(baseline, page) ==
  IF page.status \in {401, 403} \/ page.location = "login" \/ page.form \/ page.marker
  THEN "failed"
  ELSE IF page.logout \/ baseline THEN "confirmed" ELSE "likely"

(* chooseProbeURL: the page named by the caller, the page the login leads   *)
(* to, else the login page again.                                           *)
ProbeURL == LET named == IF job.kind = "form" THEN asked.verify ELSE None
            IN  IF named # None /\ InScope(named) THEN named
                ELSE IF job.landed # None /\ InScope(job.landed) THEN job.landed
                ELSE job.url

(* discoverLoginURL: the conventional paths, a redirect of the root, the    *)
(* root's links; the first page with a form that parses.                    *)
Discovered == IF site.find \in {"common", "redirect", "link"} /\ ~site.odd
              THEN "login" ELSE None
DiscoveryVisits == {"root", "login"} \cup (IF site.find = "offsite" THEN {"off"} ELSE {})

-----------------------------------------------------------------------------
Rest == UNCHANGED <<site, asked, drops>>

(* A request of the login fails: loginHTTP returns an error.                *)
Lose   == lost' = lost \cup {job.pc}
Answer == UNCHANGED lost

Running(c, sure, as, reported, authenticated) ==
  /\ scan' = [on |-> TRUE, cookie |-> c, sure |-> sure, as |-> as, reported |-> reported,
              authenticated |-> authenticated, refreshed |-> 0, steps |-> 0]
  /\ job' = [IdleJob EXCEPT !.pc = "over"]

Unauthenticated == Running(NoCookie, FALSE, Nobody, None, FALSE)

Guesses(kind) == job' = [IdleJob EXCEPT !.pc = "discover", !.kind = kind, !.i = 1]

(* runAgentLoop decides how to get a session.                               *)
Begin ==
  /\ job.pc = "start"
  /\ \/ /\ asked.auth = "form"
        /\ job' = [IdleJob EXCEPT !.kind = "form", !.url = asked.url,
                      !.pc = IF asked.url = None THEN "discover" ELSE "fetch"]
        /\ UNCHANGED <<scan, who>>
     \/ /\ asked.auth = "cookie"
        /\ who' = Append(who, Supplied)
        /\ Running([n \in {Carrier} |-> NewCookie], FALSE, Supplied, None, TRUE)
     \/ /\ asked.auth = "none"
        /\ IF asked.auto /\ asked.profile THEN Guesses("default") /\ UNCHANGED scan
           ELSE Unauthenticated
        /\ UNCHANGED who
  /\ UNCHANGED <<sent, guessed>> /\ Answer /\ Rest

(* The end of a login: the scan starts, or goes on with a fresh cookie.     *)
Adopt(c, sure, u) ==
  IF job.kind = "refresh"
  THEN /\ scan' = IF c = NoCookie THEN scan
                  ELSE [scan EXCEPT !.cookie = c, !.refreshed = @ + 1, !.sure = FALSE,
                                    !.as = Visitor(c)]
       /\ job' = [IdleJob EXCEPT !.pc = "over"]
  ELSE IF c = NoCookie THEN Unauthenticated
  ELSE Running(c, sure, Visitor(c), IF sure /\ job.kind = "default" THEN u ELSE None, TRUE)

(* A candidate that cannot be fetched is passed over.                       *)
Discover ==
  /\ job.pc = "discover"
  /\ Reach(DiscoveryVisits)
  /\ \/ Discovered = None /\ Adopt(NoCookie, FALSE, None) /\ Answer
     \/ Discovered # None /\ Adopt(NoCookie, FALSE, None) /\ Lose
     \/ /\ Discovered # None
        /\ job' = [job EXCEPT !.pc = "fetch", !.url = Discovered]
        /\ UNCHANGED scan /\ Answer
  /\ UNCHANGED <<who, guessed>> /\ Rest

(* The page is fetched as a visitor; a form that does not parse is read by  *)
(* the model (after fetching the page again) or given up.  A page that      *)
(* cannot be fetched ends the login, and the guessing.                      *)
Fetch ==
  /\ job.pc = "fetch"
  /\ Reach({job.url})
  /\ LET usable == InScope(job.url) /\ (~site.odd \/ (job.kind = "form" /\ site.reads))
     IN  \/ /\ ~usable /\ Answer
            /\ Adopt(job.likely, FALSE, None) /\ UNCHANGED who
         \/ /\ InScope(job.url) /\ Lose
            /\ Adopt(job.likely, FALSE, None) /\ UNCHANGED who
         \/ /\ usable /\ Answer
            /\ IF site.anon
               THEN /\ who' = Append(who, Nobody)
                    /\ job' = [job EXCEPT !.pc = "submit", !.pre = [n \in {"sid"} |-> NewCookie]]
               ELSE job' = [job EXCEPT !.pc = "submit", !.pre = NoCookie] /\ UNCHANGED who
            /\ UNCHANGED scan
  /\ UNCHANGED guessed /\ Rest

Candidate == IF job.kind = "form" THEN Supplied ELSE Default[job.i]

(* One pair of credentials is done with: the next guess, or the end.        *)
NextGuess(likely) ==
  IF job.kind = "form" \/ job.i = Len(Default) THEN Adopt(likely, FALSE, None)
  ELSE /\ job' = [IdleJob EXCEPT !.pc = "fetch", !.kind = job.kind, !.url = job.url,
                                 !.i = job.i + 1, !.likely = likely]
       /\ UNCHANGED scan

(* What the target makes of the form: a pair it accepts logs the session in *)
(* that the visitor has, or a new one.                                      *)
Accepts == Candidate \in site.accepts
Renews  == Accepts /\ site.grant # "same"
LogsIn  == who' = IF Renews THEN Append(who, Candidate)
                  ELSE IF Accepts /\ site.anon
                  THEN [who EXCEPT ![job.pre["sid"]] = Candidate] ELSE who

(* submitAndVerify, the request: the form goes to its action with the       *)
(* visitor's cookies; the session is those cookies and what the answer set. *)
(* A request that fails is a pair that fails, whether or not the target saw *)
(* it.                                                                      *)
Submit ==
  /\ job.pc = "submit"
  /\ Reach({site.action})
  /\ guessed' = IF job.kind = "form" THEN guessed ELSE guessed + 1
  /\ \/ ~InScope(site.action) /\ NextGuess(job.likely) /\ UNCHANGED who /\ Answer
     \/ /\ InScope(site.action) /\ Lose
        /\ NextGuess(job.likely) /\ (LogsIn \/ UNCHANGED who)
     \/ /\ InScope(site.action) /\ Answer /\ LogsIn
        /\ LET set == IF Renews THEN [n \in {Carrier} |-> NewCookie] ELSE NoCookie
               c   == MergeCookies(job.pre, set)
           IN  IF DOMAIN c = {} THEN NextGuess(job.likely)
               ELSE /\ job' = [job EXCEPT !.pc = "verify", !.cookie = c,
                                          !.landed = IF Accepts THEN site.after ELSE None]
                    /\ UNCHANGED scan
  /\ Rest

(* verifyLogin: the probe is fetched with the session, and graded; a probe  *)
(* that fails leaves it likely.  The first confirmed guess ends the         *)
(* guessing, the first likely one is kept.                                  *)
Verify ==
  /\ job.pc = "verify"
  /\ Reach({ProbeURL})
  /\ \E grade \in {"failed", "likely", "confirmed"} :
       /\ \/ /\ Answer
             /\ grade = AssessLogin(ProbeURL = job.url /\ ~site.odd, Get(ProbeURL, job.cookie))
          \/ grade = "likely" /\ Lose
       /\ IF grade = "confirmed" THEN Adopt(job.cookie, TRUE, Candidate)
          ELSE NextGuess(IF grade = "likely" /\ job.likely = NoCookie THEN job.cookie
                         ELSE job.likely)
  /\ UNCHANGED <<who, guessed>> /\ Rest

-----------------------------------------------------------------------------
(* Mutant: the recoveries are not capped.                                   *)
MayRefreshAlways == scan.authenticated

MayRefresh == scan.authenticated /\ scan.refreshed < MaxRefresh

(* A request of the agent with the session attached; one that bounces to    *)
(* the login page makes the scan log in again.                              *)
Step ==
  /\ scan.on /\ job.pc = "over" /\ scan.steps < MaxSteps
  /\ \E u \in {"login", "landing"} :
       LET bounced == Get(u, scan.cookie).location = "login"
       IN  IF bounced /\ MayRefresh THEN Guesses("refresh")
           ELSE UNCHANGED job
  /\ scan' = [scan EXCEPT !.steps = @ + 1]
  /\ UNCHANGED <<who, sent, guessed, lost>> /\ Rest

(* The target, or an edge before it, forgets a session.                     *)
Forget ==
  /\ scan.on /\ job.pc = "over" /\ drops < MaxDrops
  /\ Visitor(scan.cookie) # Nobody
  /\ who' = [who EXCEPT ![scan.cookie[Carrier]] = Nobody]
  /\ drops' = drops + 1
  /\ UNCHANGED <<site, asked, job, scan, sent, guessed, lost>>

Next == Begin \/ Discover \/ Fetch \/ Submit \/ Verify \/ Step \/ Forget

Spec == Init /\ [][Next]_vars

-----------------------------------------------------------------------------
TypeOK ==
  /\ site \in Sites /\ asked \in Requests
  /\ who \in Seq(Users \cup {Nobody})
  /\ job.pc \in {"start", "discover", "fetch", "submit", "verify", "over"}
  /\ job.kind \in {None, "form", "default", "refresh"} /\ job.i \in 0 .. Len(Default)
  /\ job.url \in Urls \cup {None} /\ job.landed \in Urls \cup {None}
  /\ {job.pre, job.cookie, job.likely, scan.cookie} \subseteq Cookies
  /\ scan.on \in BOOLEAN /\ scan.sure \in BOOLEAN /\ scan.authenticated \in BOOLEAN
  /\ scan.as \in Users \cup {Nobody} /\ scan.reported \in Users \cup {None}
  /\ scan.refreshed \in 0 .. MaxRefresh /\ scan.steps \in 0 .. MaxSteps
  /\ sent \subseteq Urls /\ guessed \in Nat /\ drops \in 0 .. MaxDrops
  /\ lost \subseteq {"discover", "fetch", "submit", "verify"}

(* loginHTTP: whatever the target's redirects, links and forms point at,    *)
(* and whatever URLs the caller gave, no login request leaves the scope.    *)
NothingLeavesScope == "off" \notin sent

(* The prelude stays where its order puts it, within its caps on refreshes  *)
(* and steps and with cookies the target did hand out (the type invariant), *)
(* and within the scope.                                                    *)
PreludeInv == TypeOK /\ NothingLeavesScope

(* "a bare cookie is never sufficient proof": a session used without a      *)
(* caveat belongs to the user whose credentials were sent, only a default   *)
(* pair the target really accepts is reported as accepted, and the scan     *)
(* runs as that pair.  A recovery guesses again from the first pair: it may *)
(* leave the scan as another one, but only after a request failed, in the   *)
(* first guessing or in its own.                                            *)
ConfirmedIsAuthenticated ==
  /\ scan.on /\ scan.sure => /\ scan.as \in site.accepts
                             /\ asked.auth = "form" => scan.as = Supplied
  /\ scan.reported # None =>
       /\ scan.reported \in site.accepts
       /\ scan.refreshed = 0 \/ lost = {} => scan.as = scan.reported

(* The prelude's purpose: credentials the target accepts, a form that can   *)
(* be reached and read, a cookie that carries the login, and a page proving *)
(* it that has neither a form nor a failure marker: then the scan runs as   *)
(* that user, however the target hands out its cookies.  Only a request     *)
(* that fails before the session is there excuses it; a lost probe does not.*)
Proof == IF asked.verify = "landing" \/ site.after = "landing" THEN "landing" ELSE "login"
CanLogIn == /\ asked.auth = "form" /\ Supplied \in site.accepts
            /\ asked.url = "login" \/ (asked.url = None /\ Discovered = "login")
            /\ ~site.odd \/ site.reads
            /\ site.action = "login" /\ (site.anon \/ site.grant # "same")
            /\ Proof = "login" => site.inside # "form"
            /\ HasMarker(Proof) => Proof = "login" /\ site.inside = "away"
OnlyProbesLost == lost \subseteq {"verify"}
GoodCredentialsLogIn ==
  scan.on /\ scan.refreshed = 0 /\ CanLogIn /\ OnlyProbesLost => scan.as = Supplied

(* agent_loop.go: "Disable via APANT_AUTO_LOGIN=0 (used for the RAW         *)
(* benchmark baseline ...)": with auto login off no default credential is   *)
(* ever submitted. Refuted: the mid-scan recovery guesses all the same.     *)
RawMakesNoGuess == ~asked.auto => guessed = 0
=============================================================================
