------------------------- MODULE ChatSessionsProofs -------------------------
(***************************************************************************)
(* Theorems about ModelCall and ChatSessions, for every set of callers and *)
(* every behaviour of the provider.                                        *)
(***************************************************************************)
EXTENDS ChatSessions, TLAPS

USE CallAssumption

-----------------------------------------------------------------------------
(* One call.                                                               *)

(* Where a call may stand, and how long it may have slept to get there.     *)
CallFine(k) ==
  /\ k.pc = "idle" => k.slept = 0
  /\ k.pc \in {"send", "flight"} =>
       k.attempt >= 1 /\ k.slept <= (k.attempt - 1) * RetryCap
  /\ k.pc = "wait" =>
       k.attempt >= 1 /\ k.attempt < MaxAttempts /\ k.slept <= k.attempt * RetryCap
  /\ k.pc = "back" => k.slept <= (MaxAttempts - 1) * RetryCap
  /\ k.seen = "final" => k.pc = "back"

CallsFine == call \in [Callers -> Calls] /\ \A c \in Callers : CallFine(call[c])

(* What a step makes of one caller's call, the others' left alone.          *)
Becomes(c, k) == k \in Calls /\ CallFine(k) /\ call' = [call EXCEPT ![c] = k]

LEMMA OneCall ==
  ASSUME CallsFine, NEW c \in Callers, NEW k, Becomes(c, k)
  PROVE  CallsFine'
BY DEF CallsFine, Becomes

LEMMA IdleFine == Idle \in Calls /\ CallFine(Idle)
BY DEF Idle, Calls, CallFine, Sights, RetryCap

(* A product may wrap, but it is a number.                                  *)
LEMMA HintsAreNumbers == Hints \subseteq Int
<1>1. ASSUME NEW secs \in Seconds PROVE RetryAfter(secs) \in Int
  <2>. DEFINE x == secs * 1000
  <2>1. x \in Nat /\ Wrap \in Nat \ {0}
    BY CallAssumption
  <2>. HIDE DEF x
  <2>2. x % Wrap \in Int
    BY <2>1
  <2>3. RetryAfter(secs) = LET product == x % Wrap
                           IN  IF product < Wrap \div 2 THEN product ELSE product - Wrap
    BY DEF x, RetryAfter
  <2>. QED
    BY <2>1, <2>2, <2>3
<1>2. ASSUME NEW h \in Hints PROVE h \in Int
  <2>1. h = 0 \/ h \in Dates \/ \E secs \in Seconds : h = RetryAfter(secs)
    BY Zenon DEF Hints
  <2>2. h \in Dates => h \in Nat
    BY CallAssumption
  <2>3. CASE \E secs \in Seconds : h = RetryAfter(secs)
    BY <1>1, <2>3, Zenon
  <2>. QED
    BY <2>1, <2>2, <2>3
<1>. QED
  BY <1>2

(* Delay: no wait is longer than the cap or negative, whatever the provider *)
(* asks for and however the product of its seconds wraps.                   *)
LEMMA DelayCapped ==
  ASSUME NEW n \in 1 .. MaxAttempts, NEW h \in Int, NEW j \in Nat
  PROVE  Delay(n, h, j) \in Nat /\ Delay(n, h, j) <= RetryCap
<1>1. n - 1 \in 0 .. MaxAttempts
  OBVIOUS
<1>2. 2^(n - 1) \in Nat
  BY <1>1, PowersOfTwo
<1>. DEFINE power == 2^(n - 1)
<1>3. power \in Nat
  BY <1>2
<1>4. Delay(n, h, j) = LET w == IF h > 0 THEN h ELSE RetryBase * power + j
                       IN  IF w > RetryCap THEN RetryCap ELSE w
  BY DEF Delay
<1>. HIDE DEF power
<1>. QED
  BY <1>3, <1>4 DEF RetryBase, RetryCap

LEMMA FailureIsAnswer == \A k \in FailureKinds : Failure(k) \in Answers
BY DEF Answers

(* Return ends the call of whoever has one.                                 *)
LEMMA ReturnStep ==
  ASSUME CallsFine, NEW c \in Callers, call[c].pc # "idle",
         NEW a \in Answers, NEW sight \in Sights, Return(c, a, sight)
  PROVE  CallsFine'
<1>. DEFINE k == [call[c] EXCEPT !.pc = "back", !.seen = sight, !.answer = a]
<1>1. call[c] \in Calls /\ CallFine(call[c])
  BY DEF CallsFine
<1>2. k \in Calls
  BY <1>1 DEF Calls
<1>3. /\ k.pc = "back" /\ k.slept = call[c].slept
  BY <1>1 DEF Calls
<1>4. call[c].slept <= (MaxAttempts - 1) * RetryCap
  BY <1>1 DEF Calls, CallFine, RetryCap
<1>5. CallFine(k)
  BY <1>3, <1>4 DEF CallFine
<1>6. call' = [call EXCEPT ![c] = k]
  BY DEF Return
<1>. HIDE DEF k
<1>. QED
  BY <1>2, <1>5, <1>6, OneCall DEF Becomes

(* Again waits, while there is another attempt, or returns.                 *)
LEMMA AgainStep ==
  ASSUME CallsFine, NEW c \in Callers, call[c].pc = "flight",
         NEW a \in Answers, NEW h \in Int, Again(c, h, a, "passing")
  PROVE  CallsFine'
<1>1. CASE call[c].attempt < MaxAttempts
  <2>1. PICK j \in Jitters :
          call' = [call EXCEPT ![c] = [@ EXCEPT !.pc = "wait", !.seen = "passing",
                     !.slept = call[c].slept + Delay(call[c].attempt, h, j)]]
    BY <1>1 DEF Again
  <2>. DEFINE d == Delay(call[c].attempt, h, j)
              z == call[c].slept + d
              k == [call[c] EXCEPT !.pc = "wait", !.seen = "passing", !.slept = z]
  <2>2. call[c] \in Calls /\ CallFine(call[c])
    BY DEF CallsFine
  <2>3. /\ call[c].attempt \in 1 .. MaxAttempts
        /\ call[c].slept \in Nat /\ call[c].slept <= (call[c].attempt - 1) * RetryCap
    BY <2>2 DEF Calls, CallFine
  <2>4. d \in Nat /\ d <= RetryCap
    BY <2>3, DelayCapped
  <2>. HIDE DEF d
  <2>5. z \in Nat
    BY <2>3, <2>4
  <2>6. z = call[c].slept + d
    OBVIOUS
  <2>. HIDE DEF z
  <2>7. k \in Calls
    BY <2>2, <2>5 DEF Calls, Sights
  <2>8. /\ k.pc = "wait" /\ k.seen = "passing" /\ k.attempt = call[c].attempt
        /\ k.slept = call[c].slept + d
    BY <2>2, <2>6 DEF Calls
  <2>9. CallFine(k)
    <3>1. call[c].slept + d <= call[c].attempt * RetryCap
      BY <2>3, <2>4 DEF RetryCap
    <3>. HIDE DEF k
    <3>. QED
      BY <1>1, <2>3, <2>8, <3>1 DEF CallFine
  <2>10. call' = [call EXCEPT ![c] = k]
    BY <2>1, <2>6 DEF d
  <2>. HIDE DEF k
  <2>. QED
    BY <2>7, <2>9, <2>10, OneCall DEF Becomes
<1>2. CASE ~ (call[c].attempt < MaxAttempts)
  <2>1. Return(c, a, "passing")
    BY <1>2 DEF Again
  <2>. QED
    BY <2>1, ReturnStep DEF Sights
<1>. QED
  BY <1>1, <1>2

(* The handlers' and the retry loop's steps of one caller.                  *)
LEMMA AskFine ==
  ASSUME CallsFine, NEW c \in Callers, Ask(c)
  PROVE  CallsFine'
<1>. DEFINE k == [Idle EXCEPT !.pc = "send", !.attempt = 1]
<1>1. Idle \in Calls /\ Idle.slept = 0 /\ Idle.seen = "nothing"
  BY IdleFine DEF Idle
<1>2. 1 \in 0 .. MaxAttempts
  OBVIOUS
<1>3. k \in Calls /\ k.pc = "send" /\ k.attempt = 1 /\ k.slept = 0 /\ k.seen = "nothing"
  BY <1>1, <1>2 DEF Calls
<1>4. call' = [call EXCEPT ![c] = k]
  BY DEF Ask
<1>. HIDE DEF k
<1>5. CallFine(k)
  BY <1>3 DEF CallFine, RetryCap
<1>. QED
  BY <1>3, <1>4, <1>5, OneCall DEF Becomes

LEMMA SendFine ==
  ASSUME CallsFine, NEW c \in Callers, Send(c)
  PROVE  CallsFine'
<1>1. call[c] \in Calls /\ CallFine(call[c]) /\ call[c].pc = "send"
  BY DEF CallsFine, Send
<1>2. CASE ctx[c] = "done"
  <2>1. Return(c, Failure("cancelled"), call[c].seen)
    BY <1>2 DEF Send
  <2>2. Failure("cancelled") \in Answers /\ call[c].seen \in Sights
    BY <1>1, FailureIsAnswer DEF FailureKinds, Calls
  <2>. QED
    BY <1>1, <2>1, <2>2, ReturnStep
<1>3. CASE ctx[c] # "done"
  <2>. DEFINE k == [call[c] EXCEPT !.pc = "flight"]
  <2>1. /\ k \in Calls /\ k.pc = "flight" /\ k.attempt = call[c].attempt
        /\ k.slept = call[c].slept /\ k.seen = call[c].seen
    BY <1>1 DEF Calls
  <2>2. call' = [call EXCEPT ![c] = k]
    BY <1>3 DEF Send
  <2>. HIDE DEF k
  <2>3. CallFine(k)
    BY <1>1, <2>1 DEF CallFine
  <2>. QED
    BY <2>1, <2>2, <2>3, OneCall DEF Becomes
<1>. QED
  BY <1>2, <1>3

LEMMA FlightFine ==
  ASSUME CallsFine, NEW c \in Callers,
         TransportFails(c) \/ BodyFails(c) \/ Refused(c) \/ Completed(c)
  PROVE  CallsFine'
<1>1. call[c].pc = "flight"
  BY DEF TransportFails, BodyFails, Refused, Completed
<1>2. /\ \A k \in FailureKinds : Failure(k) \in Answers
      /\ \A t \in Texts \cup {NoText} : Completion(t) \in Answers
      /\ "passing" \in Sights /\ "final" \in Sights
  BY FailureIsAnswer DEF Answers, Sights
<1>3. CASE TransportFails(c)
  BY <1>1, <1>2, <1>3, ReturnStep, AgainStep DEF TransportFails, FailureKinds
<1>4. CASE BodyFails(c)
  BY <1>1, <1>2, <1>4, AgainStep DEF BodyFails, FailureKinds
<1>5. CASE Refused(c)
  <2>1. PICK s \in Statuses, h \in Hints :
          LET sight == IF s = 429 \/ s >= 500 THEN "passing" ELSE "final"
          IN  IF Transient(s) THEN Again(c, h, Failure("provider"), sight)
              ELSE Return(c, Failure("provider"), sight)
    BY <1>5 DEF Refused
  <2>2. CASE Transient(s)
    <3>1. Again(c, h, Failure("provider"), "passing")
      BY <2>1, <2>2 DEF Transient
    <3>2. h \in Int
      BY HintsAreNumbers
    <3>. QED
      BY <1>1, <1>2, <3>1, <3>2, AgainStep DEF FailureKinds
  <2>3. CASE ~ Transient(s)
    <3>1. Return(c, Failure("provider"), "final")
      BY <2>1, <2>3 DEF Transient
    <3>. QED
      BY <1>1, <1>2, <3>1, ReturnStep DEF FailureKinds
  <2>. QED
    BY <2>2, <2>3
<1>6. CASE Completed(c)
  BY <1>1, <1>2, <1>6, ReturnStep DEF Completed, FailureKinds
<1>. QED
  BY <1>3, <1>4, <1>5, <1>6

LEMMA WaitFine ==
  ASSUME CallsFine, NEW c \in Callers, TimerFires(c) \/ WaitCut(c)
  PROVE  CallsFine'
<1>1. call[c] \in Calls /\ CallFine(call[c]) /\ call[c].pc = "wait"
  BY DEF CallsFine, TimerFires, WaitCut
<1>2. CASE TimerFires(c)
  <2>. DEFINE z == call[c].attempt + 1
              k == [call[c] EXCEPT !.pc = "send", !.attempt = z]
  <2>1. z \in 1 .. MaxAttempts /\ call[c].slept <= (z - 1) * RetryCap /\ z \in 0 .. MaxAttempts
    BY <1>1 DEF Calls, CallFine, RetryCap
  <2>2. call' = [call EXCEPT ![c] = k]
    BY <1>2 DEF TimerFires
  <2>. HIDE DEF z
  <2>3. /\ k \in Calls /\ k.pc = "send" /\ k.attempt = z
        /\ k.slept = call[c].slept /\ k.seen = call[c].seen
    BY <1>1, <2>1 DEF Calls
  <2>. HIDE DEF k
  <2>4. CallFine(k)
    BY <1>1, <2>1, <2>3 DEF CallFine
  <2>. QED
    BY <2>2, <2>3, <2>4, OneCall DEF Becomes
<1>3. CASE WaitCut(c)
  <2>1. Failure("cancelled") \in Answers /\ call[c].seen \in Sights
    BY <1>1, FailureIsAnswer DEF FailureKinds, Calls
  <2>. QED
    BY <1>1, <1>3, <2>1, ReturnStep DEF WaitCut
<1>. QED
  BY <1>2, <1>3

-----------------------------------------------------------------------------
(* Tallies.                                                                *)

Tallies == [in : Nat, out : Nat, total : Nat, calls : Nat]

CountsHold == /\ tally \in [Callers -> Tallies]
              /\ charged \in [Callers -> 0 .. MaxCharged]
              /\ TallyIsHonest

(* A provider may charge for an answer that is lost.                        *)
LEMMA ChargedOnly ==
  ASSUME CountsHold, NEW c \in Callers, NEW u \in Usages, UNCHANGED tally,
         Charge(c, u)
  PROVE  CountsHold'
<1>1. u.in \in Nat /\ u.out \in Nat
  OBVIOUS
<1>. QED
  BY <1>1 DEF CountsHold, TallyIsHonest, Charge, Tallies

(* A completion that came through is charged and counted.                   *)
LEMMA ChargedAndCounted ==
  ASSUME CountsHold, NEW c \in Tallied, NEW u \in Usages, Charge(c, u),
         tally' = [tally EXCEPT ![c] = Added(@, u)]
  PROVE  CountsHold'
<1>1. /\ u.in \in Nat /\ u.out \in Nat /\ u.total \in Nat
      /\ u.total = 0 \/ u.total >= u.in + u.out
  BY HonestTotals
<1>2. Derived(u) \in Nat /\ Derived(u) >= u.in + u.out
  BY <1>1 DEF Derived
<1>3. c \in Callers /\ tally[c] \in Tallies
  BY DEF CountsHold
<1>. DEFINE t == Added(tally[c], u)
<1>4. /\ t \in Tallies /\ t.in = tally[c].in + u.in /\ t.out = tally[c].out + u.out
      /\ t.total = tally[c].total + Derived(u)
  BY <1>1, <1>2, <1>3 DEF Added, Tallies
<1>5. tally' = [tally EXCEPT ![c] = t]
  OBVIOUS
<1>. HIDE DEF t
<1>6. /\ charged[c] + u.in + u.out <= MaxCharged
      /\ charged' = [charged EXCEPT ![c] = @ + u.in + u.out]
  BY DEF Charge
<1>7. charged[c] \in Nat /\ charged[c] + u.in + u.out \in 0 .. MaxCharged
  BY <1>1, <1>3, <1>6 DEF CountsHold
<1>8. tally' \in [Callers -> Tallies] /\ charged' \in [Callers -> 0 .. MaxCharged]
  BY <1>3, <1>4, <1>5, <1>6, <1>7 DEF CountsHold
<1>9. t.in + t.out <= charged[c] + u.in + u.out /\ t.total >= t.in + t.out
  BY <1>1, <1>2, <1>3, <1>4, <1>7 DEF CountsHold, TallyIsHonest, Tallies
<1>10. TallyIsHonest'
  BY <1>3, <1>5, <1>6, <1>9 DEF CountsHold, TallyIsHonest
<1>. QED
  BY <1>8, <1>10 DEF CountsHold

LEMMA CountStep ==
  ASSUME CountsHold, NEW c \in Callers, CallStep(c)
  PROVE  CountsHold'
<1>1. CASE UNCHANGED <<tally, charged>>
  BY <1>1 DEF CountsHold, TallyIsHonest
<1>2. CASE TransportFails(c)
  BY <1>1, <1>2, ChargedOnly DEF TransportFails
<1>3. CASE BodyFails(c)
  BY <1>3, ChargedOnly DEF BodyFails
<1>4. CASE Completed(c)
  <2>1. PICK u \in Usages :
          /\ Charge(c, u)
          /\ \/ UNCHANGED tally
             \/ tally' = IF c \in Tallied THEN [tally EXCEPT ![c] = Added(@, u)] ELSE tally
    BY <1>4 DEF Completed
  <2>2. CASE c \in Tallied /\ ~ UNCHANGED tally
    BY <2>1, <2>2, ChargedAndCounted
  <2>3. CASE c \notin Tallied \/ UNCHANGED tally
    BY <2>1, <2>3, ChargedOnly
  <2>. QED
    BY <2>2, <2>3
<1>. QED
  BY <1>1, <1>2, <1>3, <1>4 DEF CallStep, Send, Refused, TimerFires, WaitCut

-----------------------------------------------------------------------------
(* Sessions.                                                               *)

Said == Seq(Seq(Message))

(* What a step of one process does to the repository.                       *)
SessionStep ==
  \/ sessions' = sessions
  \/ sessions' = Append(sessions, <<>>)
  \/ \E r \in Requests, msg \in Message : sessions' = WithMessage(r, msg)

LEMMA PrefixOfAppend ==
  ASSUME NEW S, NEW s \in Seq(S), NEW e \in S
  PROVE  IsPrefix(s, s) /\ IsPrefix(s, Append(s, e))
BY DEF IsPrefix

LEMMA SessionsGrow ==
  ASSUME sessions \in Said, SessionStep
  PROVE  /\ sessions' \in Said
         /\ \A id \in DOMAIN sessions :
              id \in DOMAIN sessions' /\ IsPrefix(sessions[id], sessions'[id])
<1>0. \A id \in DOMAIN sessions : IsPrefix(sessions[id], sessions[id])
  BY PrefixOfAppend DEF Said, IsPrefix
<1>1. CASE sessions' = sessions
  BY <1>0, <1>1
<1>2. CASE sessions' = Append(sessions, <<>>)
  <2>1. <<>> \in Seq(Message)
    OBVIOUS
  <2>2. sessions' \in Said
    BY <1>2, <2>1 DEF Said
  <2>3. \A id \in DOMAIN sessions : id \in DOMAIN sessions' /\ sessions'[id] = sessions[id]
    BY <1>2, <2>1 DEF Said
  <2>. QED
    BY <1>0, <2>2, <2>3
<1>3. ASSUME NEW r \in Requests, NEW msg \in Message, sessions' = WithMessage(r, msg)
      PROVE  /\ sessions' \in Said
             /\ \A id \in DOMAIN sessions :
                  id \in DOMAIN sessions' /\ IsPrefix(sessions[id], sessions'[id])
  <2>. DEFINE n == req[r].sid
  <2>1. sessions' = [sessions EXCEPT ![n] = Append(sessions[n], msg)]
    BY <1>3 DEF WithMessage
  <2>. HIDE DEF n
  <2>2. CASE n \in DOMAIN sessions
    <3>1. sessions[n] \in Seq(Message)
      BY <2>2 DEF Said
    <3>2. Append(sessions[n], msg) \in Seq(Message)
      BY <3>1
    <3>3. /\ DOMAIN sessions' = DOMAIN sessions /\ sessions'[n] = Append(sessions[n], msg)
          /\ \A id \in DOMAIN sessions : id # n => sessions'[id] = sessions[id]
      BY <2>1, <2>2
    <3>4. sessions' \in Said
      BY <2>1, <2>2, <3>2 DEF Said
    <3>5. IsPrefix(sessions[n], sessions'[n])
      BY <3>1, <3>3, PrefixOfAppend
    <3>. QED
      BY <1>0, <3>3, <3>4, <3>5
  <2>3. CASE n \notin DOMAIN sessions
    <3>1. sessions' = sessions
      BY <2>1, <2>3 DEF Said
    <3>. QED
      BY <1>0, <3>1
  <2>. QED
    BY <2>2, <2>3
<1>. QED
  BY <1>1, <1>2, <1>3 DEF SessionStep

-----------------------------------------------------------------------------
(* What each request has said.                                             *)

Question(r) == [by |-> r, type |-> "user_message"]
AnswerTypes == {"tool_intent", "final_answer"}

Silent(ss, r) == \A id \in DOMAIN ss : \A i \in DOMAIN ss[id] : ss[id][i].by # r

(* All r said is its message, in session id.                                *)
AskedOnly(ss, r, id) ==
  \E i \in DOMAIN ss[id] :
    /\ ss[id][i] = Question(r)
    /\ \A n \in DOMAIN ss : \A k \in DOMAIN ss[n] : ss[n][k].by = r => n = id /\ k = i

(* All r said is its message and, behind it, an answer of type t.           *)
AnsweredOnly(ss, r, id, t) ==
  \E i, j \in DOMAIN ss[id] :
    /\ i < j /\ ss[id][i] = Question(r) /\ ss[id][j] = [by |-> r, type |-> t]
    /\ \A n \in DOMAIN ss : \A k \in DOMAIN ss[n] :
         ss[n][k].by = r => n = id /\ (k = i \/ k = j)

(* The history a planner was given: r's message is in it, and the session   *)
(* still begins with it.                                                    *)
HistoryHeld(h, s, r) ==
  /\ \E i \in DOMAIN h : h[i] = Question(r)
  /\ \A i \in DOMAIN h : i \in DOMAIN s /\ h[i] = s[i]

Req == [pc : {"idle", "prepared", "written", "validate", "ask", "asked", "done", "lost"},
        kind : {"chat", "agent", None}, sid : 0 .. MaxSessions,
        history : Seq(Message), reply : Replies \cup {None}]

(* Where a request may stand: what it has said by then, in which session.   *)
RequestFine(q, ss, r, n) ==
  /\ q \in Req
  /\ q.pc # "done" => q.reply = None
  /\ q.pc = "lost" => n > 0
  /\ q.pc \in {"prepared", "written", "validate"} => q.kind = "agent"
  /\ q.pc \in {"idle", "lost", "prepared"} => Silent(ss, r)
  /\ q.pc \in {"ask", "asked"} /\ q.kind # "agent" => Silent(ss, r)
  /\ q.pc = "prepared" => q.sid \in DOMAIN ss
  /\ q.pc \in {"written", "validate", "ask", "asked"} /\ q.kind = "agent" =>
       q.sid \in DOMAIN ss /\ AskedOnly(ss, r, q.sid)
  /\ q.pc \in {"validate", "ask", "asked"} /\ q.kind = "agent" =>
       HistoryHeld(q.history, ss[q.sid], r)
  /\ q.pc = "done" =>
       \/ Silent(ss, r) /\ (n = 0 => q.reply \notin AnswerTypes)
       \/ q.sid \in DOMAIN ss /\ q.reply \notin AnswerTypes /\ AskedOnly(ss, r, q.sid)
       \/ /\ q.sid \in DOMAIN ss /\ q.reply \in AnswerTypes
          /\ AnsweredOnly(ss, r, q.sid, q.reply)

(* The inductive invariant of the requests.                                 *)
RequestsFine ==
  /\ sessions \in Said /\ Len(sessions) <= MaxSessions
  /\ restarts \in 0 .. MaxRestarts
  /\ req = [r \in Requests |-> req[r]]
  /\ \A r \in Requests : RequestFine(req[r], sessions, r, restarts)

(* From ss to tt nothing said was lost, and r said nothing.                 *)
Grown(ss, tt) ==
  \A id \in DOMAIN ss :
    /\ id \in DOMAIN tt
    /\ \A i \in DOMAIN ss[id] : i \in DOMAIN tt[id] /\ tt[id][i] = ss[id][i]
Unsaid(ss, tt, r) ==
  \A id \in DOMAIN tt : \A i \in DOMAIN tt[id] :
    tt[id][i].by = r => id \in DOMAIN ss /\ i \in DOMAIN ss[id]

LEMMA SilentKept ==
  ASSUME NEW ss, NEW tt, NEW r, Grown(ss, tt), Unsaid(ss, tt, r), Silent(ss, r)
  PROVE  Silent(tt, r)
BY DEF Grown, Unsaid, Silent

LEMMA AskedKept ==
  ASSUME NEW ss, NEW tt, NEW r, NEW id \in DOMAIN ss,
         Grown(ss, tt), Unsaid(ss, tt, r), AskedOnly(ss, r, id)
  PROVE  AskedOnly(tt, r, id)
<1>1. PICK i \in DOMAIN ss[id] :
        /\ ss[id][i] = Question(r)
        /\ \A n \in DOMAIN ss : \A k \in DOMAIN ss[n] : ss[n][k].by = r => n = id /\ k = i
  BY DEF AskedOnly
<1>2. i \in DOMAIN tt[id] /\ tt[id][i] = Question(r)
  BY <1>1 DEF Grown
<1>3. ASSUME NEW n \in DOMAIN tt, NEW k \in DOMAIN tt[n], tt[n][k].by = r
      PROVE  n = id /\ k = i
  <2>1. n \in DOMAIN ss /\ k \in DOMAIN ss[n]
    BY <1>3 DEF Unsaid
  <2>2. ss[n][k].by = r
    BY <2>1, <1>3 DEF Grown
  <2>. QED
    BY <2>1, <2>2, <1>1
<1>. QED
  BY <1>2, <1>3 DEF AskedOnly

LEMMA AnsweredKept ==
  ASSUME NEW ss, NEW tt, NEW r, NEW t, NEW id \in DOMAIN ss,
         Grown(ss, tt), Unsaid(ss, tt, r), AnsweredOnly(ss, r, id, t)
  PROVE  AnsweredOnly(tt, r, id, t)
<1>1. PICK i \in DOMAIN ss[id], j \in DOMAIN ss[id] :
        /\ i < j /\ ss[id][i] = Question(r) /\ ss[id][j] = [by |-> r, type |-> t]
        /\ \A n \in DOMAIN ss : \A k \in DOMAIN ss[n] :
             ss[n][k].by = r => n = id /\ (k = i \/ k = j)
  BY DEF AnsweredOnly
<1>2. /\ i \in DOMAIN tt[id] /\ tt[id][i] = Question(r)
      /\ j \in DOMAIN tt[id] /\ tt[id][j] = [by |-> r, type |-> t]
  BY <1>1 DEF Grown
<1>3. ASSUME NEW n \in DOMAIN tt, NEW k \in DOMAIN tt[n], tt[n][k].by = r
      PROVE  n = id /\ (k = i \/ k = j)
  <2>1. n \in DOMAIN ss /\ k \in DOMAIN ss[n]
    BY <1>3 DEF Unsaid
  <2>2. ss[n][k].by = r
    BY <2>1, <1>3 DEF Grown
  <2>. QED
    BY <2>1, <2>2, <1>1
<1>. QED
  BY <1>1, <1>2, <1>3 DEF AnsweredOnly

LEMMA HistoryKept ==
  ASSUME NEW ss, NEW tt, NEW r, NEW h, NEW id \in DOMAIN ss,
         Grown(ss, tt), HistoryHeld(h, ss[id], r)
  PROVE  HistoryHeld(h, tt[id], r)
BY DEF Grown, HistoryHeld

(* A request that does not move stays fine while others speak.              *)
LEMMA FineKept ==
  ASSUME NEW ss, NEW tt, NEW r, NEW n, NEW q,
         Grown(ss, tt), Unsaid(ss, tt, r), RequestFine(q, ss, r, n)
  PROVE  RequestFine(q, tt, r, n)
<1>1. Silent(ss, r) => Silent(tt, r)
  BY SilentKept
<1>2. \A id \in DOMAIN ss : id \in DOMAIN tt
  BY DEF Grown
<1>3. \A id \in DOMAIN ss : AskedOnly(ss, r, id) => AskedOnly(tt, r, id)
  BY AskedKept
<1>4. \A id \in DOMAIN ss : AnsweredOnly(ss, r, id, q.reply) => AnsweredOnly(tt, r, id, q.reply)
  BY AnsweredKept
<1>5. q.sid \in DOMAIN ss /\ HistoryHeld(q.history, ss[q.sid], r) =>
        HistoryHeld(q.history, tt[q.sid], r)
  BY HistoryKept
<1>. QED
  BY <1>1, <1>2, <1>3, <1>4, <1>5 DEF RequestFine

-----------------------------------------------------------------------------
(* How the repository grows.                                               *)

Says(ss, id, msg) == [ss EXCEPT ![id] = Append(@, msg)]

LEMMA NothingSaid ==
  ASSUME NEW ss
  PROVE  Grown(ss, ss) /\ \A r : Unsaid(ss, ss, r)
BY DEF Grown, Unsaid

LEMMA SessionOpened ==
  ASSUME NEW ss \in Said
  PROVE  LET tt == Append(ss, <<>>)
         IN  /\ tt \in Said /\ Len(tt) = Len(ss) + 1 /\ Len(tt) \in DOMAIN tt
             /\ Grown(ss, tt) /\ \A r : Unsaid(ss, tt, r)
<1>. DEFINE tt == Append(ss, <<>>)
<1>1. <<>> \in Seq(Message)
  OBVIOUS
<1>2. tt \in Said /\ Len(tt) = Len(ss) + 1 /\ Len(ss) \in Nat
  BY <1>1 DEF Said
<1>3. /\ DOMAIN ss = 1 .. Len(ss) /\ DOMAIN tt = 1 .. Len(ss) + 1
      /\ \A id \in DOMAIN ss : id \in DOMAIN tt /\ tt[id] = ss[id]
      /\ tt[Len(ss) + 1] = <<>>
  BY <1>1 DEF Said
<1>. HIDE DEF tt
<1>4. Grown(ss, tt)
  BY <1>3 DEF Grown
<1>5. ASSUME NEW r PROVE Unsaid(ss, tt, r)
  <2>. SUFFICES ASSUME NEW id \in DOMAIN tt, NEW i \in DOMAIN tt[id]
                PROVE  id \in DOMAIN ss /\ i \in DOMAIN ss[id]
    BY DEF Unsaid
  <2>1. id # Len(ss) + 1
    BY <1>3
  <2>. QED
    BY <2>1, <1>2, <1>3
<1>6. Len(tt) \in DOMAIN tt
  BY <1>2, <1>3
<1>. QED
  BY <1>2, <1>4, <1>5, <1>6 DEF tt

(* A message lands behind the others of its session, and nowhere else.      *)
LEMMA MessageSaid ==
  ASSUME NEW ss \in Said, NEW id \in DOMAIN ss, NEW msg \in Message
  PROVE  LET tt == Says(ss, id, msg)
             e  == Len(ss[id]) + 1
         IN  /\ tt \in Said /\ Len(tt) = Len(ss) /\ DOMAIN tt = DOMAIN ss
             /\ Grown(ss, tt) /\ \A r : r # msg.by => Unsaid(ss, tt, r)
             /\ e \in DOMAIN tt[id] /\ tt[id][e] = msg
             /\ \A i \in DOMAIN ss[id] : i < e
             /\ \A n \in DOMAIN tt : \A k \in DOMAIN tt[n] :
                  (n = id /\ k = e) \/ (n \in DOMAIN ss /\ k \in DOMAIN ss[n]
                                        /\ tt[n][k] = ss[n][k])
<1>. DEFINE tt == Says(ss, id, msg)
            e  == Len(ss[id]) + 1
            s  == Append(ss[id], msg)
<1>1. ss[id] \in Seq(Message)
  BY DEF Said
<1>2. /\ s \in Seq(Message) /\ Len(s) = e /\ e \in Nat \ {0} /\ s[e] = msg
      /\ DOMAIN s = 1 .. e /\ DOMAIN ss[id] = 1 .. (e - 1)
      /\ \A i \in DOMAIN ss[id] : s[i] = ss[id][i]
  BY <1>1
<1>3. tt = [ss EXCEPT ![id] = s]
  BY DEF Says
<1>. HIDE DEF s, e
<1>4. /\ tt \in Said /\ Len(tt) = Len(ss) /\ DOMAIN tt = DOMAIN ss
      /\ tt[id] = s /\ \A n \in DOMAIN ss : n # id => tt[n] = ss[n]
  BY <1>2, <1>3 DEF Said
<1>. HIDE DEF tt
<1>5. \A i \in DOMAIN ss[id] : i \in DOMAIN s /\ i < e
  BY <1>2
<1>6. Grown(ss, tt)
  BY <1>2, <1>4, <1>5 DEF Grown
<1>7. e \in DOMAIN tt[id] /\ tt[id][e] = msg
  BY <1>2, <1>4
<1>8. ASSUME NEW n \in DOMAIN tt, NEW k \in DOMAIN tt[n]
      PROVE  (n = id /\ k = e) \/ (n \in DOMAIN ss /\ k \in DOMAIN ss[n] /\ tt[n][k] = ss[n][k])
  <2>1. CASE n = id
    BY <2>1, <1>2, <1>4
  <2>2. CASE n # id
    BY <2>2, <1>4
  <2>. QED
    BY <2>1, <2>2
<1>9. ASSUME NEW r, r # msg.by PROVE Unsaid(ss, tt, r)
  BY <1>7, <1>8, <1>9 DEF Unsaid
<1>. QED
  BY <1>4, <1>5, <1>6, <1>7, <1>8, <1>9 DEF tt, e

(* The question of a request that had said nothing, and the answer to it.   *)
LEMMA QuestionSaid ==
  ASSUME NEW ss \in Said, NEW id \in DOMAIN ss, NEW r \in Requests, Silent(ss, r)
  PROVE  AskedOnly(Says(ss, id, Question(r)), r, id)
<1>. DEFINE msg == Question(r)
            tt  == Says(ss, id, msg)
            e   == Len(ss[id]) + 1
<1>1. msg \in Message
  BY DEF Message, Question
<1>. HIDE DEF msg
<1>2. /\ e \in DOMAIN tt[id] /\ tt[id][e] = msg
      /\ \A n \in DOMAIN tt : \A k \in DOMAIN tt[n] :
           (n = id /\ k = e) \/ (n \in DOMAIN ss /\ k \in DOMAIN ss[n] /\ tt[n][k] = ss[n][k])
  BY <1>1, MessageSaid
<1>. HIDE DEF tt, e
<1>. QED
  BY <1>2 DEF AskedOnly, Silent, msg, tt

LEMMA AnswerSaid ==
  ASSUME NEW ss \in Said, NEW id \in DOMAIN ss, NEW r \in Requests, NEW t \in AnswerTypes,
         AskedOnly(ss, r, id)
  PROVE  AnsweredOnly(Says(ss, id, [by |-> r, type |-> t]), r, id, t)
<1>. DEFINE msg == [by |-> r, type |-> t]
            tt  == Says(ss, id, msg)
            e   == Len(ss[id]) + 1
<1>1. msg \in Message
  BY DEF Message, AnswerTypes
<1>. HIDE DEF msg
<1>2. /\ e \in DOMAIN tt[id] /\ tt[id][e] = msg /\ DOMAIN tt = DOMAIN ss
      /\ Grown(ss, tt) /\ \A i \in DOMAIN ss[id] : i < e
      /\ \A n \in DOMAIN tt : \A k \in DOMAIN tt[n] :
           (n = id /\ k = e) \/ (n \in DOMAIN ss /\ k \in DOMAIN ss[n] /\ tt[n][k] = ss[n][k])
  BY <1>1, MessageSaid
<1>. HIDE DEF tt, e
<1>3. PICK i \in DOMAIN ss[id] :
        /\ ss[id][i] = Question(r)
        /\ \A n \in DOMAIN ss : \A k \in DOMAIN ss[n] : ss[n][k].by = r => n = id /\ k = i
  BY DEF AskedOnly
<1>4. i \in DOMAIN tt[id] /\ tt[id][i] = Question(r) /\ i < e
  BY <1>2, <1>3 DEF Grown
<1>5. ASSUME NEW n \in DOMAIN tt, NEW k \in DOMAIN tt[n], tt[n][k].by = r
      PROVE  n = id /\ (k = i \/ k = e)
  BY <1>2, <1>3, <1>5
<1>. QED
  BY <1>2, <1>4, <1>5 DEF AnsweredOnly, msg, tt

-----------------------------------------------------------------------------
(* The whole program.                                                      *)

(* The inductive invariant: where every call stands, what it was charged    *)
(* and what was counted of it, and that the repository holds messages.      *)
CallInv == /\ ctx \in [Callers -> {"live", "done"}]
           /\ CallsFine /\ CountsHold
           /\ sessions \in Said /\ restarts \in Nat

(* What a step of anybody does to the calls.                                *)
CallsStep == \/ UNCHANGED callVars
             \/ \E c \in Callers : Ask(c) \/ CallTaken(c) \/ CallStep(c) \/ ContextEnds(c)

LEMMA CallsKept ==
  ASSUME CallInv, CallsStep
  PROVE  /\ ctx' \in [Callers -> {"live", "done"}]
         /\ CallsFine' /\ CountsHold'
<1>1. CASE UNCHANGED callVars
  BY <1>1 DEF CallInv, callVars, CallsFine, CountsHold, TallyIsHonest
<1>2. ASSUME NEW c \in Callers, Ask(c)
      PROVE  ctx' \in [Callers -> {"live", "done"}] /\ CallsFine' /\ CountsHold'
  <2>1. CallsFine'
    BY <1>2, AskFine DEF CallInv
  <2>. QED
    BY <1>2, <2>1 DEF Ask, CallInv, CountsHold, TallyIsHonest
<1>3. ASSUME NEW c \in Callers, CallTaken(c)
      PROVE  ctx' \in [Callers -> {"live", "done"}] /\ CallsFine' /\ CountsHold'
  <2>1. CallsFine'
    BY <1>3, IdleFine, OneCall DEF CallInv, CallTaken, Becomes
  <2>. QED
    BY <1>3, <2>1 DEF CallTaken, CallInv, CountsHold, TallyIsHonest
<1>4. ASSUME NEW c \in Callers, CallStep(c)
      PROVE  ctx' \in [Callers -> {"live", "done"}] /\ CallsFine' /\ CountsHold'
  <2>1. CallsFine'
    BY <1>4, SendFine, FlightFine, WaitFine DEF CallStep, CallInv
  <2>2. CountsHold'
    BY <1>4, CountStep DEF CallInv
  <2>3. ctx' = ctx
    BY <1>4 DEF CallStep, Send, TransportFails, BodyFails, Refused, Completed,
                TimerFires, WaitCut
  <2>. QED
    BY <2>1, <2>2, <2>3 DEF CallInv
<1>5. ASSUME NEW c \in Callers, ContextEnds(c)
      PROVE  ctx' \in [Callers -> {"live", "done"}] /\ CallsFine' /\ CountsHold'
  BY <1>5 DEF ContextEnds, CallInv, CallsFine, CountsHold, TallyIsHonest
<1>. QED
  BY <1>1, <1>2, <1>3, <1>4, <1>5 DEF CallsStep

LEMMA OneCaller ==
  ASSUME NEW c \in Callers, Ask(c) \/ CallTaken(c) \/ CallStep(c) \/ ContextEnds(c)
  PROVE  CallsStep
BY Zenon DEF CallsStep

(* Every step is one of a process, or the end of the process.               *)
LEMMA StepShapes ==
  ASSUME [Next]_vars
  PROVE  Restart \/ (SessionStep /\ CallsStep /\ restarts' = restarts)
<1>. Requests \subseteq Callers /\ Loops \subseteq Callers
  BY ChatAssumption
<1>1. CASE UNCHANGED vars
  BY <1>1 DEF vars, callVars, SessionStep, CallsStep
<1>2. ASSUME NEW r \in Requests, RequestStep(r)
      PROVE  SessionStep /\ CallsStep /\ restarts' = restarts
  <2>1. CASE Chat(r) \/ AgentChat(r) \/ ReadHistory(r) \/ ValidateSelection(r)
    BY <2>1 DEF Chat, AgentChat, ReadHistory, ValidateSelection, SessionStep, CallsStep
  <2>2. CASE AddUserMessage(r)
    <3>1. [by |-> r, type |-> "user_message"] \in Message
      BY DEF Message
    <3>. QED
      BY <2>2, <3>1 DEF AddUserMessage, SessionStep, CallsStep
  <2>3. CASE AskModel(r)
    <3>1. CallsStep
      BY <2>3, OneCaller DEF AskModel
    <3>. QED
      BY <2>3, <3>1 DEF AskModel, SessionStep
  <2>4. CASE TakeOutput(r)
    <3>1. CallsStep
      BY <2>4, OneCaller DEF TakeOutput
    <3>. QED
      BY <2>4, <3>1 DEF TakeOutput, SessionStep
  <2>5. CASE TakePlan(r)
    <3>1. \A t \in {"final_answer", "tool_intent"} : [by |-> r, type |-> t] \in Message
      BY DEF Message
    <3>2. /\ \/ sessions' = sessions
             \/ sessions' = WithMessage(r, [by |-> r, type |-> "final_answer"])
             \/ sessions' = WithMessage(r, [by |-> r, type |-> "tool_intent"])
          /\ CallTaken(r) /\ restarts' = restarts
      BY <2>5 DEF TakePlan
    <3>3. CallsStep
      BY <3>2, OneCaller
    <3>. QED
      BY <3>1, <3>2, <3>3 DEF SessionStep
  <2>. QED
    BY <1>2, <2>1, <2>2, <2>3, <2>4, <2>5 DEF RequestStep
<1>3. ASSUME NEW l \in Loops, LoopAsks(l) \/ LoopTakes(l) \/ LoopCancelled(l)
      PROVE  SessionStep /\ CallsStep /\ restarts' = restarts
  <2>1. (Ask(l) \/ CallTaken(l) \/ ContextEnds(l)) /\ UNCHANGED chatVars
    BY <1>3 DEF LoopAsks, LoopTakes, LoopCancelled
  <2>2. CallsStep
    BY <2>1, OneCaller
  <2>. QED
    BY <2>1, <2>2 DEF chatVars, SessionStep
<1>4. CASE CallProceeds
  BY <1>4 DEF CallProceeds, chatVars, SessionStep, CallsStep
<1>5. CASE CreateSession
  BY <1>5 DEF CreateSession, SessionStep, CallsStep
<1>. QED
  BY <1>1, <1>2, <1>3, <1>4, <1>5 DEF Next

LEMMA CallInvInit == Init => CallInv
<1>. SUFFICES ASSUME Init PROVE CallInv
  OBVIOUS
<1>1. CallsFine
  BY IdleFine DEF Init, CallInit, CallsFine
<1>2. CountsHold
  BY DEF Init, CallInit, CountsHold, TallyIsHonest, Tallies, EmptyTally
<1>. QED
  BY <1>1, <1>2 DEF Init, CallInit, CallInv, Said

LEMMA CallInvStep == CallInv /\ [Next]_vars => CallInv'
<1>. SUFFICES ASSUME CallInv, [Next]_vars PROVE CallInv'
  OBVIOUS
<1>1. CASE Restart
  <2>1. CallsFine'
    BY <1>1, IdleFine DEF Restart, CallsFine
  <2>2. EmptyTally \in Tallies /\ EmptyTally.in = 0 /\ EmptyTally.out = 0 /\ EmptyTally.total = 0
    BY DEF EmptyTally, Tallies
  <2>3. CountsHold'
    BY <1>1, <2>2 DEF Restart, CallInv, CountsHold, TallyIsHonest
  <2>. QED
    BY <1>1, <2>1, <2>3 DEF Restart, CallInv, Said
<1>2. CASE SessionStep /\ CallsStep /\ restarts' = restarts
  <2>1. ctx' \in [Callers -> {"live", "done"}] /\ CallsFine' /\ CountsHold'
    BY <1>2, CallsKept
  <2>2. sessions' \in Said
    BY <1>2, SessionsGrow DEF CallInv
  <2>. QED
    BY <1>2, <2>1, <2>2 DEF CallInv
<1>. QED
  BY <1>1, <1>2, StepShapes

THEOREM CallInvariant == Spec => []CallInv
BY CallInvInit, CallInvStep, PTL DEF Spec

(* What a tally reports stays within what the provider charged, and its     *)
(* total covers its parts: whatever answers were lost, however many callers *)
(* share the gateway.                                                       *)
THEOREM TalliesAreHonest == Spec => []TallyIsHonest
<1>. CallInv => TallyIsHonest
  BY DEF CallInv, CountsHold
<1>. QED
  BY CallInvariant, PTL

(* doJSONWithRetry: after an answer that repeating cannot change the call   *)
(* sends nothing more.                                                      *)
THEOREM FinalAnswersEndTheCall == Spec => []FinalAnswersAreFinal
<1>. CallInv => FinalAnswersAreFinal
  BY DEF CallInv, CallsFine, CallFine, FinalAnswersAreFinal
<1>. QED
  BY CallInvariant, PTL

(* backoffWait: whatever Retry-After asks for, a call waits at most the cap *)
(* before each further attempt.                                             *)
THEOREM CallsWaitBoundedly == Spec => []WaitsAreBounded
<1>1. CallInv => WaitsAreBounded
  <2>. SUFFICES ASSUME CallInv, NEW c \in Callers
                PROVE  call[c].slept <= (MaxAttempts - 1) * RetryCap
    BY DEF WaitsAreBounded
  <2>1. call[c] \in Calls /\ CallFine(call[c])
    BY DEF CallInv, CallsFine
  <2>. QED
    BY <2>1 DEF Calls, CallFine, RetryCap
<1>. QED
  BY <1>1, CallInvariant, PTL

(* AddMessage appends under the lock: while the process lives, whatever was *)
(* said in a session stays said, in the order it was said.                  *)
THEOREM SessionsAreAppendOnly == Spec => SessionsOnlyGrow
<1>1. CallInv /\ [Next]_vars =>
        [restarts' = restarts =>
           \A id \in DOMAIN sessions : /\ id \in DOMAIN sessions'
                                       /\ IsPrefix(sessions[id], sessions'[id])]_vars
  <2>. SUFFICES ASSUME CallInv, [Next]_vars, restarts' = restarts
                PROVE  \A id \in DOMAIN sessions :
                         id \in DOMAIN sessions' /\ IsPrefix(sessions[id], sessions'[id])
    OBVIOUS
  <2>1. ~ Restart
    BY DEF CallInv, Restart
  <2>2. SessionStep
    BY <2>1, StepShapes
  <2>. QED
    BY <2>2, SessionsGrow DEF CallInv
<1>. QED
  BY <1>1, CallInvariant, PTL DEF Spec, SessionsOnlyGrow

-----------------------------------------------------------------------------
(* Requests, and what the sessions keep of them.                           *)

(* What a handler's step makes of its own request, the others' left alone.  *)
LEMMA OneRequest ==
  ASSUME RequestsFine, NEW r \in Requests, NEW k,
         req' = [req EXCEPT ![r] = k], restarts' = restarts,
         sessions' \in Said, Len(sessions') <= MaxSessions, Grown(sessions, sessions'),
         \A o \in Requests : o # r => Unsaid(sessions, sessions', o),
         RequestFine(k, sessions', r, restarts)
  PROVE  RequestsFine'
<1>1. ASSUME NEW o \in Requests, o # r
      PROVE  RequestFine(req'[o], sessions', o, restarts)
  <2>1. req'[o] = req[o] /\ RequestFine(req[o], sessions, o, restarts)
    BY <1>1 DEF RequestsFine
  <2>. QED
    BY <1>1, <2>1, FineKept
<1>2. req'[r] = k /\ req' = [o \in Requests |-> req'[o]]
  BY DEF RequestsFine
<1>. QED
  BY <1>1, <1>2 DEF RequestsFine

(* The step of a request that says nothing.                                 *)
LEMMA OneMoves ==
  ASSUME RequestsFine, NEW r \in Requests, NEW k,
         req' = [req EXCEPT ![r] = k], restarts' = restarts, sessions' = sessions,
         RequestFine(k, sessions, r, restarts)
  PROVE  RequestsFine'
BY NothingSaid, OneRequest DEF RequestsFine

Done(q, answer) == [Fresh EXCEPT !.pc = "done", !.sid = q.sid, !.reply = answer]

LEMMA FreshShape ==
  Fresh \in Req /\ Fresh.pc = "idle" /\ Fresh.reply = None /\ Fresh.kind = None
BY ChatAssumption DEF Fresh, Req, NoSession

LEMMA DoneShape ==
  ASSUME NEW q \in Req, NEW answer \in Replies
  PROVE  /\ Done(q, answer) \in Req /\ Done(q, answer).pc = "done"
         /\ Done(q, answer).sid = q.sid /\ Done(q, answer).reply = answer
BY FreshShape DEF Done, Req

(* An answer that is no planner's, to a request that said nothing or only   *)
(* its message.                                                             *)
LEMMA RepliedWithNothing ==
  ASSUME RequestsFine, NEW r \in Requests, NEW answer \in Replies \ AnswerTypes,
         Reply(r, answer), UNCHANGED <<sessions, restarts>>,
         \/ Silent(sessions, r)
         \/ req[r].sid \in DOMAIN sessions /\ AskedOnly(sessions, r, req[r].sid)
  PROVE  RequestsFine'
<1>. DEFINE k == Done(req[r], answer)
<1>1. req' = [req EXCEPT ![r] = k]
  BY DEF Reply, Done
<1>2. /\ k \in Req /\ k.pc = "done" /\ k.sid = req[r].sid /\ k.reply = answer
  BY DoneShape DEF RequestsFine, RequestFine
<1>. HIDE DEF k
<1>3. RequestFine(k, sessions, r, restarts)
  BY <1>2 DEF RequestFine
<1>. QED
  BY <1>1, <1>3, OneMoves

LEMMA ChatFine ==
  ASSUME RequestsFine, NEW r \in Requests, Chat(r)
  PROVE  RequestsFine'
<1>1. RequestFine(req[r], sessions, r, restarts) /\ req[r].pc = "idle"
  BY DEF Chat, RequestsFine
<1>2. Silent(sessions, r)
  BY <1>1 DEF RequestFine
<1>3. CASE \E answer \in {"bad request", "refused"} : Reply(r, answer)
  <2>1. {"bad request", "refused"} \subseteq Replies \ AnswerTypes
    BY DEF Replies, AnswerTypes
  <2>. QED
    BY <1>2, <1>3, <2>1, RepliedWithNothing DEF Chat
<1>4. CASE req' = [req EXCEPT ![r].pc = "ask", ![r].kind = "chat"]
  <2>. DEFINE k == [req[r] EXCEPT !.pc = "ask", !.kind = "chat"]
  <2>1. req' = [req EXCEPT ![r] = k]
    BY <1>4 DEF RequestsFine
  <2>2. k \in Req /\ k.pc = "ask" /\ k.kind = "chat" /\ k.reply = req[r].reply
    BY <1>1 DEF RequestFine, Req
  <2>. HIDE DEF k
  <2>3. RequestFine(k, sessions, r, restarts)
    BY <1>1, <1>2, <2>2 DEF RequestFine
  <2>. QED
    BY <2>1, <2>3, OneMoves DEF Chat
<1>. QED
  BY <1>3, <1>4 DEF Chat

LEMMA AgentChatFine ==
  ASSUME RequestsFine, NEW r \in Requests, AgentChat(r)
  PROVE  RequestsFine'
<1>1. RequestFine(req[r], sessions, r, restarts) /\ req[r].pc = "idle"
  BY DEF AgentChat, RequestsFine
<1>2. Silent(sessions, r)
  BY <1>1 DEF RequestFine
<1>3. {"bad request", "not found"} \subseteq Replies \ AnswerTypes
  BY DEF Replies, AnswerTypes
<1>4. MaxSessions \in Nat \ {0} /\ sessions \in Said /\ Len(sessions) <= MaxSessions
  BY ChatAssumption DEF RequestsFine
<1>5. Len(sessions) \in Nat /\ DOMAIN sessions = 1 .. Len(sessions)
  BY <1>4 DEF Said
<1>6. ASSUME NEW id \in 1 .. MaxSessions,
             req' = [req EXCEPT ![r] = [@ EXCEPT !.pc = "prepared", !.kind = "agent", !.sid = id]],
             sessions' \in Said, Len(sessions') <= MaxSessions, id \in DOMAIN sessions',
             Grown(sessions, sessions'),
             \A o \in Requests : Unsaid(sessions, sessions', o)
      PROVE  RequestsFine'
  <2>. DEFINE k == [req[r] EXCEPT !.pc = "prepared", !.kind = "agent", !.sid = id]
  <2>1. req' = [req EXCEPT ![r] = k]
    BY <1>6
  <2>0. req[r] \in Req /\ id \in 0 .. MaxSessions
    BY <1>1, <1>4 DEF RequestFine
  <2>2. /\ k \in Req /\ k.pc = "prepared" /\ k.kind = "agent" /\ k.sid = id
        /\ k.reply = req[r].reply
    BY <2>0 DEF Req
  <2>. HIDE DEF k
  <2>3. Silent(sessions', r)
    BY <1>2, <1>6, SilentKept
  <2>4. RequestFine(k, sessions', r, restarts)
    BY <1>1, <1>6, <2>2, <2>3 DEF RequestFine
  <2>5. restarts' = restarts
    BY DEF AgentChat
  <2>. QED
    BY <1>6, <2>1, <2>4, <2>5, OneRequest
<1>7. CASE Reply(r, "bad request") /\ UNCHANGED sessions
  BY <1>2, <1>3, <1>7, RepliedWithNothing DEF AgentChat
<1>8. CASE /\ Len(sessions) < MaxSessions
           /\ sessions' = Append(sessions, <<>>)
           /\ req' = [req EXCEPT ![r] = [@ EXCEPT !.pc = "prepared", !.kind = "agent",
                                                  !.sid = Len(sessions) + 1]]
  <2>1. /\ sessions' \in Said /\ Len(sessions') = Len(sessions) + 1
        /\ Len(sessions') \in DOMAIN sessions' /\ Grown(sessions, sessions')
        /\ \A o : Unsaid(sessions, sessions', o)
    BY <1>4, <1>8, SessionOpened
  <2>. DEFINE id == Len(sessions) + 1
  <2>2. id \in 1 .. MaxSessions /\ Len(sessions') <= MaxSessions /\ id \in DOMAIN sessions'
    BY <1>4, <1>5, <1>8, <2>1
  <2>3. req' = [req EXCEPT ![r] = [@ EXCEPT !.pc = "prepared", !.kind = "agent", !.sid = id]]
    BY <1>8
  <2>. HIDE DEF id
  <2>. QED
    BY <1>6, <2>1, <2>2, <2>3
<1>9. ASSUME NEW id \in 1 .. MaxSessions, UNCHANGED sessions,
             IF id \in DOMAIN sessions
             THEN req' = [req EXCEPT ![r] = [@ EXCEPT !.pc = "prepared", !.kind = "agent",
                                                      !.sid = id]]
             ELSE Reply(r, "not found")
      PROVE  RequestsFine'
  <2>1. CASE id \in DOMAIN sessions
    <3>1. Grown(sessions, sessions') /\ \A o : Unsaid(sessions, sessions', o)
      BY <1>9, NothingSaid
    <3>2. req' = [req EXCEPT ![r] = [@ EXCEPT !.pc = "prepared", !.kind = "agent", !.sid = id]]
      BY <1>9, <2>1
    <3>. QED
      BY <1>4, <1>6, <1>9, <2>1, <3>1, <3>2
  <2>2. CASE id \notin DOMAIN sessions
    <3>1. Reply(r, "not found") /\ UNCHANGED <<sessions, restarts>>
      BY <1>9, <2>2 DEF AgentChat
    <3>. QED
      BY <1>2, <1>3, <3>1, RepliedWithNothing
  <2>. QED
    BY <2>1, <2>2
<1>. QED
  BY <1>7, <1>8, <1>9 DEF AgentChat

LEMMA AddUserMessageFine ==
  ASSUME RequestsFine, NEW r \in Requests, AddUserMessage(r)
  PROVE  RequestsFine'
<1>. DEFINE id == req[r].sid
            msg == Question(r)
            k == [req[r] EXCEPT !.pc = "written"]
<1>1. /\ RequestFine(req[r], sessions, r, restarts) /\ req[r].pc = "prepared"
      /\ sessions \in Said /\ Len(sessions) <= MaxSessions
  BY DEF AddUserMessage, RequestsFine
<1>2. id \in DOMAIN sessions /\ Silent(sessions, r) /\ req[r].kind = "agent"
  BY <1>1 DEF RequestFine
<1>3. sessions' = Says(sessions, id, msg)
  BY DEF AddUserMessage, WithMessage, Says, Question
<1>4. msg \in Message /\ msg.by = r
  BY DEF Message, Question
<1>5. req' = [req EXCEPT ![r] = k] /\ restarts' = restarts
  BY DEF AddUserMessage, RequestsFine
<1>6. /\ k \in Req /\ k.pc = "written" /\ k.kind = "agent" /\ k.sid = id
      /\ k.reply = req[r].reply
  BY <1>1, <1>2 DEF RequestFine, Req
<1>7. AskedOnly(sessions', r, id)
  BY <1>1, <1>2, <1>3, QuestionSaid
<1>. HIDE DEF k, msg, id
<1>8. /\ sessions' \in Said /\ Len(sessions') = Len(sessions) /\ DOMAIN sessions' = DOMAIN sessions
      /\ Grown(sessions, sessions') /\ \A o : o # msg.by => Unsaid(sessions, sessions', o)
  BY <1>1, <1>2, <1>3, <1>4, MessageSaid
<1>9. RequestFine(k, sessions', r, restarts)
  BY <1>1, <1>2, <1>6, <1>7, <1>8 DEF RequestFine
<1>. QED
  BY <1>1, <1>4, <1>5, <1>8, <1>9, OneRequest

LEMMA ReadHistoryFine ==
  ASSUME RequestsFine, NEW r \in Requests, ReadHistory(r)
  PROVE  RequestsFine'
<1>. DEFINE h == sessions[req[r].sid]
            k == [req[r] EXCEPT !.pc = "validate", !.history = h]
<1>1. /\ RequestFine(req[r], sessions, r, restarts) /\ req[r].pc = "written"
      /\ sessions \in Said
  BY DEF ReadHistory, RequestsFine
<1>2. /\ req[r].sid \in DOMAIN sessions /\ AskedOnly(sessions, r, req[r].sid)
      /\ req[r].kind = "agent"
  BY <1>1 DEF RequestFine
<1>3. h \in Seq(Message)
  BY <1>1, <1>2 DEF Said
<1>4. HistoryHeld(h, sessions[req[r].sid], r)
  BY <1>2 DEF AskedOnly, HistoryHeld
<1>5. req' = [req EXCEPT ![r] = k] /\ restarts' = restarts /\ sessions' = sessions
  BY DEF ReadHistory, RequestsFine
<1>. HIDE DEF h
<1>6. /\ k \in Req /\ k.pc = "validate" /\ k.kind = "agent" /\ k.sid = req[r].sid
      /\ k.reply = req[r].reply /\ k.history = h
  BY <1>1, <1>2, <1>3 DEF RequestFine, Req
<1>. HIDE DEF k
<1>7. RequestFine(k, sessions, r, restarts)
  BY <1>1, <1>2, <1>4, <1>6 DEF RequestFine
<1>. QED
  BY <1>5, <1>7, OneMoves

(* A request that goes on, having said what it had said.                    *)
LEMMA GoneOn ==
  ASSUME RequestsFine, NEW r \in Requests, NEW pc \in {"ask", "asked"},
         req[r].pc \in {"validate", "ask"}, req' = [req EXCEPT ![r].pc = pc],
         UNCHANGED <<sessions, restarts>>
  PROVE  RequestsFine'
<1>. DEFINE k == [req[r] EXCEPT !.pc = pc]
<1>1. RequestFine(req[r], sessions, r, restarts)
  BY DEF RequestsFine
<1>2. req' = [req EXCEPT ![r] = k]
  BY DEF RequestsFine
<1>3. /\ k \in Req /\ k.pc = pc /\ k.kind = req[r].kind /\ k.sid = req[r].sid
      /\ k.reply = req[r].reply /\ k.history = req[r].history
  BY <1>1 DEF RequestFine, Req
<1>. HIDE DEF k
<1>4. RequestFine(k, sessions, r, restarts)
  BY <1>1, <1>3 DEF RequestFine
<1>. QED
  BY <1>2, <1>4, OneMoves

LEMMA ValidateSelectionFine ==
  ASSUME RequestsFine, NEW r \in Requests, ValidateSelection(r)
  PROVE  RequestsFine'
<1>1. CASE req' = [req EXCEPT ![r].pc = "ask"]
  BY <1>1, GoneOn DEF ValidateSelection
<1>2. CASE Reply(r, "refused")
  <2>1. RequestFine(req[r], sessions, r, restarts) /\ req[r].pc = "validate"
    BY DEF ValidateSelection, RequestsFine
  <2>2. req[r].sid \in DOMAIN sessions /\ AskedOnly(sessions, r, req[r].sid)
    BY <2>1 DEF RequestFine
  <2>3. "refused" \in Replies \ AnswerTypes
    BY DEF Replies, AnswerTypes
  <2>. QED
    BY <1>2, <2>2, <2>3, RepliedWithNothing DEF ValidateSelection
<1>. QED
  BY <1>1, <1>2 DEF ValidateSelection

LEMMA TakeOutputFine ==
  ASSUME RequestsFine, NEW r \in Requests, TakeOutput(r)
  PROVE  RequestsFine'
<1>. DEFINE answer == IF call[r].answer.ok THEN "output" ELSE "model error"
<1>1. RequestFine(req[r], sessions, r, restarts) /\ req[r].pc = "asked" /\ req[r].kind = "chat"
  BY DEF TakeOutput, RequestsFine
<1>2. Silent(sessions, r)
  BY <1>1 DEF RequestFine
<1>3. answer \in Replies \ AnswerTypes
  BY DEF Replies, AnswerTypes
<1>4. Reply(r, answer) /\ UNCHANGED <<sessions, restarts>>
  BY DEF TakeOutput
<1>. HIDE DEF answer
<1>. QED
  BY <1>2, <1>3, <1>4, RepliedWithNothing

LEMMA TakePlanFine ==
  ASSUME RequestsFine, NEW r \in Requests, TakePlan(r)
  PROVE  RequestsFine'
<1>. DEFINE plan == Planned(call[r].answer)
            id == req[r].sid
            msg == [by |-> r, type |-> plan]
            k == Done(req[r], plan)
<1>1. /\ RequestFine(req[r], sessions, r, restarts) /\ req[r].pc = "asked"
      /\ req[r].kind = "agent" /\ sessions \in Said /\ Len(sessions) <= MaxSessions
  BY DEF TakePlan, RequestsFine
<1>2. id \in DOMAIN sessions /\ AskedOnly(sessions, r, id) /\ req[r] \in Req
  BY <1>1 DEF RequestFine
<1>3. plan \in Replies
  BY DEF Planned, Replies
<1>4. /\ Reply(r, plan) /\ restarts' = restarts
      /\ sessions' = IF Recorded(plan)
                     THEN WithMessage(r, [by |-> r, type |-> IF plan = "final_answer"
                                              THEN "final_answer" ELSE "tool_intent"])
                     ELSE sessions
  BY DEF TakePlan
<1>. HIDE DEF plan
<1>5. CASE plan \in AnswerTypes
  <2>1. Recorded(plan) /\ plan = IF plan = "final_answer" THEN "final_answer" ELSE "tool_intent"
    BY <1>5 DEF AnswerTypes, Recorded
  <2>2. sessions' = Says(sessions, id, msg)
    BY <1>4, <2>1 DEF WithMessage, Says
  <2>3. msg \in Message /\ msg.by = r
    BY <1>5 DEF Message, AnswerTypes
  <2>4. AnsweredOnly(sessions', r, id, plan)
    BY <1>1, <1>2, <1>5, <2>2, AnswerSaid
  <2>5. req' = [req EXCEPT ![r] = k]
    BY <1>4 DEF Reply, Done
  <2>6. k \in Req /\ k.pc = "done" /\ k.sid = id /\ k.reply = plan
    BY <1>2, <1>3, DoneShape
  <2>. HIDE DEF k, msg, id
  <2>7. /\ sessions' \in Said /\ Len(sessions') = Len(sessions)
        /\ DOMAIN sessions' = DOMAIN sessions
        /\ Grown(sessions, sessions') /\ \A o : o # msg.by => Unsaid(sessions, sessions', o)
    BY <1>1, <1>2, <2>2, <2>3, MessageSaid
  <2>8. RequestFine(k, sessions', r, restarts)
    BY <1>2, <1>5, <2>4, <2>6, <2>7 DEF RequestFine
  <2>. QED
    BY <1>1, <1>4, <2>3, <2>5, <2>7, <2>8, OneRequest
<1>6. CASE plan \notin AnswerTypes
  <2>1. ~ Recorded(plan)
    BY <1>6 DEF AnswerTypes, Recorded
  <2>2. plan \in Replies \ AnswerTypes /\ UNCHANGED <<sessions, restarts>>
    BY <1>3, <1>4, <1>6, <2>1
  <2>. QED
    BY <1>2, <1>4, <2>2, RepliedWithNothing
<1>. QED
  BY <1>5, <1>6

LEMMA RestartFine ==
  ASSUME RequestsFine, Restart
  PROVE  RequestsFine'
<1>1. restarts \in Nat /\ MaxRestarts \in Nat
  BY ChatAssumption DEF RequestsFine
<1>2. /\ sessions' = <<>> /\ restarts' = restarts + 1 /\ restarts' \in 0 .. MaxRestarts
      /\ req' = [r \in Requests |-> req'[r]]
  BY <1>1 DEF Restart
<1>3. /\ sessions' \in Said /\ Len(sessions') <= MaxSessions
      /\ \A r : Silent(sessions', r)
  BY <1>2, ChatAssumption DEF Said, Silent
<1>4. ASSUME NEW r \in Requests
      PROVE  RequestFine(req'[r], sessions', r, restarts')
  <2>1. RequestFine(req[r], sessions, r, restarts)
    BY DEF RequestsFine
  <2>2. CASE req[r].pc \in {"idle", "done"}
    <3>1. req'[r] = req[r]
      BY <2>2 DEF Restart
    <3>. QED
      BY <1>1, <1>2, <1>3, <2>1, <2>2, <3>1 DEF RequestFine
  <2>3. CASE req[r].pc \notin {"idle", "done"}
    <3>. DEFINE k == [Fresh EXCEPT !.pc = "lost"]
    <3>1. req'[r] = k
      BY <2>3 DEF Restart
    <3>2. k \in Req /\ k.pc = "lost" /\ k.reply = None /\ k.kind = None
      BY FreshShape DEF Req
    <3>. HIDE DEF k
    <3>3. RequestFine(k, sessions', r, restarts')
      BY <1>1, <1>2, <1>3, <3>2 DEF RequestFine
    <3>. QED
      BY <3>1, <3>3
  <2>. QED
    BY <2>2, <2>3
<1>. QED
  BY <1>2, <1>3, <1>4 DEF RequestsFine

LEMMA RequestsInit == Init => RequestsFine
<1>. SUFFICES ASSUME Init PROVE RequestsFine
  OBVIOUS
<1>1. sessions = <<>> /\ restarts = 0 /\ req = [r \in Requests |-> Fresh]
  BY DEF Init
<1>2. Fresh \in Req /\ Fresh.pc = "idle" /\ Fresh.reply = None /\ Fresh.kind = None
  BY FreshShape
<1>3. ASSUME NEW r \in Requests PROVE RequestFine(Fresh, sessions, r, restarts)
  <2>1. Silent(sessions, r)
    BY <1>1 DEF Silent
  <2>. QED
    BY <1>2, <2>1 DEF RequestFine
<1>. QED
  BY <1>1, <1>3, ChatAssumption DEF RequestsFine, Said

LEMMA RequestsStep == RequestsFine /\ [Next]_vars => RequestsFine'
<1>. SUFFICES ASSUME RequestsFine, [Next]_vars PROVE RequestsFine'
  OBVIOUS
<1>1. CASE UNCHANGED chatVars
  BY <1>1 DEF chatVars, RequestsFine
<1>2. ASSUME NEW r \in Requests, RequestStep(r) PROVE RequestsFine'
  <2>1. CASE AskModel(r)
    BY <2>1, GoneOn DEF AskModel
  <2>. QED
    BY <1>2, <2>1, ChatFine, AgentChatFine, AddUserMessageFine, ReadHistoryFine,
       ValidateSelectionFine, TakeOutputFine, TakePlanFine DEF RequestStep
<1>3. CASE CreateSession
  <2>1. /\ sessions' = Append(sessions, <<>>) /\ req' = req /\ restarts' = restarts
        /\ sessions \in Said /\ Len(sessions) < MaxSessions
    BY <1>3 DEF CreateSession, RequestsFine
  <2>2. /\ sessions' \in Said /\ Len(sessions') = Len(sessions) + 1
        /\ Grown(sessions, sessions') /\ \A o : Unsaid(sessions, sessions', o)
    BY <2>1, SessionOpened
  <2>3. Len(sessions') <= MaxSessions
    BY <2>1, <2>2, ChatAssumption DEF Said
  <2>4. \A r \in Requests : RequestFine(req[r], sessions', r, restarts)
    BY <2>2, FineKept DEF RequestsFine
  <2>. QED
    BY <2>1, <2>2, <2>3, <2>4 DEF RequestsFine
<1>4. ASSUME NEW l \in Loops, LoopAsks(l) \/ LoopTakes(l) \/ LoopCancelled(l)
      PROVE  UNCHANGED chatVars
  BY <1>4 DEF LoopAsks, LoopTakes, LoopCancelled
<1>. QED
  BY <1>1, <1>2, <1>3, <1>4, RestartFine DEF Next, CallProceeds, vars, chatVars

THEOREM RequestsInvariant == Spec => []RequestsFine
BY RequestsInit, RequestsStep, PTL DEF Spec

-----------------------------------------------------------------------------
(* What the run of this module checks of calls and sessions.               *)

LEMMA PrefixByPlaces ==
  ASSUME NEW S, NEW s \in Seq(S), NEW t \in Seq(S),
         \A i \in DOMAIN s : i \in DOMAIN t /\ s[i] = t[i]
  PROVE  IsPrefix(s, t)
<1>1. /\ Len(s) \in Nat /\ Len(t) \in Nat
      /\ DOMAIN s = 1 .. Len(s) /\ DOMAIN t = 1 .. Len(t)
  OBVIOUS
<1>2. Len(s) <= Len(t)
  <2>1. CASE Len(s) = 0
    BY <1>1, <2>1
  <2>2. CASE Len(s) # 0
    <3>1. Len(s) \in DOMAIN s
      BY <1>1, <2>2
    <3>2. Len(s) \in DOMAIN t
      BY <3>1
    <3>. QED
      BY <1>1, <3>2
  <2>. QED
    BY <2>1, <2>2
<1>3. \A i \in 1 .. Len(s) : s[i] = t[i]
  BY <1>1
<1>. QED
  BY <1>1, <1>2, <1>3 DEF IsPrefix

(* What was said of a request, in the terms of RepliesAreRecorded.          *)
LEMMA SaidByPlaces ==
  ASSUME NEW r, NEW m \in SaidBy(r)
  PROVE  /\ m = <<m[1], m[2]>> /\ m[1] \in DOMAIN sessions /\ m[2] \in DOMAIN sessions[m[1]]
         /\ sessions[m[1]][m[2]].by = r
<1>1. m \in Places /\ sessions[m[1]][m[2]].by = r
  BY DEF SaidBy
<1>2. PICK id \in DOMAIN sessions : m \in {id} \X DOMAIN sessions[id]
  BY <1>1 DEF Places
<1>. QED
  BY <1>1, <1>2

LEMMA PlaceSaid ==
  ASSUME NEW r, NEW id \in DOMAIN sessions, NEW i \in DOMAIN sessions[id],
         sessions[id][i].by = r
  PROVE  <<id, i>> \in SaidBy(r)
<1>1. <<id, i>> \in {id} \X DOMAIN sessions[id]
  OBVIOUS
<1>2. <<id, i>> \in Places
  BY <1>1 DEF Places
<1>. QED
  BY <1>2 DEF SaidBy

LEMMA FineIsRecorded == RequestsFine => RepliesAreRecorded
<1>. SUFFICES ASSUME RequestsFine, NEW r \in Requests
              PROVE  LET said == SaidBy(r)
                         answers == {m \in said : TypeAt(m) # "user_message"}
                     IN  /\ \A m \in answers : \E q \in said \ answers :
                              q[1] = m[1] /\ q[2] < m[2]
                         /\ \A m, k \in answers : m = k
                         /\ \A m, k \in said \ answers : m = k
                         /\ req[r].pc # "lost" /\ restarts = 0 =>
                              (answers # {} <=> req[r].reply \in {"tool_intent", "final_answer"})
                         /\ \A m \in answers : req[r].reply = TypeAt(m)
  BY DEF RepliesAreRecorded
<1>. DEFINE said == SaidBy(r)
            answers == {m \in said : TypeAt(m) # "user_message"}
            q == req[r]
<1>0. RequestFine(q, sessions, r, restarts)
  BY DEF RequestsFine
<1>1. None \notin AnswerTypes
  BY ChatAssumption DEF AnswerTypes, Replies
<1>2. CASE Silent(sessions, r)
  <2>1. said = {}
    BY <1>2, SaidByPlaces DEF Silent
  <2>2. restarts = 0 => q.reply \notin AnswerTypes
    <3>1. CASE q.pc # "done"
      BY <1>0, <1>1, <3>1 DEF RequestFine
    <3>2. CASE q.pc = "done"
      <4>1. ~ \E id \in DOMAIN sessions : AskedOnly(sessions, r, id)
        BY <1>2 DEF Silent, AskedOnly, Question
      <4>2. ~ \E id \in DOMAIN sessions : AnsweredOnly(sessions, r, id, q.reply)
        BY <1>2 DEF Silent, AnsweredOnly, Question
      <4>. QED
        BY <1>0, <3>2, <4>1, <4>2 DEF RequestFine
    <3>. QED
      BY <3>1, <3>2
  <2>. QED
    BY <2>1, <2>2 DEF AnswerTypes
<1>3. CASE q.sid \in DOMAIN sessions /\ AskedOnly(sessions, r, q.sid) /\ q.reply \notin AnswerTypes
  <2>1. PICK i \in DOMAIN sessions[q.sid] :
          /\ sessions[q.sid][i] = Question(r)
          /\ \A n \in DOMAIN sessions : \A k \in DOMAIN sessions[n] :
               sessions[n][k].by = r => n = q.sid /\ k = i
    BY <1>3 DEF AskedOnly
  <2>2. ASSUME NEW m \in said PROVE m = <<q.sid, i>>
    BY <2>1, <2>2, SaidByPlaces
  <2>3. TypeAt(<<q.sid, i>>) = "user_message"
    BY <2>1 DEF TypeAt, Question
  <2>4. answers = {}
    BY <2>2, <2>3
  <2>. QED
    BY <1>3, <2>2, <2>4 DEF AnswerTypes
<1>4. CASE /\ q.sid \in DOMAIN sessions /\ q.reply \in AnswerTypes
           /\ AnsweredOnly(sessions, r, q.sid, q.reply)
  <2>1. PICK i \in DOMAIN sessions[q.sid], j \in DOMAIN sessions[q.sid] :
          /\ i < j /\ sessions[q.sid][i] = Question(r)
          /\ sessions[q.sid][j] = [by |-> r, type |-> q.reply]
          /\ \A n \in DOMAIN sessions : \A k \in DOMAIN sessions[n] :
               sessions[n][k].by = r => n = q.sid /\ (k = i \/ k = j)
    BY <1>4 DEF AnsweredOnly
  <2>. DEFINE a == <<q.sid, j>>
              w == <<q.sid, i>>
  <2>2. a \in said /\ w \in said
    BY <1>4, <2>1, PlaceSaid DEF Question
  <2>3. TypeAt(w) = "user_message" /\ TypeAt(a) = q.reply
    BY <2>1 DEF TypeAt, Question
  <2>4. q.reply # "user_message"
    BY <1>4 DEF AnswerTypes
  <2>5. \A m \in said : m = w \/ m = a
    BY <2>1, SaidByPlaces
  <2>6. w[1] = a[1] /\ w[2] < a[2]
    BY <2>1
  <2>. HIDE DEF a, w
  <2>7. answers = {a} /\ said \ answers = {w}
    BY <2>2, <2>3, <2>4, <2>5
  <2>. HIDE DEF answers, said
  <2>8. q.reply \in {"tool_intent", "final_answer"}
    BY <1>4 DEF AnswerTypes
  <2>9. /\ \A m \in answers : \E p \in said \ answers : p[1] = m[1] /\ p[2] < m[2]
        /\ \A m, k \in answers : m = k
        /\ \A m, k \in said \ answers : m = k
        /\ answers # {} /\ \A m \in answers : q.reply = TypeAt(m)
    BY <2>3, <2>6, <2>7
  <2>. QED
    BY <2>8, <2>9 DEF answers, said
<1>5. q.pc # "done" => q.reply \notin AnswerTypes
  BY <1>0, <1>1 DEF RequestFine
<1>6. q \in Req
  BY <1>0 DEF RequestFine
<1>7. q.pc \in {"idle", "prepared", "written", "validate", "ask", "asked", "done", "lost"}
  BY <1>6 DEF Req
<1>8. q.pc \in {"written", "validate"} => q.kind = "agent"
  BY <1>0 DEF RequestFine
<1>. QED
  BY <1>0, <1>2, <1>3, <1>4, <1>5, <1>7, <1>8 DEF RequestFine

LEMMA FineIsCurrent == RequestsFine => HistoryIsCurrent
<1>. SUFFICES ASSUME RequestsFine, NEW r \in Requests,
                     req[r].pc \in {"validate", "ask", "asked"}, req[r].kind = "agent"
              PROVE  /\ \E i \in DOMAIN req[r].history :
                          req[r].history[i] = [by |-> r, type |-> "user_message"]
                     /\ IsPrefix(req[r].history, sessions[req[r].sid])
  BY DEF HistoryIsCurrent
<1>1. RequestFine(req[r], sessions, r, restarts) /\ sessions \in Said
  BY DEF RequestsFine
<1>2. /\ req[r] \in Req /\ req[r].sid \in DOMAIN sessions
      /\ HistoryHeld(req[r].history, sessions[req[r].sid], r)
  BY <1>1 DEF RequestFine
<1>3. req[r].history \in Seq(Message) /\ sessions[req[r].sid] \in Seq(Message)
  BY <1>1, <1>2 DEF Req, Said
<1>4. IsPrefix(req[r].history, sessions[req[r].sid])
  BY <1>2, <1>3, PrefixByPlaces DEF HistoryHeld
<1>. QED
  BY <1>2, <1>4 DEF HistoryHeld, Question

(* The histories and the answers the sessions hold, whatever requests race  *)
(* on one session: a planner reads the session as it stands, and what it    *)
(* answered is recorded once, behind its message, as the client got it.     *)
THEOREM SessionsHoldTheAnswers == Spec => [](RepliesAreRecorded /\ HistoryIsCurrent)
BY RequestsInvariant, FineIsRecorded, FineIsCurrent, PTL

(* All the run checks of calls and sessions, for every set of requests and  *)
(* loops, every provider and every number of attempts.                      *)
THEOREM CallsAndSessionsAgree == Spec => []UseInv
<1>1. CallInv /\ RequestsFine => TypeOK
  <2>. SUFFICES ASSUME CallInv, RequestsFine PROVE TypeOK
    OBVIOUS
  <2>1. CallTypeOK
    BY DEF CallInv, CallsFine, CountsHold, CallTypeOK, Tallies
  <2>2. \A r \in Requests : req[r] \in Req
    BY DEF RequestsFine, RequestFine
  <2>3. req \in [Requests -> Req]
    BY <2>2 DEF RequestsFine
  <2>. QED
    BY <2>1, <2>3 DEF TypeOK, RequestsFine, Req, Said
<1>. QED
  BY <1>1, FineIsRecorded, FineIsCurrent, RequestsInvariant, CallInvariant,
     FinalAnswersEndTheCall, CallsWaitBoundedly, PTL DEF UseInv
=============================================================================
