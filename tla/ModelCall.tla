----------------------------- MODULE ModelCall -----------------------------
(***************************************************************************)
(* One call of a language model, as every part of the program makes it:    *)
(* DBGateway.Generate hands it to an adapter, the adapter sends it through *)
(* doJSONWithRetry and reads the answer, and the usage is added to the     *)
(* tally the caller's context carries, if it carries one.  Attempts that   *)
(* fail for a passing reason are repeated after a wait; the caller's       *)
(* context may end at any moment.                                          *)
(*                                                                         *)
(* The provider is the environment: it answers with any status, breaks the *)
(* connection before or during the answer, and charges for an answer it    *)
(* produced whether or not the answer arrived.                             *)
(***************************************************************************)
EXTENDS Integers, FiniteSets

CONSTANTS
  Callers,      \* whoever calls: a chat request, a scan's loop
  Tallied,      \* the callers whose context carries a token tally
  MaxAttempts,  \* maxRetryAttempts
  Statuses,     \* HTTP statuses a provider answers with
  Seconds,      \* numbers of seconds in a Retry-After
  Dates,        \* how far off, in milliseconds, a date in a Retry-After is
  Wrap,         \* the milliseconds a Duration tells apart: its 64 bits
  Jitters,      \* the random part of a backoff, in milliseconds
  Usages,       \* [in, out, total] as providers report them
  Texts,        \* what a completion may say
  NoText,       \* the empty completion
  None,         \* no answer yet
  MaxCharged    \* bounds what the provider charges one caller

ASSUME CallAssumption == /\ Tallied \subseteq Callers
                         /\ MaxAttempts \in Nat \ {0}
                         /\ Statuses \subseteq Nat
                         /\ Seconds \subseteq Nat \ {0} /\ Dates \subseteq Nat \ {0}
                         /\ Wrap \in Nat \ {0} /\ Jitters \subseteq Nat
                         /\ Usages \subseteq [in : Nat, out : Nat, total : Nat]
                         /\ MaxCharged \in Nat

(* A provider that reports a total reports at least its parts.              *)
ASSUME HonestTotals == \A u \in Usages : u.total = 0 \/ u.total >= u.in + u.out

(* Arithmetic the provers have no theory of.                                *)
ASSUME PowersOfTwo == \A n \in 0 .. MaxAttempts : 2^n \in Nat

VARIABLES
  ctx,      \* ctx[c]: "live" or "done"
  call,     \* call[c]: where the call in progress stands
  tally,    \* tally[c]: the TokenTally on c's context
  charged   \* charged[c]: tokens the provider has charged c for (history)

callVars == <<ctx, call, tally, charged>>

-----------------------------------------------------------------------------
(* The operators of retry.go and of the adapters.                           *)

(* parseRetryAfter: the product of the seconds wraps as any Duration does,  *)
(* so a wait asked for may come out short, zero or negative; a date cannot, *)
(* and anything else asks for nothing.                                      *)
RetryAfter(secs) == LET product == (secs * 1000) % Wrap
                    IN  IF product < Wrap \div 2 THEN product ELSE product - Wrap
Hints == {0} \cup Dates \cup {RetryAfter(secs) : secs \in Seconds}

RetryBase == 500
RetryCap  == 8000

(* Mutant: every error of the provider is worth another try.                *)
TransientWithClientErrors(status) == status >= 400

Transient(status) == status = 429 \/ status >= 500

(* Mutant: a provider is waited for as long as it asks.                     *)
DelayUncapped(attempt, hint, jitter) ==
  IF hint > 0 THEN hint ELSE RetryBase * 2^(attempt - 1) + jitter

(* Mutant: any product of a Retry-After is a wait.                          *)
DelayUnsigned(attempt, hint, jitter) ==
  LET wished == IF hint # 0 THEN hint ELSE RetryBase * 2^(attempt - 1) + jitter
  IN  IF wished > RetryCap THEN RetryCap ELSE wished

Delay(attempt, hint, jitter) ==
  LET wished == IF hint > 0 THEN hint ELSE RetryBase * 2^(attempt - 1) + jitter
  IN  IF wished > RetryCap THEN RetryCap ELSE wished

(* Mutant: the total is taken as it comes.                                  *)
DerivedNever(u) == u.total

(* What Add makes of one call's usage: a total that was not reported is the *)
(* sum of the parts.                                                        *)
Derived(u) == IF u.total <= 0 THEN u.in + u.out ELSE u.total

EmptyTally == [in |-> 0, out |-> 0, total |-> 0, calls |-> 0]

Added(t, u) == [in |-> t.in + u.in, out |-> t.out + u.out,
                total |-> t.total + Derived(u), calls |-> t.calls + 1]

Failure(kind) == [ok |-> FALSE, text |-> NoText, kind |-> kind]
Completion(t) == [ok |-> TRUE, text |-> t, kind |-> "ok"]
FailureKinds  == {"cancelled", "transport", "provider", "undecodable"}
Answers       == {Failure(k) : k \in FailureKinds} \cup
                 {Completion(t) : t \in Texts \cup {NoText}}

(* seen: how the last attempt went; slept: what the waits of this call      *)
(* came to. Both are kept for the properties.                               *)
Sights == {"nothing", "passing", "final"}
Idle   == [pc |-> "idle", attempt |-> 0, slept |-> 0, seen |-> "nothing",
           answer |-> None]
Calls  == [pc : {"idle", "send", "flight", "wait", "back"}, attempt : 0 .. MaxAttempts,
           slept : Nat, seen : Sights, answer : Answers \cup {None}]

CallInit == /\ ctx = [c \in Callers |-> "live"]
            /\ call = [c \in Callers |-> Idle]
            /\ tally = [c \in Callers |-> EmptyTally]
            /\ charged = [c \in Callers |-> 0]

-----------------------------------------------------------------------------
(* Generate is entered: the request is built once.                          *)
Ask(c) ==
  /\ call[c].pc = "idle"
  /\ call' = [call EXCEPT ![c] = [Idle EXCEPT !.pc = "send", !.attempt = 1]]
  /\ UNCHANGED <<ctx, tally, charged>>

Return(c, a, sight) ==
  call' = [call EXCEPT ![c] = [@ EXCEPT !.pc = "back", !.seen = sight, !.answer = a]]

(* client.Do: a request bound to a context that has ended is not sent.      *)
Send(c) ==
  /\ call[c].pc = "send"
  /\ IF ctx[c] = "done" THEN Return(c, Failure("cancelled"), call[c].seen)
     ELSE call' = [call EXCEPT ![c].pc = "flight"]
  /\ UNCHANGED <<ctx, tally, charged>>

(* One more try after a wait, or the end when this was the last one.        *)
Again(c, hint, a, sight) ==
  IF call[c].attempt < MaxAttempts
  THEN \E j \in Jitters :
         call' = [call EXCEPT ![c] = [@ EXCEPT !.pc = "wait", !.seen = sight,
                                               !.slept = call[c].slept + Delay(call[c].attempt, hint, j)]]
  ELSE Return(c, a, sight)

(* What is charged is followed for the callers that keep a tally.           *)
Charge(c, u) == IF c \in Tallied
                THEN /\ charged[c] + u.in + u.out <= MaxCharged
                     /\ charged' = [charged EXCEPT ![c] = @ + u.in + u.out]
                ELSE UNCHANGED charged

(* The connection fails, the client's timeout strikes or the context ends   *)
(* before an answer: nothing, or a completion nobody will read, is charged. *)
TransportFails(c) ==
  /\ call[c].pc = "flight"
  /\ \/ UNCHANGED charged
     \/ \E u \in Usages : Charge(c, u)
  /\ IF ctx[c] = "done" THEN Return(c, Failure("cancelled"), "passing")
     ELSE Again(c, 0, Failure("transport"), "passing")
  /\ UNCHANGED <<ctx, tally>>

(* The body breaks off. The context is looked at only by the wait.          *)
BodyFails(c) ==
  /\ call[c].pc = "flight"
  /\ \E u \in Usages : Charge(c, u)
  /\ Again(c, 0, Failure("transport"), "passing")
  /\ UNCHANGED <<ctx, tally>>

(* A whole answer that is not a completion: repeated if that may help,      *)
(* returned as the provider's error otherwise.                              *)
Refused(c) ==
  /\ call[c].pc = "flight"
  /\ \E s \in Statuses, h \in Hints :
       /\ s >= 300
       /\ LET sight == IF s = 429 \/ s >= 500 THEN "passing" ELSE "final"
          IN  IF Transient(s) THEN Again(c, h, Failure("provider"), sight)
              ELSE Return(c, Failure("provider"), sight)
  /\ UNCHANGED <<ctx, tally, charged>>

(* A completion: its body may still not parse, its text may be empty. The   *)
(* gateway counts it only once the adapter has returned it.                 *)
Completed(c) ==
  /\ call[c].pc = "flight"
  /\ \E u \in Usages :
       /\ Charge(c, u)
       /\ \/ /\ Return(c, Failure("undecodable"), "final")
             /\ UNCHANGED tally
          \/ /\ \E t \in Texts \cup {NoText} : Return(c, Completion(t), "final")
             /\ tally' = IF c \in Tallied THEN [tally EXCEPT ![c] = Added(@, u)] ELSE tally
  /\ UNCHANGED ctx

(* Mutant: the wait watches the context and not the timer.                  *)
TimerFiresWithContext(c) ==
  /\ call[c].pc = "wait" /\ ctx[c] = "done"
  /\ call' = [call EXCEPT ![c].pc = "send", ![c].attempt = @ + 1]
  /\ UNCHANGED <<ctx, tally, charged>>

(* The timer of backoffWait. When the context ended too, select may still   *)
(* take the timer: then the next client.Do notices.                         *)
TimerFires(c) ==
  /\ call[c].pc = "wait"
  /\ call' = [call EXCEPT ![c].pc = "send", ![c].attempt = @ + 1]
  /\ UNCHANGED <<ctx, tally, charged>>

WaitCut(c) ==
  /\ call[c].pc = "wait" /\ ctx[c] = "done"
  /\ Return(c, Failure("cancelled"), call[c].seen)
  /\ UNCHANGED <<ctx, tally, charged>>

(* A cancellation, or the budget of the scan.                               *)
ContextEnds(c) ==
  /\ ctx[c] = "live"
  /\ ctx' = [ctx EXCEPT ![c] = "done"]
  /\ UNCHANGED <<call, tally, charged>>

CallStep(c) == \/ Send(c) \/ TransportFails(c) \/ BodyFails(c) \/ Refused(c)
               \/ Completed(c) \/ TimerFires(c) \/ WaitCut(c)

(* The client's timeout ends every attempt and timers fire.                 *)
CallFairness(c) == WF_callVars(CallStep(c))

-----------------------------------------------------------------------------
CallTypeOK ==
  /\ ctx \in [Callers -> {"live", "done"}]
  /\ call \in [Callers -> Calls]
  /\ tally \in [Callers -> [in : Nat, out : Nat, total : Nat, calls : Nat]]
  /\ charged \in [Callers -> 0 .. MaxCharged]

(* What a tally reports stays within what the provider charged, however     *)
(* many attempts were lost on the way, and its total covers its parts even  *)
(* when a provider (Anthropic) reports none.                                *)
TallyIsHonest ==
  \A c \in Callers :
    /\ tally[c].in + tally[c].out <= charged[c]
    /\ tally[c].total >= tally[c].in + tally[c].out

(* doJSONWithRetry: once a provider gave an answer that repeating cannot    *)
(* change (a completion, a refused key, a bad request), the call sends      *)
(* nothing more.                                                            *)
FinalAnswersAreFinal == \A c \in Callers : call[c].seen = "final" => call[c].pc = "back"

(* retry.go, "keep a stalled provider from stretching a scan indefinitely": *)
(* whatever a provider asks for, a call waits at most the cap before each   *)
(* further attempt.                                                         *)
WaitsAreBounded == \A c \in Callers : call[c].slept <= (MaxAttempts - 1) * RetryCap
=============================================================================
