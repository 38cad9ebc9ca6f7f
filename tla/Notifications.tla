---------------------------- MODULE Notifications ----------------------------
(***************************************************************************)
(* From a guest's post to the couple's inbox.  An RSVP, if content's       *)
(* deadline still allows it, or a message is stored by its handler, which  *)
(* then starts a goroutine that mails the couple and answers without       *)
(* waiting for it.  At shutdown the process stops accepting, gives the     *)
(* handlers ten seconds, then drains the goroutines of guests and of       *)
(* messages, one WaitGroup after the other, within fifteen seconds for     *)
(* both, and exits.                                                        *)
(*                                                                         *)
(* Time is left out but for its events: a limit may pass at any moment.    *)
(* What an RSVP says, and whose it is, is Invitations' matter: here its    *)
(* form is refused or not, and it has a yes or has none.                   *)
(***************************************************************************)
EXTENDS Integers, FiniteSets

CONSTANTS
  Rsvps,     \* submissions, each sent once
  Messages,  \* messages, each sent once
  DaysAhead  \* bound: how far ahead a deadline is set

Posts == Rsvps \cup Messages
DaysLeft == -1 .. DaysAhead
Exits == {"handlers", "drains", "listener", "misuse"}

Services == {"guests", "messages"}

ServiceOf(p) == IF p \in Rsvps THEN "guests" ELSE "messages"

ASSUME ConstantsAssumption ==
  /\ IsFiniteSet(Posts)
  /\ Rsvps \cap Messages = {}
  /\ DaysAhead \in Nat

VARIABLES
  daysLeft, \* content's deadline: days from today, in Sao Paulo, to its last day
  request,  \* where each post's handler is
  seen,     \* history: what the deadline was while a submission was under way
  mail,     \* where each post's goroutine is
  left,     \* history: how many mails left for the couple
  unheard,  \* history: posts of which a mail left and its answer did not come back
  logged,   \* posts whose failure was logged
  waiting,  \* the counter of each service's WaitGroup
  drain,    \* the goroutine of each DrainNotifications
  phase,    \* where cmd/api is
  cut       \* why the process may exit before everything is over

mails   == <<mail, left, unheard, logged>>
main    == <<drain, phase, cut>>
vars    == <<daysLeft, request, seen, mail, left, unheard, logged,
             waiting, drain, phase, cut>>

Init ==
  /\ daysLeft \in DaysLeft
  /\ request  = [p \in Posts |-> "unsent"]
  /\ seen     = [p \in Rsvps |-> {}]
  /\ mail     = [p \in Posts |-> "none"]
  /\ left     = [p \in Posts |-> 0]
  /\ unheard  = {}
  /\ logged   = {}
  /\ waiting  = [s \in Services |-> 0]
  /\ drain    = [s \in Services |-> "none"]
  /\ phase    = "up"
  /\ cut      = {}

Running == phase # "exited"

-----------------------------------------------------------------------------
\* Content: the deadline of the rsvp section.

\* Variant: the deadline's day does not count.
DeadlinePassedEarly(days) == days <= 0

\* The cutoff is the start of the day after the deadline.
DeadlinePassed(days) == days + 1 <= 0

\* What the site's visitors are told: the last day is still open.
Meant(days) == IF days >= 0 THEN "open" ELSE "passed"

\* Every submission under way has seen what the deadline becomes.
Watched(days) ==
  [p \in Rsvps |-> IF request[p] \in {"deadline", "store"}
                    THEN seen[p] \cup {Meant(days)} ELSE seen[p]]

\* Bound: the calendar stands still once every submission is decided, for nobody
\* reads it any more.
Calendar(days) ==
  /\ \E p \in Rsvps : request[p] \in {"unsent", "deadline", "store"}
  /\ days # daysLeft
  /\ daysLeft' = days
  /\ seen' = Watched(days)
  /\ UNCHANGED <<request, mails, waiting, main>>

\* The couple saves the rsvp section.
UpdateSection(days) == Running /\ Calendar(days)

NewDay == daysLeft >= 0 /\ Calendar(daysLeft - 1)

-----------------------------------------------------------------------------
\* Handlers.

\* The handler of p goes on to at; a submission that is decided sees no more.
At(p, at) ==
  /\ request' = [request EXCEPT ![p] = at]
  /\ seen' = [q \in Rsvps |->
                IF q # p THEN seen[q]
                ELSE IF at \in {"deadline", "store"} THEN seen[q] \cup {Meant(daysLeft)} ELSE {}]

\* The server accepts a post: nothing new once Shutdown closed the listeners.
Accept(p) ==
  /\ phase = "up"
  /\ request[p] = "unsent"
  /\ At(p, IF p \in Rsvps THEN "deadline" ELSE "store")
  /\ UNCHANGED <<daysLeft, mails, waiting, main>>

\* SubmitRSVP: the deadline, and whether it has passed.
ReadDeadline(p) ==
  /\ Running
  /\ request[p] = "deadline"
  /\ At(p, IF DeadlinePassed(daysLeft) THEN "tooLate" ELSE "store")
  /\ UNCHANGED <<daysLeft, mails, waiting, main>>

\* UpdateAttendances or InsertMessage commits.  A message's author is mailed
\* about always, a submission only if anybody comes.
Store(p) ==
  /\ Running
  /\ request[p] = "store"
  /\ \/ At(p, "notify")
     \/ p \in Rsvps /\ At(p, "answered")
  /\ UNCHANGED <<daysLeft, mails, waiting, main>>

\* A form or an invitation that is refused, or an error of the database.
Refuse(p) ==
  /\ Running
  /\ request[p] \in {"deadline", "store"}
  /\ At(p, "refused")
  /\ UNCHANGED <<daysLeft, mails, waiting, main>>

\* Variant: the counter is left to the goroutine.
NotifyWithoutAdd(p) ==
  /\ Running
  /\ request[p] = "notify"
  /\ At(p, "answered")
  /\ mail' = [mail EXCEPT ![p] = "first"]
  /\ UNCHANGED <<daysLeft, left, unheard, logged, waiting, main>>

\* notifyRSVP, notifyMessage: the counter goes up, the goroutine starts, and the
\* guest is answered.
Notify(p) ==
  /\ Running
  /\ request[p] = "notify"
  /\ At(p, "answered")
  /\ mail' = [mail EXCEPT ![p] = "first"]
  /\ waiting' = [waiting EXCEPT ![ServiceOf(p)] = @ + 1]
  /\ UNCHANGED <<daysLeft, left, unheard, logged, main>>

-----------------------------------------------------------------------------
\* The goroutine of a mail.

Sending(p) == Running /\ mail[p] \in {"first", "second"}

\* Its deferred Done; who waits for the last one is woken.
Over(p) ==
  LET s == ServiceOf(p) IN
  /\ mail' = [mail EXCEPT ![p] = "over"]
  /\ waiting' = [waiting EXCEPT ![s] = @ - 1]
  /\ drain' = [drain EXCEPT ![s] = IF @ = "waits" /\ waiting[s] = 1 THEN "woken" ELSE @]

\* Variant: tried for as long as it fails.
FailedAgain(p) ==
  /\ mail' = [mail EXCEPT ![p] = "pause"]
  /\ UNCHANGED <<logged, waiting, drain>>

\* What is left of the goroutine after an attempt whose error may be passing.
FailedOnce(p) ==
  \/ /\ mail[p] = "first"
     /\ mail' = [mail EXCEPT ![p] = "pause"]
     /\ UNCHANGED <<logged, waiting, drain>>
  \/ /\ mail[p] = "second"
     /\ logged' = logged \cup {p}
     /\ Over(p)

\* Variant: every attempt but the last is followed by another.
SendSucceedsAndRetries(p) ==
  /\ Sending(p)
  /\ left' = [left EXCEPT ![p] = @ + 1]
  /\ FailedOnce(p)
  /\ UNCHANGED <<daysLeft, request, seen, unheard, phase, cut>>

SendSucceeds(p) ==
  /\ Sending(p)
  /\ left' = [left EXCEPT ![p] = @ + 1]
  /\ Over(p)
  /\ UNCHANGED <<daysLeft, request, seen, unheard, logged, phase, cut>>

\* A 4xx: the same mail again cannot succeed.
SendRejected(p) ==
  /\ Sending(p)
  /\ logged' = logged \cup {p}
  /\ Over(p)
  /\ UNCHANGED <<daysLeft, request, seen, left, unheard, phase, cut>>

\* A 5xx, or the ten seconds of an attempt, before the mail was taken.
SendFails(p) ==
  /\ Sending(p)
  /\ FailedOnce(p)
  /\ UNCHANGED <<daysLeft, request, seen, left, unheard, phase, cut>>

\* The mail was taken, and the answer comes too late or is an error.
SendUnheard(p) ==
  /\ Sending(p)
  /\ left' = [left EXCEPT ![p] = @ + 1]
  /\ unheard' = unheard \cup {p}
  /\ FailedOnce(p)
  /\ UNCHANGED <<daysLeft, request, seen, phase, cut>>

\* Two seconds later.
Retry(p) ==
  /\ Running
  /\ mail[p] = "pause"
  /\ mail' = [mail EXCEPT ![p] = "second"]
  /\ UNCHANGED <<daysLeft, request, seen, left, unheard, logged, waiting, main>>

Attempt(p) ==
  \/ SendSucceeds(p) \/ SendRejected(p) \/ SendFails(p) \/ SendUnheard(p) \/ Retry(p)

-----------------------------------------------------------------------------
\* cmd/api.

Elsewhere == <<daysLeft, request, seen, mails, waiting>>

Signal ==
  /\ phase = "up"
  /\ phase' = "closing"
  /\ UNCHANGED <<Elsewhere, drain, cut>>

HandlersOver == \A p \in Posts : request[p] \notin {"deadline", "store", "notify"}

\* DrainNotifications of s starts a goroutine that calls Wait.
StartDrain(s) ==
  /\ phase' = s
  /\ drain' = [drain EXCEPT ![s] = "started"]

\* Variant: the handlers may take all the time they want.
ShutdownEndsUnbounded ==
  /\ phase = "closing"
  /\ HandlersOver
  /\ StartDrain("guests")
  /\ UNCHANGED <<Elsewhere, cut>>

\* Shutdown returns when no handler is left, or after ten seconds.
ShutdownEnds ==
  /\ phase = "closing"
  /\ HandlersOver \/ "handlers" \in cut
  /\ StartDrain("guests")
  /\ UNCHANGED <<Elsewhere, cut>>

\* Wait returns at once if nothing is under way, and else when it is woken; a
\* counter that somebody raised meanwhile is misuse and ends the process.
Wait(s) ==
  /\ Running
  /\ \/ /\ drain[s] = "started"
        /\ drain' = [drain EXCEPT ![s] = IF waiting[s] = 0 THEN "returned" ELSE "waits"]
        /\ UNCHANGED <<phase, cut>>
     \/ /\ drain[s] = "woken"
        /\ waiting[s] = 0
        /\ drain' = [drain EXCEPT ![s] = "returned"]
        /\ UNCHANGED <<phase, cut>>
     \/ /\ drain[s] = "woken"
        /\ waiting[s] # 0
        /\ phase' = "exited"
        /\ cut' = cut \cup {"misuse"}
        /\ UNCHANGED drain
  /\ UNCHANGED Elsewhere

\* Variant: the messages are not drained.
GuestsDrainedAndExit ==
  /\ phase = "guests"
  /\ drain["guests"] = "returned" \/ "drains" \in cut
  /\ phase' = "exited"
  /\ UNCHANGED <<Elsewhere, drain, cut>>

GuestsDrained ==
  /\ phase = "guests"
  /\ drain["guests"] = "returned" \/ "drains" \in cut
  /\ StartDrain("messages")
  /\ UNCHANGED <<Elsewhere, cut>>

\* The process exits, and every goroutine with it.
MessagesDrained ==
  /\ phase = "messages"
  /\ drain["messages"] = "returned" \/ "drains" \in cut
  /\ phase' = "exited"
  /\ UNCHANGED <<Elsewhere, drain, cut>>

\* A limit passes while it is waited for.
TimeIsUp ==
  /\ \/ phase = "closing" /\ cut' = cut \cup {"handlers"}
     \/ phase \in Services /\ cut' = cut \cup {"drains"}
  /\ UNCHANGED <<Elsewhere, drain, phase>>

\* The listener fails: the process exits without a drain.
ListenFails ==
  /\ phase = "up"
  /\ phase' = "exited"
  /\ cut' = cut \cup {"listener"}
  /\ UNCHANGED <<Elsewhere, drain>>

Main == ShutdownEnds \/ GuestsDrained \/ MessagesDrained

Next ==
  \/ \E days \in DaysLeft : UpdateSection(days)
  \/ NewDay
  \/ \E p \in Rsvps : ReadDeadline(p)
  \/ \E p \in Posts : Accept(p) \/ Store(p) \/ Refuse(p) \/ Notify(p)
  \/ \E p \in Posts : Attempt(p)
  \/ \E s \in Services : Wait(s)
  \/ Signal \/ Main \/ TimeIsUp \/ ListenFails

Spec == Init /\ [][Next]_vars

\* Timers fire, and goroutines that wait for nothing run: an attempt is limited
\* to ten seconds, and between its commit and its goroutine a handler waits for
\* nothing.  A handler's statements may take for ever, and nobody has to send a
\* signal.
FairSpec ==
  /\ Spec
  /\ WF_vars(Main) /\ WF_vars(TimeIsUp)
  /\ \A s \in Services : WF_vars(Wait(s))
  /\ \A p \in Posts : WF_vars(Notify(p)) /\ WF_vars(Attempt(p))

-----------------------------------------------------------------------------
\* Each post, counter and phase has a value the code can give it, and a WaitGroup
\* counts the goroutines it was told of.
TypeOK ==
  /\ daysLeft \in DaysLeft
  /\ request \in [Posts -> {"unsent", "deadline", "store", "notify", "answered",
                            "tooLate", "refused"}]
  /\ seen \in [Rsvps -> SUBSET {"open", "passed"}]
  /\ mail \in [Posts -> {"none", "first", "pause", "second", "over"}]
  /\ left \in [Posts -> 0 .. 2]
  /\ unheard \subseteq Posts /\ logged \subseteq Posts
  /\ waiting \in [Services -> 0 .. Cardinality(Posts)]
  /\ drain \in [Services -> {"none", "started", "waits", "woken", "returned"}]
  /\ phase \in {"up", "closing", "exited"} \cup Services
  /\ cut \subseteq Exits

\* A post the couple has to hear of, and one they did, or of which the log does.
Due(p) == request[p] = "notify" \/ mail[p] # "none"
Heard(p) == left[p] > 0 \/ p \in logged

\* DrainNotifications' comment: the mail of a post that was just stored is not
\* killed silently with the process.  A shutdown that exceeded none of its
\* limits leaves no post of which the couple did not hear and the log does not
\* tell; past them only the later service, or a late handler, can lose one.
NothingKilledInTime ==
  phase = "exited" /\ cut = {} => \A p \in Posts : Due(p) => Heard(p)

\* A mail is sent again only because the first attempt's answer was lost, and
\* the log blames a mail that left only for that reason: a send that succeeded
\* is neither repeated nor reported.
TwiceOnlyIfUnheard ==
  \A p \in Posts : left[p] = 2 \/ (left[p] = 1 /\ p \in logged) => p \in unheard

\* A step that records the submission p, or refuses it as late, has the deadline's word.
DecidedByDeadline(p) ==
  /\ request[p] = "store" /\ request'[p] \in {"notify", "answered"} => "open" \in seen[p]
  /\ request[p] # "tooLate" /\ request'[p] = "tooLate" => "passed" \in seen[p]

\* The deadline of the content section decides about a submission although it
\* is read before anything is stored: what is recorded was under way while the
\* window was open, what is refused as late was under way after its last day.
DeadlineDecides == [][\A p \in Rsvps : DecidedByDeadline(p)]_vars

\* AD-15: the couple hears of every post, or the log tells why not, unless the
\* process ends first.
EveryPostHeardOf == \A p \in Posts : Due(p) ~> Heard(p) \/ phase = "exited"

\* A shutdown ends, although handlers may hang in the database and a mail may
\* fail for as long as it is tried.
ShutdownTerminates == phase = "closing" ~> phase = "exited"
=============================================================================
